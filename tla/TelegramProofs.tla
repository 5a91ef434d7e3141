--------------------------- MODULE TelegramProofs ---------------------------
(***************************************************************************)
(* Proofs about TelegramSupervisors and Bridge.  For any callers,          *)
(* processes and bounds the supervisors' state is well typed, overlapping  *)
(* calls or not, and while calls do not overlap no launch of a process is  *)
(* in vain.  For tunnels of every kind and length, the last section.       *)
(***************************************************************************)
EXTENDS TelegramSupervisors, Bridge, Integers, SequenceTheorems, TLAPS

\* What lives is a process of some service.
Belongs == \A p \in Procs : engine[p].st # "dead" => engine[p].of \in Parts

Types == TypeOK /\ Belongs

(***************************************************************************)
(* Types.                                                                  *)
(***************************************************************************)

\* What a config is rendered from.
LEMMA ConfigType ==
    ASSUME TypeOK, NEW s \in Services
    PROVE  ConfigOf(s) \in Config
  <1>1. setting[s] \in Setting
    BY DEF TypeOK
  <1>2. QED
    BY <1>1 DEF ConfigOf, Config, Setting

\* A call that goes on elsewhere.
LEMMA GotoType ==
    ASSUME TypeOK, NEW c \in Callers, NEW pc \in Pcs
    PROVE  /\ Goto(c, pc) \in Call /\ Goto(c, pc).pc = pc /\ Goto(c, pc).waits = None
           /\ Goto(c, pc).left = <<>> /\ Goto(c, pc).then = call[c].then
           /\ Goto(c, pc).cand = call[c].cand
           /\ \A p \in Procs : [Goto(c, pc) EXCEPT !.waits = p] \in Call
           /\ \A then \in {"mtproto", "webrelay", "spawn mtg", "spawn core", "idle"} :
                \A p \in Procs : [Goto(c, pc) EXCEPT !.waits = p, !.then = then] \in Call
           /\ \A cand \in Config : [Goto(c, pc) EXCEPT !.cand = cand] \in Call
  <1>1. call[c] \in Call
    BY DEF TypeOK
  <1>2. <<>> \in Seq({"core", "relay"} \X (Procs \cup {None}))
    OBVIOUS
  <1>3. Goto(c, pc) = [call[c] EXCEPT !.pc = pc, !.waits = None, !.left = <<>>]
    BY DEF Goto
  <1>4. QED
    BY <1>1, <1>2, <1>3 DEF Call

LEMMA IdleType == IdleCall \in Call
  <1>1. <<>> \in Seq({"core", "relay"} \X (Procs \cup {None}))
    OBVIOUS
  <1>2. QED
    BY <1>1 DEF IdleCall, Call, Pcs, Running

\* A process that is launched.
Started(part) == [Dead EXCEPT !.st = "starting", !.of = part]

LEMMA StartedType ==
    /\ Dead \in Process /\ Dead.st = "dead" /\ Dead.cfg = None
    /\ \A part \in Parts : /\ Started(part) \in Process /\ Started(part).st = "starting"
                           /\ Started(part).of = part /\ Started(part).cfg = None
  <1>1. Dead \in Process /\ Dead.st = "dead" /\ Dead.cfg = None
    BY DEF Process, Dead
  <1>2. \A d \in Process, part \in Parts :
           /\ [d EXCEPT !.st = "starting", !.of = part] \in Process
           /\ [d EXCEPT !.st = "starting", !.of = part].st = "starting"
           /\ [d EXCEPT !.st = "starting", !.of = part].of = part
           /\ [d EXCEPT !.st = "starting", !.of = part].cfg = d.cfg
    BY DEF Process
  <1>3. QED
    BY <1>1, <1>2 DEF Started

\* One that is terminated keeps what it is and what it loaded.
Stopped(p) == [engine EXCEPT ![p].st = "term"]

LEMMA TermType ==
    ASSUME engine \in [Procs -> Process], NEW p \in Procs
    PROVE  /\ Stopped(p) \in [Procs -> Process] /\ Stopped(p)[p].st = "term"
           /\ \A q \in Procs : /\ Stopped(p)[q].of = engine[q].of /\ Stopped(p)[q].cfg = engine[q].cfg
                               /\ q # p => Stopped(p)[q] = engine[q]
  <1>1. engine[p] \in Process
    OBVIOUS
  <1>2. PICK t : t = [engine[p] EXCEPT !.st = "term"]
    OBVIOUS
  <1>3. t \in Process /\ t.st = "term" /\ t.of = engine[p].of /\ t.cfg = engine[p].cfg
    BY <1>1, <1>2 DEF Process
  <1>4. Stopped(p) = [engine EXCEPT ![p] = t]
    BY <1>2 DEF Stopped
  <1>5. QED
    BY <1>3, <1>4

(***************************************************************************)
(* What the shared parts of a pass do.                                     *)
(***************************************************************************)

\* A pass that returns, or is cancelled.
LEMMA ReturnDoes ==
    ASSUME TypeOK, NEW c \in Callers, Return(c)
    PROVE  /\ call' \in [Callers -> Call] /\ call'[c] = IdleCall
           /\ \A d \in Callers \ {c} : call'[d] = call[d]
           /\ phase' \in {"boot", "running", "closing", "stopped"}
           /\ phase' = phase \/ (phase = "boot" /\ phase' = "running")
  BY IdleType DEF Return, TypeOK

\* A pass that goes on at another point.
LEMMA GotoDoes ==
    ASSUME TypeOK, NEW c \in Callers, NEW pc \in Pcs, call' = [call EXCEPT ![c] = Goto(c, pc)]
    PROVE  /\ call' \in [Callers -> Call]
           /\ call'[c].pc = pc /\ call'[c].waits = None /\ call'[c].left = <<>>
           /\ call'[c].then = call[c].then
           /\ \A d \in Callers \ {c} : call'[d] = call[d]
  <1>1. call \in [Callers -> Call]
    BY DEF TypeOK
  <1>2. QED
    BY <1>1, GotoType

\* mtproto._stop() terminates the process and waits, or there is none.
LEMMA StopMtgDoes ==
    ASSUME Types, NEW c \in Callers, NEW then \in {"webrelay", "spawn mtg"}, StopMtg(c, then)
    PROVE  /\ engine' \in [Procs -> Process] /\ procs' \in [Parts -> Procs \cup {None}]
           /\ call' \in [Callers -> Call]
           /\ \A d \in Callers \ {c} : call'[d] = call[d]
           /\ \/ /\ Alive(procs["mtg"]) /\ procs' = procs /\ procs["mtg"] \in Procs
                 /\ engine'[procs["mtg"]].st = "term"
                 /\ \A q \in Procs : /\ engine'[q].of = engine[q].of /\ engine'[q].cfg = engine[q].cfg
                                     /\ q # procs["mtg"] => engine'[q] = engine[q]
                 /\ call'[c].pc = "stop mtg" /\ call'[c].waits = procs["mtg"] /\ call'[c].then = then
                 /\ call'[c].left = <<>>
              \/ /\ ~Alive(procs["mtg"]) /\ engine' = engine
                 /\ procs' = [procs EXCEPT !["mtg"] = None]
                 /\ call'[c].pc = then /\ call'[c].waits = None /\ call'[c].left = <<>>
  <1>1. /\ engine \in [Procs -> Process] /\ procs \in [Parts -> Procs \cup {None}] /\ TypeOK
        /\ call \in [Callers -> Call] /\ "mtg" \in Parts
    BY DEF Types, TypeOK, Parts
  <1>2. CASE Alive(procs["mtg"])
    <2>1. PICK p \in Procs : p = procs["mtg"]
      BY <1>1, <1>2 DEF Alive
    <2>2. PICK j : j = [Goto(c, "stop mtg") EXCEPT !.waits = p, !.then = then]
      OBVIOUS
    <2>3. /\ call' = [call EXCEPT ![c] = j] /\ procs' = procs
          /\ engine' = Stopped(p)
      BY <1>2, <2>1, <2>2 DEF StopMtg, Stopped
    <2>4. j \in Call /\ j.pc = "stop mtg" /\ j.waits = p /\ j.then = then /\ j.left = <<>>
      <3>1. Goto(c, "stop mtg") \in Call /\ Goto(c, "stop mtg").pc = "stop mtg" /\ Goto(c, "stop mtg").left = <<>>
        BY <1>1, GotoType DEF Pcs
      <3>2. then \in {"mtproto", "webrelay", "spawn mtg", "spawn core", "idle"}
        OBVIOUS
      <3>3. QED
        BY <2>2, <3>1, <3>2 DEF Call
    <2>5. /\ engine' \in [Procs -> Process] /\ engine'[p].st = "term"
          /\ \A q \in Procs : /\ engine'[q].of = engine[q].of /\ engine'[q].cfg = engine[q].cfg
                              /\ q # p => engine'[q] = engine[q]
      BY <1>1, <2>3, TermType
    <2>6. /\ call' \in [Callers -> Call] /\ call'[c] = j
          /\ \A d \in Callers \ {c} : call'[d] = call[d]
      BY <1>1, <2>3, <2>4
    <2>7. QED
      BY <1>1, <1>2, <2>1, <2>3, <2>4, <2>5, <2>6
  <1>3. CASE ~Alive(procs["mtg"])
    <2>1. /\ call' = [call EXCEPT ![c] = Goto(c, then)] /\ procs' = [procs EXCEPT !["mtg"] = None]
          /\ engine' = engine
      BY <1>3 DEF StopMtg
    <2>2. then \in Pcs
      BY DEF Pcs, Running
    <2>3. procs' \in [Parts -> Procs \cup {None}]
      BY <1>1, <2>1
    <2>4. QED
      BY <1>1, <1>3, <2>1, <2>2, <2>3, GotoDoes
  <1>4. QED
    BY <1>2, <1>3

\* Two things of a kind are a sequence of them.
LEMMA PairIsSeq == ASSUME NEW S, NEW a \in S, NEW b \in S PROVE <<a, b>> \in Seq(S)
  OBVIOUS

\* What is visited next, and what is left after it.
LEMMA EndsAreTyped ==
    ASSUME NEW S, NEW s \in Seq(S), s # <<>>
    PROVE  Head(s) \in S /\ Tail(s) \in Seq(S)
  OBVIOUS

\* webrelay._stop() takes its snapshot.
LEMMA StopWebDoes ==
    ASSUME TypeOK, NEW c \in Callers, NEW then \in {"idle", "spawn core"}, StopWeb(c, then)
    PROVE  /\ call' \in [Callers -> Call]
           /\ call'[c].pc = "halves" /\ call'[c].left = Halves /\ call'[c].then = then
           /\ call'[c].waits = None
           /\ \A d \in Callers \ {c} : call'[d] = call[d]
  <1>1. call \in [Callers -> Call] /\ procs["core"] \in Procs \cup {None} /\ procs["relay"] \in Procs \cup {None}
    BY DEF TypeOK, Parts
  <1>2. Halves \in Seq({"core", "relay"} \X (Procs \cup {None}))
    <2> DEFINE S == {"core", "relay"} \X (Procs \cup {None})
    <2>1. PICK core, relay : core = <<"core", procs["core"]>> /\ relay = <<"relay", procs["relay"]>>
      OBVIOUS
    <2>2. core \in S /\ relay \in S /\ Halves = <<core, relay>>
      BY <1>1, <2>1 DEF Halves
    <2> HIDE DEF S
    <2>3. Halves \in Seq(S)
      BY <2>2, PairIsSeq
    <2>4. QED
      BY <2>3 DEF S
  <1>3. PICK j : j = [Goto(c, "halves") EXCEPT !.left = Halves, !.then = then]
    OBVIOUS
  <1>4. Goto(c, "halves") \in Call /\ Goto(c, "halves").pc = "halves" /\ Goto(c, "halves").waits = None
    BY GotoType DEF Pcs, Running
  <1>5. j \in Call /\ j.pc = "halves" /\ j.left = Halves /\ j.then = then /\ j.waits = None
    BY <1>2, <1>3, <1>4 DEF Call
  <1>6. call' = [call EXCEPT ![c] = j]
    BY <1>3 DEF StopWeb
  <1>7. QED
    BY <1>1, <1>5, <1>6

Settling(part) == IF part = "mtg" THEN "settle mtg" ELSE IF part = "core" THEN "settle core" ELSE "settle relay"

\* A launch takes a process identity nobody holds.
LEMMA LaunchDoes ==
    ASSUME Types, NEW c \in Callers, NEW part \in Parts, Launch(c, part)
    PROVE  /\ call' \in [Callers -> Call] /\ procs' \in [Parts -> Procs \cup {None}]
           /\ engine' \in [Procs -> Process]
           /\ \A d \in Callers \ {c} : call'[d] = call[d]
           /\ \E p \in Procs :
                /\ Free(p) /\ engine'[p] = Started(part) /\ procs' = [procs EXCEPT ![part] = p]
                /\ \A q \in Procs \ {p} : engine'[q] = engine[q]
                /\ call'[c].pc = Settling(part) /\ call'[c].waits = p /\ call'[c].left = <<>>
  <1>1. /\ engine \in [Procs -> Process] /\ procs \in [Parts -> Procs \cup {None}] /\ TypeOK
        /\ call \in [Callers -> Call]
    BY DEF Types, TypeOK
  <1>2. PICK p \in Procs : /\ Free(p)
                           /\ engine' = [engine EXCEPT ![p] = Started(part)]
                           /\ procs' = [procs EXCEPT ![part] = p]
                           /\ call' = [call EXCEPT ![c] = [Goto(c, Settling(part)) EXCEPT !.waits = p]]
    <2>1. PICK p : p = CHOOSE q \in Procs : Free(q)
      OBVIOUS
    <2>2. p \in Procs /\ Free(p)
      BY <2>1 DEF Launch
    <2>3. QED
      BY <2>1, <2>2 DEF Launch, Started, Settling
  <1>3. Settling(part) \in Pcs
    BY DEF Settling, Pcs
  <1>4. PICK j : j = [Goto(c, Settling(part)) EXCEPT !.waits = p]
    OBVIOUS
  <1>5. j \in Call /\ j.pc = Settling(part) /\ j.waits = p /\ j.left = <<>>
    <2>1. Goto(c, Settling(part)) \in Call /\ Goto(c, Settling(part)).pc = Settling(part)
          /\ Goto(c, Settling(part)).left = <<>>
      BY <1>1, <1>3, GotoType
    <2>2. QED
      BY <1>4, <2>1 DEF Call
  <1>6. QED
    BY <1>1, <1>2, <1>4, <1>5, StartedType

(***************************************************************************)
(* The types hold.                                                         *)
(***************************************************************************)

\* The end of an action that leaves the settings as they are and starts nothing.
LEMMA TypesFrom ==
    ASSUME Types, setting' = setting, forwarded' = forwarded,
           file' \in [Services -> Config \cup {None}], hash' \in [Services -> Config \cup {None}],
           procs' \in [Parts -> Procs \cup {None}], call' \in [Callers -> Call],
           phase' \in {"boot", "running", "closing", "stopped"},
           changes' = changes, faults' \in 0..MaxFaults,
           engine' \in [Procs -> Process],
           \A p \in Procs : engine'[p].st # "dead" => engine'[p].of \in Parts
    PROVE  Types'
  BY DEF Types, TypeOK, Belongs

\* The first half of a pass.
LEMMA MtprotoTyped ==
    ASSUME Types, NEW c \in Callers,
           SyncMtproto(c) \/ CheckMtg(c) \/ StopMtgDone(c) \/ SpawnMtg(c) \/ SettleMtg(c)
    PROVE  Types'
  <1>0. /\ TypeOK /\ engine \in [Procs -> Process] /\ procs \in [Parts -> Procs \cup {None}]
        /\ file \in [Services -> Config \cup {None}] /\ hash \in [Services -> Config \cup {None}]
        /\ call \in [Callers -> Call] /\ call[c] \in Call /\ faults \in 0..MaxFaults
        /\ phase \in {"boot", "running", "closing", "stopped"}
        /\ \A p \in Procs : engine[p].st # "dead" => engine[p].of \in Parts
        /\ "mtproto" \in Services /\ "mtg" \in Parts
    BY DEF Types, TypeOK, Belongs, Services, Parts
  <1>a. ASSUME NEW then \in {"webrelay", "spawn mtg"}, StopMtg(c, then),
               UNCHANGED <<setting, forwarded, hash, phase, changes, faults, file>>
        PROVE  Types'
    <2>1. \A p \in Procs : engine'[p].of = engine[p].of /\ (engine'[p].st # "dead" => engine[p].st # "dead")
      BY <1>0, <1>a, StopMtgDoes DEF Alive
    <2>2. \A p \in Procs : engine'[p].st # "dead" => engine'[p].of \in Parts
      BY <1>0, <2>1
    <2>3. engine' \in [Procs -> Process] /\ procs' \in [Parts -> Procs \cup {None}] /\ call' \in [Callers -> Call]
      BY <1>a, StopMtgDoes
    <2>4. QED
      BY <1>0, <1>a, <2>2, <2>3, TypesFrom
  <1>b. ASSUME NEW pc \in Pcs, call' = [call EXCEPT ![c] = Goto(c, pc)],
               procs' = procs \/ procs' = [procs EXCEPT !["mtg"] = None],
               UNCHANGED <<setting, forwarded, file, hash, engine, phase, changes, faults>>
        PROVE  Types'
    <2>1. call' \in [Callers -> Call]
      BY <1>0, <1>b, GotoDoes
    <2>2. procs' \in [Parts -> Procs \cup {None}]
      BY <1>0, <1>b
    <2>3. QED
      BY <1>0, <1>b, <2>1, <2>2, TypesFrom
  <1>1. CASE SyncMtproto(c)
    <2>1. CASE ~Wanted("mtproto")
      BY <1>1, <1>a, <2>1 DEF SyncMtproto, settingsVars
    <2>2. CASE Wanted("mtproto") /\ Keeps(c, "mtproto")
      BY <1>1, <1>b, <2>2 DEF SyncMtproto, settingsVars, Pcs, Running
    <2>3. CASE Wanted("mtproto") /\ ~Keeps(c, "mtproto")
      <3>1. /\ file' = [file EXCEPT !["mtproto"] = ConfigOf("mtproto")]
            /\ call' = [call EXCEPT ![c] = [Goto(c, "check mtg") EXCEPT !.cand = ConfigOf("mtproto")]]
            /\ UNCHANGED <<setting, forwarded, procs, hash, engine, phase, changes, faults>>
        BY <1>1, <2>3 DEF SyncMtproto, settingsVars
      <3>2. ConfigOf("mtproto") \in Config
        BY <1>0, ConfigType
      <3>3. [Goto(c, "check mtg") EXCEPT !.cand = ConfigOf("mtproto")] \in Call
        BY <1>0, <3>2, GotoType DEF Pcs
      <3>4. call' \in [Callers -> Call] /\ file' \in [Services -> Config \cup {None}]
        BY <1>0, <3>1, <3>2, <3>3
      <3>5. QED
        BY <1>0, <3>1, <3>4, TypesFrom
    <2>4. QED
      BY <2>1, <2>2, <2>3
  <1>2. CASE CheckMtg(c)
    BY <1>2, <1>a, <1>b DEF CheckMtg, settingsVars, Pcs, Running
  <1>3. CASE StopMtgDone(c)
    <2>1. call[c].then \in Pcs
      BY <1>0 DEF Call, Pcs, Running
    <2>2. QED
      BY <1>3, <1>b, <2>1 DEF StopMtgDone, settingsVars
  <1>4. CASE SpawnMtg(c)
    <2>1. Launch(c, "mtg") /\ hash' = [hash EXCEPT !["mtproto"] = call[c].cand]
          /\ UNCHANGED <<setting, forwarded, file, phase, changes, faults>>
      BY <1>4 DEF SpawnMtg, settingsVars
    <2>2. hash' \in [Services -> Config \cup {None}]
      BY <1>0, <2>1 DEF Call
    <2>3. \A p \in Procs : engine'[p].st # "dead" => engine'[p].of \in Parts
      BY <1>0, <2>1, LaunchDoes, StartedType
    <2>4. engine' \in [Procs -> Process] /\ procs' \in [Parts -> Procs \cup {None}] /\ call' \in [Callers -> Call]
      BY <1>0, <2>1, LaunchDoes
    <2>5. QED
      BY <1>0, <2>1, <2>2, <2>3, <2>4, TypesFrom
  <1>5. CASE SettleMtg(c)
    <2>1. CASE procs["mtg"] = None
      <3>1. Return(c) /\ UNCHANGED <<setting, forwarded, file, procs, hash, engine, changes, faults>>
        BY <1>5, <2>1 DEF SettleMtg, settingsVars, moduleVars
      <3>2. QED
        BY <1>0, <3>1, ReturnDoes, TypesFrom
    <2>2. CASE procs["mtg"] # None
      BY <1>5, <1>b, <2>2 DEF SettleMtg, settingsVars, moduleVars, Pcs, Running
    <2>3. QED
      BY <2>1, <2>2
  <1>6. QED
    BY <1>1, <1>2, <1>3, <1>4, <1>5

\* The second half.
LEMMA WebTyped ==
    ASSUME Types, NEW c \in Callers,
           \/ SyncWebrelay(c) \/ CheckWeb(c) \/ StopHalf(c) \/ HalfGone(c) \/ StoppedHalves(c)
           \/ SpawnHalf(c, "core") \/ SpawnHalf(c, "relay") \/ SettleHalf(c) \/ SpawnFails(c)
    PROVE  Types'
  <1>0. /\ TypeOK /\ engine \in [Procs -> Process] /\ procs \in [Parts -> Procs \cup {None}]
        /\ file \in [Services -> Config \cup {None}] /\ hash \in [Services -> Config \cup {None}]
        /\ call \in [Callers -> Call] /\ call[c] \in Call /\ faults \in 0..MaxFaults
        /\ phase \in {"boot", "running", "closing", "stopped"} /\ MaxFaults \in Nat
        /\ \A p \in Procs : engine[p].st # "dead" => engine[p].of \in Parts
        /\ "webrelay" \in Services /\ "core" \in Parts /\ "relay" \in Parts
    BY BoundsAreNat DEF Types, TypeOK, Belongs, Services, Parts
  <1>a. ASSUME call' \in [Callers -> Call], phase' \in {"boot", "running", "closing", "stopped"},
               hash' \in [Services -> Config \cup {None}], faults' \in 0..MaxFaults,
               UNCHANGED <<setting, forwarded, file, procs, engine, changes>>
        PROVE  Types'
    BY <1>0, <1>a, TypesFrom
  <1>1. CASE SyncWebrelay(c)
    <2>1. UNCHANGED <<setting, forwarded, procs, hash, engine, changes, faults>>
      BY <1>1 DEF SyncWebrelay, settingsVars
    <2>2. CASE ~Wanted("webrelay")
      BY <1>0, <1>1, <1>a, <2>1, <2>2, StopWebDoes DEF SyncWebrelay
    <2>3. CASE Wanted("webrelay") /\ Keeps(c, "webrelay")
      BY <1>0, <1>1, <1>a, <2>1, <2>3, ReturnDoes DEF SyncWebrelay
    <2>4. CASE Wanted("webrelay") /\ ~Keeps(c, "webrelay")
      <3>1. /\ file' = [file EXCEPT !["webrelay"] = ConfigOf("webrelay")]
            /\ call' = [call EXCEPT ![c] = [Goto(c, "check web") EXCEPT !.cand = ConfigOf("webrelay")]]
            /\ phase' = phase
        BY <1>1, <2>4 DEF SyncWebrelay
      <3>2. ConfigOf("webrelay") \in Config
        BY <1>0, ConfigType
      <3>3. [Goto(c, "check web") EXCEPT !.cand = ConfigOf("webrelay")] \in Call
        BY <1>0, <3>2, GotoType DEF Pcs
      <3>4. call' \in [Callers -> Call] /\ file' \in [Services -> Config \cup {None}]
        BY <1>0, <3>1, <3>2, <3>3
      <3>5. QED
        BY <1>0, <2>1, <3>1, <3>4, TypesFrom
    <2>5. QED
      BY <2>2, <2>3, <2>4
  <1>2. CASE CheckWeb(c)
    BY <1>0, <1>2, <1>a, StopWebDoes, ReturnDoes DEF CheckWeb, settingsVars, moduleVars
  <1>3. CASE StopHalf(c)
    <2> DEFINE half == Head(call[c].left)
    <2>1. /\ half \in {"core", "relay"} \X (Procs \cup {None})
          /\ Tail(call[c].left) \in Seq({"core", "relay"} \X (Procs \cup {None}))
      <3>1. call[c].left \in Seq({"core", "relay"} \X (Procs \cup {None})) /\ call[c].left # <<>>
        BY <1>0, <1>3 DEF StopHalf, Call
      <3>2. QED
        BY <3>1, EndsAreTyped
    <2>2. half[1] \in Parts /\ half[2] \in Procs \cup {None}
      BY <2>1 DEF Parts
    <2>3. procs' \in [Parts -> Procs \cup {None}] /\ UNCHANGED <<setting, forwarded, file, hash, phase, changes, faults>>
      BY <1>0, <1>3, <2>2 DEF StopHalf, settingsVars
    <2> HIDE DEF half
    <2>4. CASE Alive(half[2])
      <3>1. engine' = Stopped(half[2]) /\ half[2] \in Procs
        BY <1>3, <2>2, <2>4 DEF StopHalf, Stopped, Alive, half
      <3>2. engine' \in [Procs -> Process]
            /\ \A p \in Procs : engine'[p].of = engine[p].of /\ (p # half[2] => engine'[p] = engine[p])
        BY <1>0, <3>1, TermType
      <3>3. \A p \in Procs : engine'[p].st # "dead" => engine'[p].of \in Parts
        BY <1>0, <2>4, <3>2 DEF Alive
      <3>4. PICK j : j = [call[c] EXCEPT !.pc = "stop half", !.waits = half[2], !.left = Tail(call[c].left)]
        OBVIOUS
      <3>5. j \in Call
        BY <1>0, <2>1, <3>1, <3>4 DEF Call, Pcs
      <3>6. call' = [call EXCEPT ![c] = j]
        BY <1>0, <1>3, <2>4, <3>4 DEF StopHalf, half
      <3>7. QED
        BY <1>0, <2>3, <3>2, <3>3, <3>5, <3>6, TypesFrom
    <2>5. CASE ~Alive(half[2])
      <3>1. PICK j : j = [call[c] EXCEPT !.left = Tail(call[c].left)]
        OBVIOUS
      <3>2. j \in Call
        BY <1>0, <2>1, <3>1 DEF Call
      <3>3. call' = [call EXCEPT ![c] = j] /\ engine' = engine
        BY <1>0, <1>3, <2>5, <3>1 DEF StopHalf, half
      <3>4. QED
        BY <1>0, <2>3, <3>2, <3>3, TypesFrom
    <2>6. QED
      BY <2>4, <2>5
  <1>4. CASE HalfGone(c)
    <2>1. PICK j : j = [call[c] EXCEPT !.pc = "halves", !.waits = None]
      OBVIOUS
    <2>2. j \in Call
      BY <1>0, <2>1 DEF Call, Pcs, Running
    <2>3. call' = [call EXCEPT ![c] = j] /\ UNCHANGED <<setting, forwarded, file, procs, hash, engine, phase, changes, faults>>
      BY <1>0, <1>4, <2>1 DEF HalfGone, settingsVars, moduleVars
    <2>4. QED
      BY <1>0, <1>a, <2>2, <2>3
  <1>5. CASE StoppedHalves(c)
    <2>1. call[c].then \in Pcs
      BY <1>0 DEF Call, Pcs, Running
    <2>2. QED
      BY <1>0, <1>5, <1>a, <2>1, GotoDoes, ReturnDoes DEF StoppedHalves, settingsVars, moduleVars
  <1>6. ASSUME NEW part \in {"core", "relay"}, SpawnHalf(c, part) PROVE Types'
    <2>1. Launch(c, part) /\ UNCHANGED <<setting, forwarded, file, hash, phase, changes, faults>> /\ part \in Parts
      BY <1>6 DEF SpawnHalf, settingsVars, Parts
    <2>2. \A p \in Procs : engine'[p].st # "dead" => engine'[p].of \in Parts
      BY <1>0, <2>1, LaunchDoes, StartedType
    <2>3. engine' \in [Procs -> Process] /\ procs' \in [Parts -> Procs \cup {None}] /\ call' \in [Callers -> Call]
      BY <1>0, <2>1, LaunchDoes
    <2>4. QED
      BY <1>0, <2>1, <2>2, <2>3, TypesFrom
  <1>7. CASE SettleHalf(c)
    <2>1. UNCHANGED <<setting, forwarded, file, procs, engine, changes, faults>>
      BY <1>7 DEF SettleHalf, settingsVars
    <2>2. CASE StopWeb(c, "idle") /\ UNCHANGED <<hash, phase>>
      BY <1>0, <1>a, <2>1, <2>2, StopWebDoes
    <2>3. CASE call' = [call EXCEPT ![c] = Goto(c, "spawn relay")] /\ UNCHANGED <<hash, phase>>
      BY <1>0, <1>a, <2>1, <2>3, GotoDoes DEF Pcs
    <2>4. CASE hash' = [hash EXCEPT !["webrelay"] = call[c].cand] /\ Return(c)
      <3>1. hash' \in [Services -> Config \cup {None}]
        BY <1>0, <2>4 DEF Call
      <3>2. QED
        BY <1>0, <1>a, <2>1, <2>4, <3>1, ReturnDoes
    <2>5. QED
      BY <1>7, <2>2, <2>3, <2>4 DEF SettleHalf
  <1>8. CASE SpawnFails(c)
    <2>1. /\ faults < MaxFaults /\ faults' = faults + 1
          /\ UNCHANGED <<setting, forwarded, file, procs, hash, engine, phase, changes>>
      BY <1>8 DEF SpawnFails, settingsVars, moduleVars
    <2>2. faults' \in 0..MaxFaults
      BY <1>0, <2>1
    <2>3. call' \in [Callers -> Call]
      BY <1>0, <1>8, StopWebDoes, GotoDoes DEF SpawnFails, Pcs, Running
    <2>4. QED
      BY <1>0, <1>a, <2>1, <2>2, <2>3
  <1>9. QED
    BY <1>1, <1>2, <1>3, <1>4, <1>5, <1>6, <1>7, <1>8

\* A pass that begins.
LEMMA EnterDoes ==
    ASSUME TypeOK, NEW c \in Callers, Enter(c)
    PROVE  /\ call' \in [Callers -> Call]
           /\ call'[c].pc = "mtproto" /\ call'[c].left = <<>> /\ call'[c].waits = None
           /\ \A d \in Callers \ {c} : call'[d] = call[d]
  <1>1. PICK j : j = [IdleCall EXCEPT !.pc = "mtproto", !.force = (c # Loop)]
    OBVIOUS
  <1>2. \A i \in Call, f \in BOOLEAN :
           /\ [i EXCEPT !.pc = "mtproto", !.force = f] \in Call
           /\ [i EXCEPT !.pc = "mtproto", !.force = f].pc = "mtproto"
           /\ [i EXCEPT !.pc = "mtproto", !.force = f].left = i.left
           /\ [i EXCEPT !.pc = "mtproto", !.force = f].waits = i.waits
    BY DEF Call, Pcs, Running
  <1>3. (c # Loop) \in BOOLEAN /\ IdleCall.left = <<>> /\ IdleCall.waits = None
    BY DEF IdleCall
  <1>4. j \in Call /\ j.pc = "mtproto" /\ j.left = <<>> /\ j.waits = None
    <2>1. PICK f \in BOOLEAN : f = (c # Loop)
      BY <1>3
    <2>2. j = [IdleCall EXCEPT !.pc = "mtproto", !.force = f]
      BY <1>1, <2>1
    <2>3. QED
      BY <1>2, <1>3, <2>2, IdleType
  <1>5. call' = [call EXCEPT ![c] = j] /\ call \in [Callers -> Call]
    BY <1>1 DEF Enter, TypeOK
  <1>6. QED
    BY <1>4, <1>5

\* What the card changes.
LEMMA ChangeTyped ==
    ASSUME Types, Change, setting' \in [Services -> Setting], call' \in [Callers -> Call]
    PROVE  Types'
  <1>1. changes \in Nat /\ changes < MaxChanges /\ changes' = changes + 1 /\ MaxChanges \in Nat
    BY BoundsAreNat DEF Types, TypeOK, Change
  <1>2. changes' \in 0..MaxChanges
    BY <1>1
  <1>3. /\ forwarded' = forwarded /\ file' = file /\ procs' = procs /\ hash' = hash /\ engine' = engine
        /\ phase' = phase /\ faults' = faults
    BY DEF Change, moduleVars
  <1>4. QED
    BY <1>2, <1>3 DEF Types, TypeOK, Belongs

\* The card's requests.
LEMMA RequestsTyped ==
    ASSUME Types, NEW h \in Handlers,
           Reload(h) \/ \E s \in Services : Rotate(h, s) \/ Save(h, s)
    PROVE  Types'
  <1>0. /\ TypeOK /\ h \in Callers /\ setting \in [Services -> Setting] /\ call \in [Callers -> Call]
        /\ changes \in Nat /\ MaxChanges \in Nat
    BY BoundsAreNat DEF Types, TypeOK, Callers
  <1>1. CASE Reload(h)
    BY <1>0, <1>1, EnterDoes, ChangeTyped DEF Reload
  <1>2. ASSUME NEW s \in Services, Rotate(h, s) PROVE Types'
    <2>1. Change /\ Enter(h) /\ setting' = [setting EXCEPT ![s].secret = changes']
      BY <1>2 DEF Rotate
    <2>2. changes' \in 0..MaxChanges
      BY <1>0, <2>1 DEF Change
    <2>3. \A old \in Setting, n \in 0..MaxChanges : [old EXCEPT !.secret = n] \in Setting
      BY DEF Setting
    <2>4. PICK new : new = [setting[s] EXCEPT !.secret = changes']
      OBVIOUS
    <2>5. new \in Setting /\ setting' = [setting EXCEPT ![s] = new]
      BY <1>0, <2>1, <2>2, <2>3, <2>4
    <2>6. QED
      BY <1>0, <2>1, <2>5, EnterDoes, ChangeTyped
  <1>3. ASSUME NEW s \in Services, Save(h, s) PROVE Types'
    <2>1. PICK edit \in Edits(s) : setting' = [setting EXCEPT ![s] = edit]
      BY <1>3 DEF Save
    <2>2. Change /\ (Enter(h) \/ UNCHANGED call)
      BY <1>3 DEF Save
    <2>3. edit \in Setting
      <3>1. PICK switch \in BOOLEAN, ok \in BOOLEAN, secret \in {setting[s].secret, changes + 1} :
               edit = [on |-> switch, ok |-> ok, secret |-> secret]
        BY DEF Edits
      <3>2. changes + 1 \in 0..MaxChanges
        BY <1>0, <2>2 DEF Change
      <3>3. setting[s].secret \in 0..MaxChanges
        BY <1>0 DEF Setting
      <3>4. QED
        BY <3>1, <3>2, <3>3 DEF Setting
    <2>4. setting' \in [Services -> Setting]
      BY <1>0, <2>1, <2>3
    <2>5. QED
      BY <1>0, <2>2, <2>4, EnterDoes, ChangeTyped
  <1>4. QED
    BY <1>1, <1>2, <1>3

\* What a process does by itself: nothing comes to life, and what stays is what it was.
LEMMA EngineDoes ==
    ASSUME Types, NEW p \in Procs, EngineBoot(p) \/ EngineExit(p) \/ EngineCrash(p)
    PROVE  /\ engine' \in [Procs -> Process] /\ faults' \in 0..MaxFaults
           /\ UNCHANGED <<setting, forwarded, file, procs, hash, call, phase, changes>>
           /\ \A q \in Procs \ {p} : engine'[q] = engine[q]
           /\ engine[p].st # "dead"
           /\ \/ engine'[p] = Dead
              \/ /\ engine[p].st = "starting" /\ engine'[p].st = "up" /\ engine'[p].of = engine[p].of
                 /\ file[Owner[engine[p].of]].ok /\ ~Contended(p)
  <1>0. /\ engine \in [Procs -> Process] /\ engine[p] \in Process /\ file \in [Services -> Config \cup {None}]
        /\ faults \in Nat /\ MaxFaults \in Nat /\ faults <= MaxFaults
        /\ engine[p].st # "dead" => engine[p].of \in Parts
    BY BoundsAreNat DEF Types, TypeOK, Belongs
  <1>1. CASE EngineBoot(p)
    <2>1. engine[p].of \in Parts /\ Owner[engine[p].of] \in Services /\ engine[p].st = "starting"
      BY <1>0, <1>1 DEF EngineBoot, Owner, Services
    <2>2. PICK config : config = file[Owner[engine[p].of]]
      OBVIOUS
    <2>3. config \in Config \cup {None}
      BY <1>0, <2>1, <2>2
    <2>4. PICK up : up = [engine[p] EXCEPT !.st = "up", !.cfg = config]
      OBVIOUS
    <2>5. up \in Process /\ up.st = "up" /\ up.of = engine[p].of
      BY <1>0, <2>3, <2>4 DEF Process
    <2>6. /\ engine' = [engine EXCEPT ![p] = IF config.ok /\ ~Contended(p) THEN up ELSE Dead]
          /\ UNCHANGED <<setting, forwarded, file, procs, hash, call, phase, changes, faults>>
      BY <1>1, <2>2, <2>4 DEF EngineBoot, settingsVars, moduleVars
    <2>7. CASE config.ok /\ ~Contended(p)
      <3>1. engine' = [engine EXCEPT ![p] = up]
        BY <2>6, <2>7
      <3>2. QED
        BY <1>0, <2>1, <2>2, <2>5, <2>6, <2>7, <3>1
    <2>8. CASE ~(config.ok /\ ~Contended(p))
      <3>1. engine' = [engine EXCEPT ![p] = Dead]
        BY <2>6, <2>8
      <3>2. QED
        BY <1>0, <2>1, <2>6, <3>1, StartedType
    <2>9. QED
      BY <2>7, <2>8
  <1>2. CASE EngineExit(p) \/ EngineCrash(p)
    <2>1. /\ engine' = [engine EXCEPT ![p] = Dead] /\ faults' \in {faults, faults + 1}
          /\ faults' = faults + 1 => faults < MaxFaults
          /\ UNCHANGED <<setting, forwarded, file, procs, hash, call, phase, changes>>
          /\ engine[p].st # "dead"
      BY <1>0, <1>2 DEF EngineExit, EngineCrash, settingsVars, moduleVars
    <2>2. faults' \in 0..MaxFaults
      BY <1>0, <2>1
    <2>3. QED
      BY <1>0, <2>1, <2>2, StartedType
  <1>3. QED
    BY <1>1, <1>2

\* stop_all(): what a module holds is terminated.
LEMMA StopAllDoes ==
    ASSUME Types, StopAll
    PROVE  /\ engine' \in [Procs -> Process] /\ procs' \in [Parts -> Procs \cup {None}]
           /\ \A p \in Procs : /\ engine'[p].of = engine[p].of /\ engine'[p].cfg = engine[p].cfg
                               /\ engine'[p].st = engine[p].st \/ (engine[p].st # "dead" /\ engine'[p].st = "term")
  <1>0. engine \in [Procs -> Process]
    BY DEF Types, TypeOK
  <1>1. procs' \in [Parts -> Procs \cup {None}]
    BY DEF StopAll
  <1>2. \A d \in Process : /\ [d EXCEPT !.st = "term"] \in Process /\ [d EXCEPT !.st = "term"].of = d.of
                           /\ [d EXCEPT !.st = "term"].cfg = d.cfg /\ [d EXCEPT !.st = "term"].st = "term"
    BY DEF Process
  <1>3. engine' = [p \in Procs |-> IF Alive(p) /\ \E part \in Parts : procs[part] = p
                                   THEN [engine[p] EXCEPT !.st = "term"] ELSE engine[p]]
    BY DEF StopAll
  <1>4. ASSUME NEW p \in Procs
        PROVE  /\ engine'[p] \in Process
               /\ engine'[p].of = engine[p].of /\ engine'[p].cfg = engine[p].cfg
               /\ engine'[p].st = engine[p].st \/ (engine[p].st # "dead" /\ engine'[p].st = "term")
    <2>1. CASE Alive(p) /\ \E part \in Parts : procs[part] = p
      <3>1. engine'[p] = [engine[p] EXCEPT !.st = "term"] /\ engine[p].st # "dead" /\ engine[p] \in Process
        BY <1>0, <1>3, <2>1 DEF Alive
      <3>2. QED
        BY <1>2, <3>1
    <2>2. CASE ~(Alive(p) /\ \E part \in Parts : procs[part] = p)
      <3>1. engine'[p] = engine[p] /\ engine[p] \in Process
        BY <1>0, <1>3, <2>2
      <3>2. QED
        BY <3>1
    <2>3. QED
      BY <2>1, <2>2
  <1>5. engine' \in [Procs -> Process]
    BY <1>3, <1>4
  <1>6. QED
    BY <1>1, <1>4, <1>5

LEMMA TypesNext == Types /\ [Next]_vars => Types'
  <1> SUFFICES ASSUME Types, [Next]_vars PROVE Types'
    OBVIOUS
  <1>0. /\ TypeOK /\ Loop \in Callers /\ call \in [Callers -> Call] /\ setting \in [Services -> Setting]
        /\ engine \in [Procs -> Process] /\ procs \in [Parts -> Procs \cup {None}]
        /\ file \in [Services -> Config \cup {None}] /\ hash \in [Services -> Config \cup {None}]
        /\ phase \in {"boot", "running", "closing", "stopped"} /\ faults \in 0..MaxFaults
        /\ \A p \in Procs : engine[p].st # "dead" => engine[p].of \in Parts
    BY DEF Types, TypeOK, Belongs, Callers
  <1>1. CASE Begin
    <2>1. /\ call' \in [Callers -> Call]
          /\ UNCHANGED <<setting, forwarded, file, procs, hash, engine, phase, changes, faults>>
      BY <1>0, <1>1, EnterDoes DEF Begin, settingsVars, moduleVars
    <2>2. QED
      BY <1>0, <2>1, TypesFrom
  <1>2. ASSUME NEW c \in Callers, Step(c) \/ SpawnFails(c) PROVE Types'
    BY <1>2, MtprotoTyped, WebTyped DEF Step
  <1>3. ASSUME NEW h \in Handlers, Reload(h) \/ \E s \in Services : Rotate(h, s) \/ Save(h, s) PROVE Types'
    BY <1>3, RequestsTyped
  <1>4. ASSUME NEW p \in Procs, EngineBoot(p) \/ EngineExit(p) \/ EngineCrash(p) PROVE Types'
    <2>1. \A q \in Procs : engine'[q].st # "dead" => engine'[q].of \in Parts
      BY <1>0, <1>4, EngineDoes, StartedType
    <2>2. /\ engine' \in [Procs -> Process] /\ faults' \in 0..MaxFaults
          /\ UNCHANGED <<setting, forwarded, file, procs, hash, call, phase, changes>>
      BY <1>4, EngineDoes
    <2>3. QED
      BY <1>0, <2>1, <2>2, TypesFrom
  <1>5. CASE LearnPort
    BY <1>5 DEF LearnPort, moduleVars, Types, TypeOK, Belongs
  <1>6. CASE Shutdown
    <2>1. /\ call' = [call EXCEPT ![Loop] = IdleCall] /\ phase' = "closing"
          /\ UNCHANGED <<setting, forwarded, file, procs, hash, engine, changes, faults>>
      BY <1>6 DEF Shutdown, settingsVars, moduleVars
    <2>2. call' \in [Callers -> Call]
      BY <1>0, <2>1, IdleType
    <2>3. QED
      BY <1>0, <2>1, <2>2, TypesFrom
  <1>7. CASE StopAll
    <2>1. /\ phase' = "stopped" /\ UNCHANGED <<setting, forwarded, file, hash, call, changes, faults>>
      BY <1>7 DEF StopAll, settingsVars
    <2>2. \A q \in Procs : engine'[q].st # "dead" => engine'[q].of \in Parts
      BY <1>0, <1>7, StopAllDoes
    <2>3. engine' \in [Procs -> Process] /\ procs' \in [Parts -> Procs \cup {None}]
      BY <1>7, StopAllDoes
    <2>4. QED
      BY <1>0, <2>1, <2>2, <2>3, TypesFrom
  <1>8. CASE UNCHANGED vars
    BY <1>8 DEF vars, settingsVars, moduleVars, Types, TypeOK, Belongs
  <1>9. QED
    BY <1>1, <1>2, <1>3, <1>4, <1>5, <1>6, <1>7, <1>8 DEF Next, Terminated

LEMMA TypesInit == Init => Types
  <1> SUFFICES ASSUME Init PROVE Types
    OBVIOUS
  <1>1. /\ setting \in [Services -> Setting] /\ forwarded \in BOOLEAN
        /\ file \in [Services -> Config \cup {None}] /\ hash \in [Services -> Config \cup {None}]
        /\ procs \in [Parts -> Procs \cup {None}]
    BY DEF Init
  <1>2. engine \in [Procs -> Process] /\ \A p \in Procs : engine[p].st = "dead"
    BY StartedType DEF Init
  <1>3. call \in [Callers -> Call]
    BY IdleType DEF Init
  <1>4. phase = "boot" /\ changes \in 0..MaxChanges /\ faults \in 0..MaxFaults
    BY BoundsAreNat DEF Init
  <1>5. QED
    BY <1>1, <1>2, <1>3, <1>4 DEF Types, TypeOK, Belongs

\* Every variable keeps its type, and every process that lives is of some part of a
\* service, however the calls overlap.
THEOREM TypeCorrect == Spec => []TypeOK
  <1>1. Types => TypeOK
    BY DEF Types
  <1>2. QED
    BY <1>1, TypesInit, TypesNext, PTL DEF Spec

(***************************************************************************)
(* No launch is in vain, while calls do not overlap.  The strengthening:   *)
(* one pass at a time (OneAtATime); one process of a part at a time        *)
(* (Alone), which the module holds or the pass waits for (Held); the file  *)
(* a process boots from is the one that was checked, and the pass that     *)
(* launched it waits for it (Bootable); and what a pass knows at each of   *)
(* its awaits (Place).                                                     *)
(***************************************************************************)
Live(p) == engine[p].st # "dead"
Open == phase \in {"boot", "running"}

OneAtATime ==
    /\ \A c, d \in Callers : call[c].pc # "idle" /\ call[d].pc # "idle" => c = d
    /\ ~Open => \A c \in Callers : call[c].pc = "idle"

Alone == \A p, q \in Procs : Live(p) /\ Live(q) /\ engine[p].of = engine[q].of => p = q

\* What has loaded no config yet, or no longer has one.
Fresh == \A p \in Procs : engine[p].st \in {"dead", "starting"} => engine[p].cfg = None

\* The binary took the file.
Accepted(s) == file[s].ok

Bootable ==
    \A p \in Procs : engine[p].st = "starting" =>
        /\ Accepted(Owner[engine[p].of])
        /\ Open => \E c \in Callers : call[c].pc = Settling(engine[p].of) /\ call[c].waits = p

Held ==
    Open => \A p \in Procs : Live(p) =>
        \/ procs[engine[p].of] = p
        \/ \E c \in Callers : call[c].pc = "stop half" /\ call[c].waits = p

\* What is left of the snapshot is what the module still holds.
Snapshot(c) ==
    \/ call[c].left = << <<"relay", procs["relay"]>> >> /\ procs["core"] = None
    \/ call[c].left = <<>> /\ procs["core"] = None /\ procs["relay"] = None

StoppingMtg(c) ==
    call[c].pc = "stop mtg" =>
        /\ call[c].waits = procs["mtg"]
        /\ call[c].then \in {"webrelay", "spawn mtg"}
        /\ call[c].then = "spawn mtg" => Accepted("mtproto")

StoppingWeb(c) ==
    call[c].pc \in {"halves", "stop half"} =>
        /\ call[c].then \in {"idle", "spawn core"}
        /\ call[c].then = "spawn core" => Accepted("webrelay")
        /\ Snapshot(c) \/ (call[c].pc = "halves" /\ call[c].left = Halves)

Spawning(c) ==
    /\ call[c].pc = "spawn mtg" => Accepted("mtproto") /\ procs["mtg"] = None
    /\ call[c].pc = "spawn core" => procs["core"] = None
    /\ call[c].pc \in {"spawn core", "settle core", "spawn relay"} =>
          Accepted("webrelay") /\ procs["relay"] = None

Place(c) == StoppingMtg(c) /\ StoppingWeb(c) /\ Spawning(c)

Sound == OneAtATime /\ Alone /\ Fresh /\ Bootable /\ Held /\ \A c \in Callers : Place(c)

SoundInv == Types /\ Sound

\* A pass that is under way is the only one, before the shutdown.
LEMMA OnlyPass ==
    ASSUME Sound, NEW c \in Callers, call[c].pc # "idle"
    PROVE  Open /\ \A d \in Callers \ {c} : call[d].pc = "idle"
  BY DEF Sound, OneAtATime

\* Where it waits for no process to settle, none is starting.
LEMMA NothingStarts ==
    ASSUME SoundInv, NEW c \in Callers, call[c].pc # "idle",
           \/ call[c].pc \notin {"settle mtg", "settle core", "settle relay"}
           \/ engine[call[c].waits].st # "starting"
    PROVE  \A p \in Procs : engine[p].st # "starting"
  <1> SUFFICES ASSUME NEW p \in Procs, engine[p].st = "starting" PROVE FALSE
    OBVIOUS
  <1>1. Open /\ \A d \in Callers \ {c} : call[d].pc = "idle"
    BY OnlyPass DEF SoundInv
  <1>2. PICK d \in Callers : call[d].pc = Settling(engine[p].of) /\ call[d].waits = p
    BY <1>1 DEF SoundInv, Sound, Bootable
  <1>3. Settling(engine[p].of) \in {"settle mtg", "settle core", "settle relay"}
    BY DEF Settling
  <1>4. QED
    BY <1>1, <1>2, <1>3

\* Where it waits for no half to stop, what lives is what the module holds.
LEMMA AllHeld ==
    ASSUME SoundInv, NEW c \in Callers, call[c].pc # "idle",
           call[c].pc # "stop half" \/ ~Alive(call[c].waits)
    PROVE  \A p \in Procs : Live(p) => procs[engine[p].of] = p
  <1> SUFFICES ASSUME NEW p \in Procs, Live(p), procs[engine[p].of] # p PROVE FALSE
    OBVIOUS
  <1>1. Open /\ \A d \in Callers \ {c} : call[d].pc = "idle"
    BY OnlyPass DEF SoundInv
  <1>2. call[c].pc = "stop half" /\ call[c].waits = p
    BY <1>1 DEF SoundInv, Sound, Held
  <1>3. p # None /\ engine[p].st \in {"dead", "starting", "up", "term"}
    BY NoneIsNoProc DEF SoundInv, Types, TypeOK, Process
  <1>4. QED
    BY <1>2, <1>3 DEF Live, Alive

\* The end of a step of a pass: what is left to show is about its own place.
LEMMA SoundFrom ==
    ASSUME SoundInv, Types', NEW c \in Callers, call[c].pc # "idle",
           \A d \in Callers \ {c} : call'[d] = call[d],
           phase' = phase \/ (phase = "boot" /\ phase' = "running"),
           Alone', Fresh',
           \A p \in Procs : engine'[p].st = "starting" =>
              Accepted(Owner[engine[p].of])' /\ call'[c].pc = Settling(engine'[p].of) /\ call'[c].waits = p,
           \A p \in Procs : Live(p)' =>
              procs'[engine'[p].of] = p \/ (call'[c].pc = "stop half" /\ call'[c].waits = p),
           Place(c)'
    PROVE  SoundInv'
  <1>1. Open /\ \A d \in Callers \ {c} : call[d].pc = "idle"
    BY OnlyPass DEF SoundInv
  <1>2. Open'
    BY <1>1 DEF Open
  <1>3. OneAtATime'
    <2>1. \A d \in Callers : call'[d].pc # "idle" => d = c
      BY <1>1
    <2>2. QED
      BY <1>2, <2>1 DEF OneAtATime
  <1>4. \A d \in Callers : Place(d)'
    <2> SUFFICES ASSUME NEW d \in Callers \ {c} PROVE Place(d)'
      OBVIOUS
    <2>1. call'[d].pc = "idle"
      BY <1>1
    <2>2. QED
      BY <2>1 DEF Place, StoppingMtg, StoppingWeb, Spawning
  <1>5. Bootable' /\ Held'
    BY DEF Bootable, Held
  <1>6. QED
    BY <1>3, <1>4, <1>5 DEF SoundInv, Sound

\* A step that leaves the processes and what the module holds alone.
LEMMA Moves ==
    ASSUME SoundInv, Types', NEW c \in Callers, call[c].pc # "idle",
           \A d \in Callers \ {c} : call'[d] = call[d],
           phase' = phase \/ (phase = "boot" /\ phase' = "running"),
           engine' = engine, procs' = procs,
           \/ call[c].pc \notin {"settle mtg", "settle core", "settle relay"}
           \/ engine[call[c].waits].st # "starting",
           call[c].pc # "stop half" \/ ~Alive(call[c].waits),
           Place(c)'
    PROVE  SoundInv'
  <1>1. \A p \in Procs : engine'[p].st # "starting"
    BY NothingStarts
  <1>2. \A p \in Procs : Live(p)' => procs'[engine'[p].of] = p
    BY AllHeld DEF Live
  <1>3. Alone' /\ Fresh'
    BY DEF SoundInv, Sound, Alone, Fresh, Live
  <1>4. QED
    BY <1>1, <1>2, <1>3, SoundFrom

(***************************************************************************)
(* The steps of a pass.                                                    *)
(***************************************************************************)

\* mtproto._stop(), called where nothing starts.
LEMMA SoundStopMtg ==
    ASSUME SoundInv, Types', NEW c \in Callers, NEW then \in {"webrelay", "spawn mtg"},
           call[c].pc \in {"mtproto", "check mtg"}, StopMtg(c, then), file' = file, phase' = phase,
           then = "spawn mtg" => Accepted("mtproto")
    PROVE  SoundInv'
  <1>0. /\ Types /\ call[c].pc # "idle" /\ engine \in [Procs -> Process] /\ procs \in [Parts -> Procs \cup {None}]
        /\ "mtg" \in Parts /\ Alone /\ Fresh
    BY DEF SoundInv, Sound, Types, TypeOK, Parts
  <1>1. \A p \in Procs : engine[p].st # "starting"
    BY <1>0, NothingStarts
  <1>2. \A p \in Procs : Live(p) => procs[engine[p].of] = p
    BY <1>0, AllHeld
  <1>3. \A d \in Callers \ {c} : call'[d] = call[d]
    BY <1>0, StopMtgDoes
  <1>4. CASE Alive(procs["mtg"])
    <2>1. /\ procs' = procs /\ procs["mtg"] \in Procs
          /\ engine'[procs["mtg"]].st = "term"
          /\ \A q \in Procs : /\ engine'[q].of = engine[q].of /\ engine'[q].cfg = engine[q].cfg
                              /\ q # procs["mtg"] => engine'[q] = engine[q]
          /\ call'[c].pc = "stop mtg" /\ call'[c].waits = procs["mtg"] /\ call'[c].then = then
      BY <1>0, <1>4, StopMtgDoes
    <2>2. \A q \in Procs : /\ Live(q)' <=> Live(q)
                           /\ engine'[q].st # "starting"
                           /\ engine'[q].st = "dead" => engine[q].st = "dead"
      BY <1>1, <1>4, <2>1 DEF Live, Alive
    <2>3. Alone' /\ Fresh'
      BY <1>0, <2>1, <2>2 DEF Alone, Fresh
    <2>4. Place(c)'
      BY <2>1 DEF Place, StoppingMtg, StoppingWeb, Spawning, Accepted
    <2>5. QED
      BY <1>0, <1>2, <1>3, <2>1, <2>2, <2>3, <2>4, SoundFrom
  <1>5. CASE ~Alive(procs["mtg"])
    <2>1. /\ engine' = engine /\ procs' = [procs EXCEPT !["mtg"] = None]
          /\ call'[c].pc = then
      BY <1>0, <1>5, StopMtgDoes
    <2>2. Alone' /\ Fresh'
      BY <1>0, <2>1 DEF Alone, Fresh, Live
    <2>3. \A p \in Procs : Live(p)' => procs'[engine'[p].of] = p
      <3> SUFFICES ASSUME NEW p \in Procs, Live(p) PROVE procs'[engine[p].of] = p
        BY <2>1 DEF Live
      <3>1. procs[engine[p].of] = p /\ engine[p].of \in Parts /\ Alive(p)
        BY <1>0, <1>2, NoneIsNoProc DEF Live, Alive, Types, TypeOK, Belongs, Process
      <3>2. engine[p].of # "mtg"
        BY <1>5, <3>1
      <3>3. QED
        BY <1>0, <2>1, <3>1, <3>2
    <2>4. Place(c)'
      BY <1>0, <2>1 DEF Place, StoppingMtg, StoppingWeb, Spawning, Accepted
    <2>5. QED
      BY <1>0, <1>1, <1>3, <2>1, <2>2, <2>3, <2>4, SoundFrom
  <1>6. QED
    BY <1>4, <1>5

\* A process that is launched where its part has none.
LEMMA SoundLaunch ==
    ASSUME SoundInv, Types', NEW c \in Callers, NEW part \in Parts,
           call[c].pc \in {"spawn mtg", "spawn core", "spawn relay"}, Launch(c, part),
           procs[part] = None, Accepted(Owner[part]),
           part = "core" => procs["relay"] = None /\ Accepted("webrelay"),
           file' = file, phase' = phase
    PROVE  SoundInv'
  <1>0. /\ Types /\ call[c].pc # "idle" /\ engine \in [Procs -> Process] /\ procs \in [Parts -> Procs \cup {None}]
        /\ Alone /\ Fresh
    BY DEF SoundInv, Sound, Types, TypeOK
  <1>1. \A p \in Procs : engine[p].st # "starting"
    BY <1>0, NothingStarts
  <1>2. \A p \in Procs : Live(p) => procs[engine[p].of] = p
    BY <1>0, AllHeld
  <1>3. \A d \in Callers \ {c} : call'[d] = call[d]
    BY <1>0, LaunchDoes
  <1>4. PICK n \in Procs :
           /\ Free(n) /\ engine'[n] = Started(part) /\ procs' = [procs EXCEPT ![part] = n]
           /\ \A q \in Procs \ {n} : engine'[q] = engine[q]
           /\ call'[c].pc = Settling(part) /\ call'[c].waits = n /\ call'[c].left = <<>>
    BY <1>0, LaunchDoes
  <1>5. engine'[n].st = "starting" /\ engine'[n].of = part /\ engine'[n].cfg = None
    BY <1>4, StartedType
  <1>6. \A q \in Procs \ {n} : Live(q) => engine[q].of # part
    BY <1>2, NoneIsNoProc
  <1>7. Alone'
    <2>1. \A q \in Procs \ {n} : Live(q)' => Live(q) /\ engine'[q].of = engine[q].of /\ engine'[q].of # part
      BY <1>4, <1>6 DEF Live
    <2>2. QED
      BY <1>0, <1>5, <2>1 DEF Alone
  <1>8. Fresh'
    BY <1>0, <1>4, <1>5 DEF Fresh
  <1>9. \A q \in Procs : Live(q)' => procs'[engine'[q].of] = q
    <2>1. ASSUME NEW q \in Procs \ {n}, Live(q)' PROVE procs'[engine'[q].of] = q
      <3>1. Live(q) /\ engine'[q] = engine[q] /\ engine[q].of # part /\ engine[q].of \in Parts
        BY <1>0, <1>4, <1>6, <2>1 DEF Live, Types, Belongs
      <3>2. QED
        BY <1>0, <1>2, <1>4, <3>1
    <2>2. QED
      BY <1>0, <1>4, <1>5, <2>1
  <1>10. \A q \in Procs : engine'[q].st = "starting" =>
            Accepted(Owner[engine[q].of])' /\ call'[c].pc = Settling(engine'[q].of) /\ call'[c].waits = q
    <2> SUFFICES ASSUME NEW q \in Procs, engine'[q].st = "starting"
                 PROVE  Accepted(Owner[engine[q].of])' /\ call'[c].pc = Settling(engine'[q].of) /\ call'[c].waits = q
      OBVIOUS
    <2>1. q = n
      BY <1>1, <1>4
    <2>2. QED
      BY <1>4, <1>5, <2>1 DEF Accepted
  <1>11. Place(c)'
    <2>1. /\ call'[c].pc \in {"settle mtg", "settle core", "settle relay"}
          /\ call'[c].pc = "settle core" => part = "core"
      BY <1>4 DEF Settling, Parts
    <2>2. part = "core" => procs'["relay"] = None /\ Accepted("webrelay")'
      BY <1>0, <1>4 DEF Accepted, Parts
    <2>3. QED
      BY <2>1, <2>2 DEF Place, StoppingMtg, StoppingWeb, Spawning
  <1>12. QED
    BY <1>0, <1>3, <1>7, <1>8, <1>9, <1>10, <1>11, SoundFrom

\* webrelay._stop(), called where nothing starts and no half is awaited.
LEMMA SoundStopWeb ==
    ASSUME SoundInv, Types', NEW c \in Callers, NEW then \in {"idle", "spawn core"},
           call[c].pc \notin {"idle", "stop half"}, StopWeb(c, then),
           \/ call[c].pc \notin {"settle mtg", "settle core", "settle relay"}
           \/ engine[call[c].waits].st # "starting",
           UNCHANGED <<file, engine, procs, phase>>,
           then = "spawn core" => Accepted("webrelay")
    PROVE  SoundInv'
  <1>1. /\ call'[c].pc = "halves" /\ call'[c].left = Halves /\ call'[c].then = then
        /\ \A d \in Callers \ {c} : call'[d] = call[d]
    BY StopWebDoes DEF SoundInv, Types
  <1>2. Place(c)'
    BY <1>1 DEF Place, StoppingMtg, StoppingWeb, Spawning, Accepted, Halves
  <1>3. QED
    BY <1>1, <1>2, Moves

\* A pass that goes on to the second service.
LEMMA Proceeds ==
    ASSUME SoundInv, Types', NEW c \in Callers,
           call[c].pc \notin {"idle", "stop half"}, call' = [call EXCEPT ![c] = Goto(c, "webrelay")],
           \/ call[c].pc \notin {"settle mtg", "settle core", "settle relay"}
           \/ engine[call[c].waits].st # "starting",
           UNCHANGED <<engine, procs, phase>>
    PROVE  SoundInv'
  <1>1. call'[c].pc = "webrelay" /\ \A d \in Callers \ {c} : call'[d] = call[d]
    BY GotoDoes DEF SoundInv, Types, Pcs, Running
  <1>2. Place(c)'
    BY <1>1 DEF Place, StoppingMtg, StoppingWeb, Spawning
  <1>3. QED
    BY <1>1, <1>2, Moves

\* A pass that ends.
LEMMA PassEnds ==
    ASSUME SoundInv, Types', NEW c \in Callers,
           call[c].pc \notin {"idle", "stop half"}, Return(c),
           \/ call[c].pc \notin {"settle mtg", "settle core", "settle relay"}
           \/ engine[call[c].waits].st # "starting",
           UNCHANGED <<engine, procs>>
    PROVE  SoundInv'
  <1>1. /\ call'[c] = IdleCall /\ \A d \in Callers \ {c} : call'[d] = call[d]
        /\ phase' = phase \/ (phase = "boot" /\ phase' = "running")
    BY ReturnDoes DEF SoundInv, Types
  <1>2. Place(c)'
    <2>1. IdleCall.pc = "idle"
      BY DEF IdleCall
    <2>2. QED
      BY <1>1, <2>1 DEF Place, StoppingMtg, StoppingWeb, Spawning
  <1>3. QED
    BY <1>1, <1>2, Moves

\* A service's file is written, and the binary is asked about it.
LEMMA Writes ==
    ASSUME SoundInv, Types', NEW c \in Callers, NEW pc \in {"check mtg", "check web"},
           call[c].pc \in {"mtproto", "webrelay"}, NEW cand \in Config,
           call' = [call EXCEPT ![c] = [Goto(c, pc) EXCEPT !.cand = cand]],
           UNCHANGED <<engine, procs, phase>>
    PROVE  SoundInv'
  <1>1. PICK j : j = [Goto(c, pc) EXCEPT !.cand = cand]
    OBVIOUS
  <1>2. j.pc = pc
    <2>1. Goto(c, pc) \in Call /\ Goto(c, pc).pc = pc
      BY GotoType DEF SoundInv, Types, Pcs
    <2>2. QED
      BY <1>1, <2>1 DEF Call
  <1>3. call'[c] = j /\ \A d \in Callers \ {c} : call'[d] = call[d]
    BY <1>1 DEF SoundInv, Types, TypeOK
  <1>4. Place(c)'
    BY <1>2, <1>3 DEF Place, StoppingMtg, StoppingWeb, Spawning
  <1>5. QED
    BY <1>3, <1>4, Moves

\* The first half of a pass.
LEMMA MtprotoSound ==
    ASSUME SoundInv, Types', NEW c \in Callers,
           SyncMtproto(c) \/ CheckMtg(c) \/ StopMtgDone(c) \/ SpawnMtg(c) \/ SettleMtg(c)
    PROVE  SoundInv'
  <1>0. /\ Types /\ TypeOK /\ call[c] \in Call /\ call \in [Callers -> Call] /\ Place(c)
        /\ procs \in [Parts -> Procs \cup {None}] /\ "mtg" \in Parts
        /\ "mtproto" \in Services /\ Owner["mtg"] = "mtproto"
    BY DEF SoundInv, Sound, Types, TypeOK, Parts, Services, Owner
  <1>1. CASE SyncMtproto(c)
    <2>1. call[c].pc = "mtproto" /\ phase' = phase
      BY <1>1 DEF SyncMtproto
    <2>2. CASE ~Wanted("mtproto")
      BY <1>1, <2>1, <2>2, SoundStopMtg DEF SyncMtproto
    <2>3. CASE Wanted("mtproto") /\ Keeps(c, "mtproto")
      BY <1>1, <2>1, <2>3, Proceeds DEF SyncMtproto
    <2>4. CASE Wanted("mtproto") /\ ~Keeps(c, "mtproto")
      <3>1. ConfigOf("mtproto") \in Config
        BY <1>0, ConfigType
      <3>2. QED
        BY <1>1, <2>1, <2>4, <3>1, Writes DEF SyncMtproto
    <2>5. QED
      BY <2>2, <2>3, <2>4
  <1>2. CASE CheckMtg(c)
    <2>1. CASE file["mtproto"].ok
      BY <1>2, <2>1, SoundStopMtg DEF CheckMtg, Accepted
    <2>2. CASE ~file["mtproto"].ok
      BY <1>2, <2>2, Proceeds DEF CheckMtg
    <2>3. QED
      BY <2>1, <2>2
  <1>3. CASE StopMtgDone(c)
    <2>1. /\ call[c].pc = "stop mtg" /\ ~Alive(call[c].waits)
          /\ procs' = [procs EXCEPT !["mtg"] = None]
          /\ call' = [call EXCEPT ![c] = Goto(c, call[c].then)]
          /\ UNCHANGED <<file, engine, phase>>
      BY <1>3 DEF StopMtgDone
    <2>2. /\ call[c].waits = procs["mtg"] /\ call[c].then \in {"webrelay", "spawn mtg"}
          /\ call[c].then = "spawn mtg" => Accepted("mtproto")
      BY <1>0, <2>1 DEF Place, StoppingMtg
    <2>3. PICK then \in {"webrelay", "spawn mtg"} : then = call[c].then
      BY <2>2
    <2>4. call'[c].pc = then /\ \A d \in Callers \ {c} : call'[d] = call[d]
      BY <1>0, <2>1, <2>3, GotoDoes DEF Pcs, Running
    <2>5. \A p \in Procs : engine[p].st # "starting"
      BY <2>1, NothingStarts
    <2>6. \A p \in Procs : Live(p) => procs[engine[p].of] = p
      BY <2>1, AllHeld
    <2>7. \A p \in Procs : Live(p)' => procs'[engine'[p].of] = p
      <3> SUFFICES ASSUME NEW p \in Procs, Live(p) PROVE procs'[engine[p].of] = p
        BY <2>1 DEF Live
      <3>1. procs[engine[p].of] = p /\ engine[p].of \in Parts /\ Alive(p)
        BY <1>0, <2>6, NoneIsNoProc DEF Live, Alive, Types, TypeOK, Belongs, Process
      <3>2. engine[p].of # "mtg"
        BY <2>1, <2>2, <3>1
      <3>3. QED
        BY <1>0, <2>1, <3>1, <3>2
    <2>8. Alone' /\ Fresh'
      BY <2>1 DEF SoundInv, Sound, Alone, Fresh, Live
    <2>9. Place(c)'
      BY <1>0, <2>1, <2>2, <2>3, <2>4 DEF Place, StoppingMtg, StoppingWeb, Spawning, Accepted
    <2>10. QED
      BY <2>1, <2>4, <2>5, <2>7, <2>8, <2>9, SoundFrom
  <1>4. CASE SpawnMtg(c)
    <2>1. procs["mtg"] = None /\ Accepted("mtproto") /\ call[c].pc = "spawn mtg"
      BY <1>0, <1>4 DEF SpawnMtg, Place, Spawning
    <2>2. QED
      BY <1>0, <1>4, <2>1, SoundLaunch DEF SpawnMtg
  <1>5. CASE SettleMtg(c)
    <2>1. /\ call[c].pc = "settle mtg" /\ engine[call[c].waits].st # "starting" /\ UNCHANGED <<engine, procs>>
      BY <1>5 DEF SettleMtg, moduleVars
    <2>2. CASE procs["mtg"] = None
      BY <1>5, <2>1, <2>2, PassEnds DEF SettleMtg
    <2>3. CASE procs["mtg"] # None
      BY <1>5, <2>1, <2>3, Proceeds DEF SettleMtg
    <2>4. QED
      BY <2>2, <2>3
  <1>6. QED
    BY <1>1, <1>2, <1>3, <1>4, <1>5

\* The next half of the snapshot is what the module holds, if it holds one.
LEMMA NextHalf ==
    ASSUME SoundInv, NEW c \in Callers, call[c].pc = "halves", call[c].left # <<>>
    PROVE  \/ /\ Head(call[c].left) = <<"core", procs["core"]>>
              /\ Tail(call[c].left) = << <<"relay", procs["relay"]>> >>
           \/ /\ Head(call[c].left) = <<"relay", procs["relay"]>>
              /\ Tail(call[c].left) = <<>> /\ procs["core"] = None
  <1>1. Snapshot(c) \/ call[c].left = Halves
    BY DEF SoundInv, Sound, Place, StoppingWeb
  <1>2. \A x, y : Head(<<x, y>>) = x /\ Tail(<<x, y>>) = <<y>> /\ Head(<<y>>) = y /\ Tail(<<y>>) = <<>>
    OBVIOUS
  <1>3. QED
    BY <1>1, <1>2 DEF Snapshot, Halves

\* One half is forgotten, and awaited if it lives.
LEMMA HalfSound ==
    ASSUME SoundInv, Types', NEW c \in Callers, StopHalf(c)
    PROVE  SoundInv'
  <1>0. /\ Types /\ TypeOK /\ call[c] \in Call /\ call \in [Callers -> Call] /\ Place(c) /\ Alone /\ Fresh
        /\ procs \in [Parts -> Procs \cup {None}] /\ "core" \in Parts /\ "relay" \in Parts
        /\ engine \in [Procs -> Process]
    BY DEF SoundInv, Sound, Types, TypeOK, Parts
  <1>1. call[c].pc = "halves" /\ call[c].left # <<>> /\ UNCHANGED <<file, phase>>
    BY DEF StopHalf
  <1>r. PICK rest : rest = Tail(call[c].left)
    OBVIOUS
  <1>2. PICK part \in {"core", "relay"}, p \in Procs \cup {None} :
           /\ Head(call[c].left) = <<part, p>> /\ p = procs[part]
           /\ part = "core" => rest = << <<"relay", procs["relay"]>> >>
           /\ part = "relay" => rest = <<>> /\ procs["core"] = None
    BY <1>0, <1>1, <1>r, NextHalf
  <1>3. /\ procs' = [procs EXCEPT ![part] = None]
        /\ Alive(p) => /\ engine' = Stopped(p)
                       /\ call' = [call EXCEPT ![c].pc = "stop half", ![c].waits = p, ![c].left = rest]
        /\ ~Alive(p) => engine' = engine /\ call' = [call EXCEPT ![c].left = rest]
    <2> DEFINE half == Head(call[c].left)
    <2>1. half[1] = part /\ half[2] = p /\ Tail(call[c].left) = rest
      BY <1>r, <1>2
    <2> HIDE DEF half
    <2>2. /\ procs' = [procs EXCEPT ![half[1]] = None]
          /\ IF Alive(half[2])
             THEN /\ engine' = [engine EXCEPT ![half[2]].st = "term"]
                  /\ call' = [call EXCEPT ![c].pc = "stop half", ![c].waits = half[2],
                                          ![c].left = Tail(call[c].left)]
             ELSE /\ call' = [call EXCEPT ![c].left = Tail(call[c].left)]
                  /\ UNCHANGED engine
      BY DEF StopHalf, half
    <2>3. QED
      BY <2>1, <2>2 DEF Stopped
  <1>4. /\ call'[c].left = rest /\ call'[c].then = call[c].then
        /\ \A d \in Callers \ {c} : call'[d] = call[d]
        /\ Alive(p) => call'[c].pc = "stop half" /\ call'[c].waits = p
        /\ ~Alive(p) => call'[c].pc = "halves"
    <2> DEFINE i == call[c]
    <2>1. \A j \in Call :
             /\ [j EXCEPT !.left = rest].left = rest /\ [j EXCEPT !.left = rest].then = j.then
             /\ [j EXCEPT !.left = rest].pc = j.pc
             /\ \A q : /\ [j EXCEPT !.pc = "stop half", !.waits = q, !.left = rest].left = rest
                      /\ [j EXCEPT !.pc = "stop half", !.waits = q, !.left = rest].then = j.then
                      /\ [j EXCEPT !.pc = "stop half", !.waits = q, !.left = rest].pc = "stop half"
                      /\ [j EXCEPT !.pc = "stop half", !.waits = q, !.left = rest].waits = q
      BY DEF Call
    <2>2. CASE Alive(p)
      <3>1. call' = [call EXCEPT ![c] = [i EXCEPT !.pc = "stop half", !.waits = p, !.left = rest]]
        BY <1>0, <1>3, <2>2
      <3>2. PICK j : j = [i EXCEPT !.pc = "stop half", !.waits = p, !.left = rest]
        OBVIOUS
      <3>3. call' = [call EXCEPT ![c] = j]
        BY <3>1, <3>2
      <3>4. j.left = rest /\ j.then = i.then /\ j.pc = "stop half" /\ j.waits = p
        BY <1>0, <2>1, <3>2
      <3>5. QED
        BY <1>0, <2>2, <3>3, <3>4
    <2>3. CASE ~Alive(p)
      <3>1. PICK j : j = [i EXCEPT !.left = rest]
        OBVIOUS
      <3>2. call' = [call EXCEPT ![c] = j]
        BY <1>0, <1>3, <2>3, <3>1
      <3>3. j.left = rest /\ j.then = i.then /\ j.pc = i.pc
        BY <1>0, <2>1, <3>1
      <3>4. QED
        BY <1>0, <1>1, <2>3, <3>2, <3>3
    <2>4. QED
      BY <2>2, <2>3
  <1>5. \A q \in Procs : engine[q].st # "starting"
    BY <1>1, NothingStarts
  <1>6. \A q \in Procs : Live(q) => procs[engine[q].of] = q
    BY <1>1, AllHeld
  <1>7. Alive(p) => p \in Procs
    BY DEF Alive
  <1>8. /\ \A q \in Procs : /\ engine'[q].of = engine[q].of /\ engine'[q].cfg = engine[q].cfg
                            /\ Live(q)' <=> Live(q)
                            /\ engine'[q].st # "starting"
                            /\ engine'[q].st = "dead" => engine[q].st = "dead"
    <2>1. CASE Alive(p)
      <3>1. engine' = Stopped(p) /\ p \in Procs /\ engine[p].st # "dead"
        BY <1>3, <1>7, <2>1 DEF Alive
      <3>2. QED
        BY <1>0, <1>5, <3>1, TermType DEF Live
    <2>2. CASE ~Alive(p)
      BY <1>3, <1>5, <2>2 DEF Live
    <2>3. QED
      BY <2>1, <2>2
  <1>9. Alone' /\ Fresh'
    BY <1>0, <1>8 DEF Alone, Fresh
  <1>10. \A q \in Procs : Live(q)' => procs'[engine'[q].of] = q \/ (call'[c].pc = "stop half" /\ call'[c].waits = q)
    <2> SUFFICES ASSUME NEW q \in Procs, Live(q)
                 PROVE  procs'[engine[q].of] = q \/ (call'[c].pc = "stop half" /\ call'[c].waits = q)
      BY <1>8
    <2>1. procs[engine[q].of] = q /\ engine[q].of \in Parts /\ Alive(q)
      BY <1>0, <1>6, NoneIsNoProc DEF Live, Alive, Types, TypeOK, Belongs, Process
    <2>2. CASE engine[q].of = part
      BY <1>2, <1>4, <2>1, <2>2
    <2>3. CASE engine[q].of # part
      BY <1>0, <1>3, <2>1, <2>3
    <2>4. QED
      BY <2>2, <2>3
  <1>11. Place(c)'
    <2>1. /\ call[c].then \in {"idle", "spawn core"}
          /\ call[c].then = "spawn core" => Accepted("webrelay")
      BY <1>0, <1>1 DEF Place, StoppingWeb
    <2>2. Snapshot(c)'
      <3>1. CASE part = "core"
        BY <1>0, <1>2, <1>3, <1>4, <3>1 DEF Snapshot
      <3>2. CASE part = "relay"
        BY <1>0, <1>2, <1>3, <1>4, <3>2 DEF Snapshot
      <3>3. QED
        BY <3>1, <3>2
    <2>3. call'[c].pc \in {"halves", "stop half"}
      BY <1>4
    <2>4. QED
      BY <1>1, <1>4, <2>1, <2>2, <2>3 DEF Place, StoppingMtg, StoppingWeb, Spawning, Accepted
  <1>12. QED
    BY <1>1, <1>4, <1>8, <1>9, <1>10, <1>11, SoundFrom

\* The second half of a pass.
LEMMA WebSound ==
    ASSUME SoundInv, Types', NEW c \in Callers,
           \/ SyncWebrelay(c) \/ CheckWeb(c) \/ StopHalf(c) \/ HalfGone(c) \/ StoppedHalves(c)
           \/ SpawnHalf(c, "core") \/ SpawnHalf(c, "relay") \/ SettleHalf(c) \/ SpawnFails(c)
    PROVE  SoundInv'
  <1>0. /\ Types /\ TypeOK /\ call[c] \in Call /\ call \in [Callers -> Call] /\ Place(c)
        /\ procs \in [Parts -> Procs \cup {None}] /\ "core" \in Parts /\ "relay" \in Parts
        /\ Owner["core"] = "webrelay" /\ Owner["relay"] = "webrelay"
    BY DEF SoundInv, Sound, Types, TypeOK, Parts, Owner
  <1>1. CASE SyncWebrelay(c)
    <2>1. call[c].pc = "webrelay" /\ UNCHANGED <<procs, engine>>
      BY <1>1 DEF SyncWebrelay
    <2>2. CASE ~Wanted("webrelay")
      BY <1>1, <2>1, <2>2, SoundStopWeb DEF SyncWebrelay
    <2>3. CASE Wanted("webrelay") /\ Keeps(c, "webrelay")
      BY <1>1, <2>1, <2>3, PassEnds DEF SyncWebrelay
    <2>4. CASE Wanted("webrelay") /\ ~Keeps(c, "webrelay")
      <3>1. ConfigOf("webrelay") \in Config
        BY <1>0, ConfigType DEF Services
      <3>2. QED
        BY <1>1, <2>1, <2>4, <3>1, Writes DEF SyncWebrelay
    <2>5. QED
      BY <2>2, <2>3, <2>4
  <1>2. CASE CheckWeb(c)
    <2>1. call[c].pc = "check web" /\ UNCHANGED <<file, procs, engine>>
      BY <1>2 DEF CheckWeb, moduleVars
    <2>2. CASE file["webrelay"].ok
      BY <1>2, <2>1, <2>2, SoundStopWeb DEF CheckWeb, Accepted
    <2>3. CASE ~file["webrelay"].ok
      BY <1>2, <2>1, <2>3, PassEnds DEF CheckWeb
    <2>4. QED
      BY <2>2, <2>3
  <1>3. CASE StopHalf(c)
    BY <1>3, HalfSound
  <1>4. CASE HalfGone(c)
    <2>1. /\ call[c].pc = "stop half" /\ ~Alive(call[c].waits)
          /\ UNCHANGED <<file, procs, engine, phase>>
      BY <1>4 DEF HalfGone, moduleVars
    <2>2. PICK j : j = [call[c] EXCEPT !.pc = "halves", !.waits = None]
      OBVIOUS
    <2>3. j.pc = "halves" /\ j.left = call[c].left /\ j.then = call[c].then
      BY <1>0, <2>2 DEF Call
    <2>4. call' = [call EXCEPT ![c] = j]
      BY <1>0, <1>4, <2>2 DEF HalfGone
    <2>5. call'[c] = j /\ \A d \in Callers \ {c} : call'[d] = call[d]
      BY <1>0, <2>4
    <2>6. /\ Snapshot(c) /\ call[c].then \in {"idle", "spawn core"}
          /\ call[c].then = "spawn core" => Accepted("webrelay")
      BY <1>0, <2>1 DEF Place, StoppingWeb
    <2>7. Snapshot(c)'
      BY <2>1, <2>3, <2>5, <2>6 DEF Snapshot
    <2>8. Place(c)'
      BY <2>1, <2>3, <2>5, <2>6, <2>7 DEF Place, StoppingMtg, StoppingWeb, Spawning, Accepted
    <2>9. QED
      BY <2>1, <2>5, <2>8, Moves
  <1>5. CASE StoppedHalves(c)
    <2>1. call[c].pc = "halves" /\ call[c].left = <<>> /\ UNCHANGED <<file, procs, engine>>
      BY <1>5 DEF StoppedHalves, moduleVars
    <2>2. CASE call[c].then = "idle"
      BY <1>5, <2>1, <2>2, PassEnds DEF StoppedHalves
    <2>3. CASE call[c].then # "idle"
      <3>1. call[c].then = "spawn core" /\ Accepted("webrelay")
        BY <1>0, <2>1, <2>3 DEF Place, StoppingWeb
      <3>2. procs["core"] = None /\ procs["relay"] = None
        <4>1. Snapshot(c) \/ call[c].left = Halves
          BY <1>0, <2>1 DEF Place, StoppingWeb
        <4>2. \A x, y : <<x, y>> # <<>> /\ <<x>> # <<>>
          OBVIOUS
        <4>3. QED
          BY <2>1, <4>1, <4>2 DEF Snapshot, Halves
      <3>3. call' = [call EXCEPT ![c] = Goto(c, "spawn core")] /\ phase' = phase
        BY <1>5, <2>3, <3>1 DEF StoppedHalves
      <3>4. call'[c].pc = "spawn core" /\ \A d \in Callers \ {c} : call'[d] = call[d]
        BY <1>0, <3>3, GotoDoes DEF Pcs
      <3>5. Place(c)'
        BY <2>1, <3>1, <3>2, <3>4 DEF Place, StoppingMtg, StoppingWeb, Spawning, Accepted
      <3>6. QED
        BY <2>1, <3>3, <3>4, <3>5, Moves
    <2>4. QED
      BY <2>2, <2>3
  <1>6. CASE SpawnHalf(c, "core")
    <2>1. procs["core"] = None /\ procs["relay"] = None /\ Accepted("webrelay") /\ call[c].pc = "spawn core"
      BY <1>0, <1>6 DEF SpawnHalf, Place, Spawning
    <2>2. QED
      BY <1>0, <1>6, <2>1, SoundLaunch DEF SpawnHalf
  <1>7. CASE SpawnHalf(c, "relay")
    <2>1. procs["relay"] = None /\ Accepted("webrelay") /\ call[c].pc = "spawn relay"
      BY <1>0, <1>7 DEF SpawnHalf, Place, Spawning
    <2>2. QED
      BY <1>0, <1>7, <2>1, SoundLaunch DEF SpawnHalf
  <1>8. CASE SettleHalf(c)
    <2>1. /\ call[c].pc \in {"settle core", "settle relay"} /\ engine[call[c].waits].st # "starting"
          /\ UNCHANGED <<file, procs, engine>>
      BY <1>8 DEF SettleHalf
    <2>2. CASE ~Alive(call[c].waits)
      BY <1>8, <2>1, <2>2, SoundStopWeb DEF SettleHalf
    <2>3. CASE Alive(call[c].waits) /\ call[c].pc = "settle core"
      <3>1. call' = [call EXCEPT ![c] = Goto(c, "spawn relay")] /\ phase' = phase
        BY <1>8, <2>3 DEF SettleHalf
      <3>2. call'[c].pc = "spawn relay" /\ \A d \in Callers \ {c} : call'[d] = call[d]
        BY <1>0, <3>1, GotoDoes DEF Pcs
      <3>3. Accepted("webrelay") /\ procs["relay"] = None
        BY <1>0, <2>3 DEF Place, Spawning
      <3>4. Place(c)'
        BY <2>1, <3>2, <3>3 DEF Place, StoppingMtg, StoppingWeb, Spawning, Accepted
      <3>5. QED
        BY <2>1, <3>1, <3>2, <3>4, Moves
    <2>4. CASE Alive(call[c].waits) /\ call[c].pc # "settle core"
      BY <1>8, <2>1, <2>4, PassEnds DEF SettleHalf
    <2>5. QED
      BY <2>2, <2>3, <2>4
  <1>9. CASE SpawnFails(c)
    <2>1. /\ call[c].pc \in {"spawn mtg", "spawn core", "spawn relay"}
          /\ UNCHANGED <<file, procs, engine, phase>>
      BY <1>9 DEF SpawnFails, moduleVars
    <2>2. CASE call[c].pc = "spawn mtg"
      BY <1>9, <2>1, <2>2, Proceeds DEF SpawnFails
    <2>3. CASE call[c].pc # "spawn mtg"
      BY <1>9, <2>1, <2>3, SoundStopWeb DEF SpawnFails
    <2>4. QED
      BY <2>2, <2>3
  <1>10. QED
    BY <1>1, <1>2, <1>3, <1>4, <1>5, <1>6, <1>7, <1>8, <1>9

(***************************************************************************)
(* The rest of the system.                                                 *)
(***************************************************************************)

\* A pass begins, where calls do not overlap: all of them are idle.
LEMMA EnterSound ==
    ASSUME SoundInv, Types', ~Overlap, NEW c \in Callers, CanBegin(c), Enter(c) \/ UNCHANGED call,
           UNCHANGED <<file, procs, engine, phase>>
    PROVE  SoundInv'
  <1>1. Open /\ \A d \in Callers : call[d].pc = "idle"
    BY DEF CanBegin, Open
  <1>2. \A d \in Callers : call'[d].pc = "idle" \/ (d = c /\ call'[d].pc = "mtproto")
    BY <1>1, EnterDoes DEF SoundInv, Types
  <1>3. \A p \in Procs : engine[p].st # "starting"
    BY <1>1 DEF SoundInv, Sound, Bootable, Settling
  <1>4. \A p \in Procs : Live(p) => procs[engine[p].of] = p
    BY <1>1 DEF SoundInv, Sound, Held
  <1>5. OneAtATime' /\ \A d \in Callers : Place(d)'
    BY <1>1, <1>2 DEF OneAtATime, Open, Place, StoppingMtg, StoppingWeb, Spawning
  <1>6. Alone' /\ Fresh' /\ Bootable' /\ Held'
    BY <1>3, <1>4 DEF SoundInv, Sound, Alone, Fresh, Bootable, Held, Live
  <1>7. QED
    BY <1>5, <1>6 DEF SoundInv, Sound

\* A launched process comes up.
LEMMA BootsClean ==
    ASSUME SoundInv, NEW p \in Procs, engine[p].st = "starting"
    PROVE  file[Owner[engine[p].of]].ok /\ ~Contended(p)
  <1>1. file[Owner[engine[p].of]].ok
    BY DEF SoundInv, Sound, Bootable, Accepted
  <1>2. ASSUME NEW q \in Procs, engine[q].of = engine[p].of, engine[q].cfg # None PROVE FALSE
    <2>1. engine[q].st \notin {"dead", "starting"}
      BY <1>2 DEF SoundInv, Sound, Fresh
    <2>2. q = p
      BY <1>2, <2>1 DEF SoundInv, Sound, Alone, Live
    <2>3. QED
      BY <2>1, <2>2
  <1>3. QED
    BY <1>1, <1>2 DEF Contended

\* A process boots, exits or dies.
LEMMA EngineSound ==
    ASSUME SoundInv, Types', NEW p \in Procs, EngineBoot(p) \/ EngineExit(p) \/ EngineCrash(p)
    PROVE  SoundInv'
  <1>1. /\ UNCHANGED <<file, procs, call, phase>>
        /\ \A q \in Procs \ {p} : engine'[q] = engine[q]
        /\ engine[p].st # "dead"
        /\ \/ engine'[p].st = "dead" /\ engine'[p].cfg = None
           \/ engine'[p].st = "up" /\ engine'[p].of = engine[p].of
    BY EngineDoes, StartedType DEF SoundInv
  <1>2. \A q \in Procs : /\ Live(q)' => Live(q) /\ engine'[q].of = engine[q].of
                         /\ engine'[q].st = "starting" => engine'[q] = engine[q]
    BY <1>1 DEF Live
  <1>3. Alone' /\ Fresh'
    BY <1>1, <1>2 DEF SoundInv, Sound, Alone, Fresh
  <1>4. Bootable' /\ Held'
    <2>1. Open' <=> Open
      BY <1>1 DEF Open
    <2>2. Bootable'
      BY <1>1, <1>2, <2>1 DEF SoundInv, Sound, Bootable, Accepted
    <2>3. ASSUME NEW q \in Procs, Live(q)', Open
          PROVE  procs'[engine'[q].of] = q \/ \E c \in Callers : call'[c].pc = "stop half" /\ call'[c].waits = q
      <3>1. Live(q) /\ engine'[q].of = engine[q].of
        BY <1>2, <2>3
      <3>2. procs[engine[q].of] = q \/ \E c \in Callers : call[c].pc = "stop half" /\ call[c].waits = q
        BY <2>3, <3>1 DEF SoundInv, Sound, Held
      <3>3. QED
        BY <1>1, <3>1, <3>2
    <2>4. QED
      BY <2>1, <2>2, <2>3 DEF Held
  <1>5. OneAtATime' /\ \A d \in Callers : Place(d)'
    BY <1>1 DEF SoundInv, Sound, OneAtATime, Open, Place, StoppingMtg, StoppingWeb, Spawning,
                Accepted, Snapshot, Halves
  <1>6. QED
    BY <1>3, <1>4, <1>5 DEF SoundInv, Sound

\* The end of the lifespan.
LEMMA ClosingSound ==
    ASSUME SoundInv, Types', Shutdown \/ StopAll
    PROVE  SoundInv'
  <1>0. /\ Types /\ call \in [Callers -> Call] /\ Loop \in Callers /\ Alone /\ Fresh
        /\ \A p \in Procs : engine[p].st = "starting" => Accepted(Owner[engine[p].of])
    BY DEF SoundInv, Sound, Bootable, Types, TypeOK, Callers
  <1>1. \A c \in Callers : call'[c].pc = "idle"
    <2>1. CASE Shutdown
      <3>1. call' = [call EXCEPT ![Loop] = IdleCall] /\ \A h \in Handlers : call[h].pc = "idle"
        BY <2>1 DEF Shutdown
      <3>2. IdleCall.pc = "idle"
        BY DEF IdleCall
      <3>3. QED
        BY <1>0, <3>1, <3>2 DEF Callers
    <2>2. CASE StopAll
      <3>1. ~Open /\ call' = call
        BY <2>2 DEF StopAll, Open
      <3>2. QED
        BY <3>1 DEF SoundInv, Sound, OneAtATime
    <2>3. QED
      BY <2>1, <2>2
  <1>2. ~Open' /\ file' = file
    BY DEF Shutdown, StopAll, Open, moduleVars
  <1>3. \A p \in Procs : /\ engine'[p].of = engine[p].of /\ engine'[p].cfg = engine[p].cfg
                         /\ Live(p)' => Live(p)
                         /\ engine'[p].st \in {"dead", "starting"} => engine'[p].st = engine[p].st
    <2>1. CASE Shutdown
      BY <2>1 DEF Shutdown, Live
    <2>2. CASE StopAll
      BY <1>0, <2>2, StopAllDoes DEF Live
    <2>3. QED
      BY <2>1, <2>2
  <1>4. Alone' /\ Fresh'
    BY <1>0, <1>3 DEF Alone, Fresh
  <1>5. Bootable' /\ Held'
    BY <1>0, <1>2, <1>3 DEF Bootable, Held, Accepted
  <1>6. OneAtATime' /\ \A d \in Callers : Place(d)'
    BY <1>1, <1>2 DEF OneAtATime, Place, StoppingMtg, StoppingWeb, Spawning
  <1>7. QED
    BY <1>4, <1>5, <1>6 DEF SoundInv, Sound

LEMMA SoundNext ==
    ASSUME ~Overlap
    PROVE  SoundInv /\ [Next]_vars => SoundInv'
  <1> SUFFICES ASSUME SoundInv, [Next]_vars PROVE SoundInv'
    OBVIOUS
  <1>0. Types' /\ Loop \in Callers /\ \A h \in Handlers : h \in Callers
    BY TypesNext DEF SoundInv, Callers
  <1>1. CASE Begin
    BY <1>0, <1>1, EnterSound DEF Begin, moduleVars
  <1>2. ASSUME NEW c \in Callers, Step(c) \/ SpawnFails(c) PROVE SoundInv'
    BY <1>0, <1>2, MtprotoSound, WebSound DEF Step
  <1>3. ASSUME NEW h \in Handlers, Reload(h) \/ \E s \in Services : Rotate(h, s) \/ Save(h, s) PROVE SoundInv'
    <2>1. CanBegin(h) /\ (Enter(h) \/ UNCHANGED call) /\ UNCHANGED <<file, procs, engine, phase>>
      BY <1>3 DEF Reload, Rotate, Save, Change, moduleVars
    <2>2. QED
      BY <1>0, <2>1, EnterSound
  <1>4. ASSUME NEW p \in Procs, EngineBoot(p) \/ EngineExit(p) \/ EngineCrash(p) PROVE SoundInv'
    BY <1>0, <1>4, EngineSound
  <1>5. CASE LearnPort \/ UNCHANGED vars
    <2>1. UNCHANGED <<file, procs, engine, call, phase>>
      BY <1>5 DEF LearnPort, vars, moduleVars
    <2>2. OneAtATime' /\ \A d \in Callers : Place(d)'
      BY <2>1 DEF SoundInv, Sound, OneAtATime, Open, Place, StoppingMtg, StoppingWeb, Spawning,
                  Accepted, Snapshot, Halves
    <2>3. Alone' /\ Fresh' /\ Bootable' /\ Held'
      BY <2>1 DEF SoundInv, Sound, Alone, Fresh, Bootable, Held, Live, Open, Accepted
    <2>4. QED
      BY <1>0, <2>2, <2>3 DEF SoundInv, Sound
  <1>6. CASE Shutdown \/ StopAll
    BY <1>0, <1>6, ClosingSound
  <1>7. QED
    BY <1>1, <1>2, <1>3, <1>4, <1>5, <1>6 DEF Next, Terminated

LEMMA SoundInit == Init => SoundInv
  <1> SUFFICES ASSUME Init PROVE SoundInv
    OBVIOUS
  <1>1. \A c \in Callers : call[c].pc = "idle"
    <2>1. IdleCall.pc = "idle"
      BY DEF IdleCall
    <2>2. QED
      BY <2>1 DEF Init
  <1>2. \A p \in Procs : engine[p].st = "dead" /\ engine[p].cfg = None
    BY StartedType DEF Init
  <1>3. OneAtATime /\ \A c \in Callers : Place(c)
    BY <1>1 DEF OneAtATime, Place, StoppingMtg, StoppingWeb, Spawning
  <1>4. Alone /\ Fresh /\ Bootable /\ Held
    BY <1>2 DEF Alone, Fresh, Bootable, Held, Live
  <1>5. QED
    BY <1>3, <1>4, TypesInit DEF SoundInv, Sound

\* What starts is not lost by any step: it boots, or is terminated by the shutdown.
LEMMA StartsStay ==
    ASSUME SoundInv, [Next]_vars, NEW p \in Procs, engine[p].st = "starting"
    PROVE  engine'[p].st # "dead"
  <1>0. /\ Types /\ TypeOK /\ Loop \in Callers
    BY DEF SoundInv, Types, Callers
  <1>1. ASSUME NEW c \in Callers, Step(c) \/ SpawnFails(c) PROVE engine'[p].st # "dead"
    <2>1. ASSUME NEW then \in {"webrelay", "spawn mtg"}, StopMtg(c, then) PROVE engine'[p].st # "dead"
      BY <1>0, <2>1, StopMtgDoes
    <2>2. ASSUME NEW part \in Parts, Launch(c, part) PROVE engine'[p].st # "dead"
      BY <1>0, <2>2, LaunchDoes DEF Free
    <2>3. CASE StopHalf(c)
      <3>1. call[c].pc = "halves" /\ call[c].left # <<>>
        BY <2>3 DEF StopHalf
      <3>2. QED
        BY <3>1, NothingStarts
    <2>4. CASE UNCHANGED engine
      BY <2>4
    <2>5. QED
      BY <1>1, <2>1, <2>2, <2>3, <2>4
      DEF Step, SpawnFails, SyncMtproto, CheckMtg, StopMtgDone, SpawnMtg, SettleMtg, SyncWebrelay, CheckWeb,
          HalfGone, StoppedHalves, SpawnHalf, SettleHalf, moduleVars, Parts
  <1>2. ASSUME NEW q \in Procs, EngineBoot(q) \/ EngineExit(q) \/ EngineCrash(q)
        PROVE  engine'[p].st # "dead"
    <2>1. CASE q = p
      <3>1. EngineBoot(p)
        BY <1>2, <2>1 DEF EngineExit, EngineCrash
      <3>2. file[Owner[engine[p].of]].ok /\ ~Contended(p)
        BY BootsClean
      <3>3. PICK up : up = [engine[p] EXCEPT !.st = "up", !.cfg = file[Owner[engine[p].of]]]
        OBVIOUS
      <3>4. engine' = [engine EXCEPT ![p] = up]
        BY <3>1, <3>2, <3>3 DEF EngineBoot
      <3>5. up.st = "up"
        BY <1>0, <3>3 DEF TypeOK, Process
      <3>6. QED
        BY <1>0, <3>4, <3>5 DEF TypeOK
    <2>2. CASE q # p
      BY <1>0, <1>2, <2>2, EngineDoes
    <2>3. QED
      BY <2>1, <2>2
  <1>3. CASE StopAll
    BY <1>0, <1>3, StopAllDoes
  <1>4. ASSUME NEW h \in Handlers, Reload(h) \/ \E s \in Services : Rotate(h, s) \/ Save(h, s)
        PROVE  engine'[p].st # "dead"
    BY <1>4 DEF Reload, Rotate, Save, Change
  <1>5. CASE Begin \/ LearnPort \/ Shutdown \/ UNCHANGED vars
    BY <1>5 DEF Begin, LearnPort, Shutdown, vars
  <1>6. QED
    BY <1>1, <1>2, <1>3, <1>4, <1>5 DEF Next, Terminated

\* A config is checked and the old process awaited before a new one is launched: where
\* no call starts while another is suspended, no launch ever meets a taken port or a
\* refused config, for any number of callers, processes, changes and crashes.
THEOREM NoLaunchInVain ==
    ASSUME ~Overlap
    PROVE  Spec => CleanBoot
  <1>1. SoundInv /\ [Next]_vars => [\A p \in Procs : engine[p].st = "starting" => engine'[p].st # "dead"]_vars
    BY StartsStay
  <1>2. SoundInv /\ [Next]_vars => SoundInv'
    BY SoundNext
  <1>3. QED
    BY <1>1, <1>2, SoundInit, PTL DEF Spec, CleanBoot

(***************************************************************************)
(* The tunnel of one client, two kinds of which lead to these services     *)
(* (Bridge), for every kind and every length: the state is well typed, and *)
(* what an end receives is a prefix of what the other sent, whole when an  *)
(* edge tunnel ended by itself.                                            *)
(***************************************************************************)

(***************************************************************************)
(* Runs of numbered messages.                                              *)
(***************************************************************************)

\* The messages after the first b of them, k in number.
Run(b, k) == [i \in 1..k |-> b + i]

\* Receiving the next message.
LEMMA NumbersGrow ==
    ASSUME NEW n \in Nat
    PROVE  Append(Numbers(n), n + 1) = Numbers(n + 1) /\ Len(Numbers(n)) = n
  <1>1. Numbers(n) \in Seq(Nat) /\ Len(Numbers(n)) = n
    BY DEF Numbers
  <1>2. Append(Numbers(n), n + 1) = [i \in 1..(n + 1) |-> IF i = n + 1 THEN n + 1 ELSE Numbers(n)[i]]
    BY <1>1
  <1>3. \A i \in 1..(n + 1) : (IF i = n + 1 THEN n + 1 ELSE Numbers(n)[i]) = i
    BY DEF Numbers
  <1>4. QED
    BY <1>1, <1>2, <1>3 DEF Numbers

\* Sending one.
LEMMA RunGrows ==
    ASSUME NEW b \in Nat, NEW k \in Nat
    PROVE  Append(Run(b, k), b + k + 1) = Run(b, k + 1) /\ Len(Run(b, k)) = k
  <1>1. Run(b, k) \in Seq(Nat) /\ Len(Run(b, k)) = k
    BY DEF Run
  <1>2. Append(Run(b, k), b + k + 1) = [i \in 1..(k + 1) |-> IF i = k + 1 THEN b + k + 1 ELSE Run(b, k)[i]]
    BY <1>1
  <1>3. \A i \in 1..(k + 1) : (IF i = k + 1 THEN b + k + 1 ELSE Run(b, k)[i]) = b + i
    BY DEF Run
  <1>4. QED
    BY <1>1, <1>2, <1>3 DEF Run

\* Taking one.
LEMMA RunShrinks ==
    ASSUME NEW b \in Nat, NEW k \in Nat \ {0}
    PROVE  Head(Run(b, k)) = b + 1 /\ Tail(Run(b, k)) = Run(b + 1, k - 1) /\ Run(b, k) # <<>>
  <1>1. Run(b, k) \in Seq(Nat) /\ Len(Run(b, k)) = k /\ Run(b, k) # <<>>
    BY DEF Run
  <1>2. Head(Run(b, k)) = b + 1
    BY <1>1 DEF Run
  <1>3. Tail(Run(b, k)) = [i \in 1..(k - 1) |-> Run(b, k)[i + 1]]
    <2>1. Tail(Run(b, k)) \in Seq(Nat) /\ Len(Tail(Run(b, k))) = k - 1
          /\ \A i \in 1..(k - 1) : Tail(Run(b, k))[i] = Run(b, k)[i + 1]
      BY <1>1, HeadTailProperties
    <2> DEFINE t == Tail(Run(b, k))
    <2>2. t \in Seq(Nat) /\ Len(t) = k - 1
      BY <2>1
    <2> HIDE DEF t
    <2>3. t = [i \in 1..(k - 1) |-> t[i]]
      BY <2>2
    <2>4. QED
      BY <2>1, <2>3 DEF t
  <1>4. \A i \in 1..(k - 1) : Run(b, k)[i + 1] = (b + 1) + i
    BY DEF Run
  <1>5. QED
    BY <1>1, <1>2, <1>3, <1>4 DEF Run

(***************************************************************************)
(* The types.                                                              *)
(***************************************************************************)

\* The two ends.
LEMMA TwoEnds ==
    /\ "client" \in Ends /\ "engine" \in Ends
    /\ \A e \in Ends : Other(e) \in Ends /\ Other(e) # e /\ Other(Other(e)) = e
  BY DEF Ends, Other

Endings == {"none", "open", "closed", "vanished"}

\* Closing an end.
LEMMA Closing ==
    ASSUME NEW x \in Ends, end \in [Ends -> Endings], Close(x)
    PROVE  /\ end' \in [Ends -> Endings]
           /\ \A e \in Ends : end'[e] = end[e] \/ (end'[e] = "closed" /\ end[e] # "none")
  BY DEF Close, Endings

\* A step keeps the types.
LEMMA TunnelTypesKept == TunnelTypeOK /\ [TunnelNext]_tunnelVars => TunnelTypeOK'
  <1> SUFFICES ASSUME TunnelTypeOK, [TunnelNext]_tunnelVars PROVE TunnelTypeOK'
    OBVIOUS
  <1> USE TwoEnds, BoundIsNat DEF TunnelTypeOK
  <1>1. end \in [Ends -> Endings]
    BY DEF Endings
  <1>2. ASSUME NEW x \in Ends, Close(x)
        PROVE  /\ end' \in [Ends -> {"none", "open", "closed", "vanished"}]
               /\ \A e \in Ends : end'[e] = "none" <=> end[e] = "none"
    BY <1>1, <1>2, Closing DEF Endings
  <1>3. CASE Arrive
    BY <1>3 DEF Arrive
  <1>4. CASE Dialled
    BY <1>4 DEF Dialled
  <1>5. CASE DialFails
    BY <1>2, <1>5 DEF DialFails
  <1>6. CASE Leave
    <2>1. PICK out \in SUBSET {e \in Ends : copier[e] = "giving" /\ end[Other(e)] = "open"} :
            got' = [e \in Ends |-> IF Other(e) \in out THEN Append(got[e], held[Other(e)]) ELSE got[e]]
      BY <1>6 DEF Leave
    <2>2. \A e \in out : held[e] \in 1..MaxSent
      OBVIOUS
    <2>3. ASSUME NEW e \in Ends PROVE got'[e] \in Seq(1..MaxSent)
      <3>1. CASE Other(e) \in out
        BY <2>1, <2>2, <3>1
      <3>2. CASE Other(e) \notin out
        BY <2>1, <3>2
      <3>3. QED
        BY <3>1, <3>2
    <2>4. got' \in [Ends -> Seq(1..MaxSent)]
      BY <2>1, <2>3
    <2>5. end' \in [Ends -> {"none", "open", "closed", "vanished"}]
      BY <1>2, <1>6 DEF Leave
    <2>6. copier' = [e \in Ends |-> "ended"] /\ held' = [e \in Ends |-> 0] /\ stage' = "leaving"
          /\ UNCHANGED <<kind, on, sent, box>>
      BY <1>6 DEF Leave
    <2>7. QED
      BY <2>4, <2>5, <2>6
  <1>7. CASE Finish
    BY <1>2, <1>7 DEF Finish
  <1>8. ASSUME NEW e \in Ends, Take(e) PROVE TunnelTypeOK'
    <2>1. Head(box[e]) \in 1..MaxSent /\ Tail(box[e]) \in Seq(1..MaxSent)
      BY <1>8, HeadTailProperties DEF Take
    <2>2. held' \in [Ends -> 0..MaxSent] /\ box' \in [Ends -> Seq(1..MaxSent)]
          /\ copier' \in [Ends -> {"off", "taking", "giving", "ended"}]
      <3>1. held' \in [Ends -> 0..MaxSent]
        <4>1. Head(box[e]) \in 0..MaxSent
          BY <2>1
        <4>2. QED
          BY <1>8, <4>1 DEF Take
      <3>2. box' \in [Ends -> Seq(1..MaxSent)]
        BY <1>8, <2>1 DEF Take
      <3>3. copier' \in [Ends -> {"off", "taking", "giving", "ended"}]
        BY <1>8 DEF Take
      <3>4. QED
        BY <3>1, <3>2, <3>3
    <2>3. held'[e] # 0 /\ copier'[e] = "giving" /\ stage = "copying"
      BY <1>8, <2>1 DEF Take
    <2>4. \A x \in Ends \ {e} : held'[x] = held[x] /\ copier'[x] = copier[x]
      BY <1>8 DEF Take
    <2>5. UNCHANGED <<kind, on, stage, end, sent, got>>
      BY <1>8 DEF Take, ends
    <2>6. QED
      BY <2>2, <2>3, <2>4, <2>5
  <1>9. ASSUME NEW e \in Ends, SeesEnd(e) PROVE TunnelTypeOK'
    BY <1>9 DEF SeesEnd, ends
  <1>10. ASSUME NEW e \in Ends, Give(e) PROVE TunnelTypeOK'
    <2>1. held[e] \in 1..MaxSent
      BY <1>10 DEF Give
    <2>2. got' \in [Ends -> Seq(1..MaxSent)]
      BY <1>10, <2>1 DEF Give
    <2>3. held' \in [Ends -> 0..MaxSent] /\ copier' \in [Ends -> {"off", "taking", "giving", "ended"}]
      <3>1. held' \in [Ends -> 0..MaxSent]
        BY <1>10 DEF Give
      <3>2. copier' \in [Ends -> {"off", "taking", "giving", "ended"}]
        BY <1>10 DEF Give
      <3>3. QED
        BY <3>1, <3>2
    <2>4. held'[e] = 0 /\ copier'[e] \in {"taking", "ended"} /\ stage = "copying"
      BY <1>10 DEF Give
    <2>5. \A x \in Ends \ {e} : held'[x] = held[x] /\ copier'[x] = copier[x]
      BY <1>10 DEF Give
    <2>6. UNCHANGED <<kind, on, stage, end, sent, box>>
      BY <1>10 DEF Give
    <2>7. ASSUME NEW x \in Ends
          PROVE  /\ held'[x] # 0 <=> copier'[x] = "giving"
                 /\ stage' \in {"new", "dialling"} => copier'[x] = "off"
                 /\ copier'[x] \in {"taking", "giving"} => stage' = "copying"
      BY <2>4, <2>5, <2>6
    <2>8. QED
      BY <2>2, <2>3, <2>6, <2>7
  <1>11. ASSUME NEW e \in Ends, Sends(e) PROVE TunnelTypeOK'
    <2>1. sent[e] + 1 \in 1..MaxSent /\ sent'[e] = sent[e] + 1
      BY <1>11 DEF Sends
    <2>2. box' \in [Ends -> Seq(1..MaxSent)] /\ sent' \in [Ends -> 0..MaxSent]
      BY <1>11, <2>1 DEF Sends
    <2>3. QED
      BY <1>11, <2>2 DEF Sends
  <1>12. ASSUME NEW x \in Ends, Close(x), UNCHANGED <<kind, on, stage, sent, got, box, copier, held>>
         PROVE  TunnelTypeOK'
    <2>1. end' \in [Ends -> {"none", "open", "closed", "vanished"}]
      BY <1>2, <1>12
    <2>2. \A e \in Ends : end'[e] = "none" <=> end[e] = "none"
      BY <1>2, <1>12
    <2>3. QED
      BY <1>12, <2>1, <2>2
  <1>13. ASSUME NEW e \in Ends, Vanishes(e) PROVE TunnelTypeOK'
    BY <1>13 DEF Vanishes
  <1>14. CASE PingFails \/ IdleCloses \/ RelayStops
    BY <1>12, <1>14 DEF PingFails, IdleCloses, RelayStops
  <1>15. CASE SwitchOff
    BY <1>15 DEF SwitchOff, ends
  <1>16. CASE UNCHANGED tunnelVars
    BY <1>16 DEF tunnelVars, ends
  <1>17. ASSUME NEW e \in Ends, Closes(e) PROVE TunnelTypeOK'
    BY <1>12, <1>17 DEF Closes
  <1>18. QED
    BY <1>3, <1>4, <1>5, <1>6, <1>7, <1>8, <1>9, <1>10, <1>11, <1>13, <1>14, <1>15, <1>16, <1>17 DEF TunnelNext

\* The state of a tunnel keeps its shape, for every kind and every number of messages,
\* and a copier holds a message exactly while it gives it.
THEOREM TunnelTypeCorrect == TunnelSpec => []TunnelTypeOK
  <1>1. TunnelInit => TunnelTypeOK
    BY BoundIsNat DEF TunnelInit, TunnelTypeOK
  <1>2. QED
    BY <1>1, TunnelTypesKept, PTL DEF TunnelSpec

(***************************************************************************)
(* The stream.                                                             *)
(***************************************************************************)
Got(e) == Len(got[Other(e)])
Boxed(e) == Len(box[e])
InHand(e) == IF held[e] = 0 THEN 0 ELSE 1

\* What e sent is received, in the hand of the copier or in the box, in this order;
\* nothing is missing as long as the copiers run and the other end is there.
Ordered(e) ==
    /\ got[Other(e)] = Numbers(Got(e))
    /\ box[e] = Run(sent[e] - Boxed(e), Boxed(e))
    /\ held[e] # 0 => held[e] = sent[e] - Boxed(e)
    /\ Got(e) + InHand(e) + Boxed(e) <= sent[e]
Complete(e) ==
    stage \in {"new", "dialling", "copying"} /\ end[Other(e)] \in {"none", "open"} =>
        Got(e) + InHand(e) + Boxed(e) = sent[e]
Drained(e) ==
    stage = "copying" /\ copier[e] = "ended" /\ end[Other(e)] = "open" =>
        box[e] = <<>> /\ end[e] = "closed"
Flow(e) == Ordered(e) /\ Complete(e) /\ Drained(e)

\* The lengths are numbers.
LEMMA Lengths ==
    ASSUME TunnelTypeOK, NEW e \in Ends
    PROVE  Got(e) \in Nat /\ Boxed(e) \in Nat /\ InHand(e) \in {0, 1} /\ sent[e] \in Nat
  BY TwoEnds, BoundIsNat DEF TunnelTypeOK, Got, Boxed, InHand

\* Nothing of the stream of e changes but the ends, which may close or vanish.
LEMMA Untouched ==
    ASSUME NEW e \in Ends, Flow(e),
           got'[Other(e)] = got[Other(e)], box'[e] = box[e], held'[e] = held[e], sent'[e] = sent[e],
           stage' \in {"new", "dialling", "copying"} => stage \in {"new", "dialling", "copying"},
           stage' = "copying" => stage = "copying" /\ copier'[e] = copier[e],
           \A x \in Ends : end'[x] = end[x] \/ (stage \notin {"copying"} /\ end[x] = "none")
                             \/ end'[x] \in {"closed", "vanished"},
           \A x \in Ends : end[x] = "closed" => end'[x] = "closed",
           end'[Other(e)] \in {"none", "open"} => end[Other(e)] \in {"none", "open"}
    PROVE  Flow(e)'
  <1>1. Got(e)' = Got(e) /\ Boxed(e)' = Boxed(e) /\ InHand(e)' = InHand(e)
    BY DEF Got, Boxed, InHand
  <1>2. Ordered(e)'
    BY <1>1 DEF Flow, Ordered
  <1>3. Complete(e)'
    BY <1>1 DEF Flow, Complete
  <1>4. Drained(e)'
    BY TwoEnds DEF Flow, Drained
  <1>5. QED
    BY <1>2, <1>3, <1>4 DEF Flow

\* Each step keeps the stream of each end.
LEMMA FlowKept == TunnelTypeOK /\ (\A e \in Ends : Flow(e)) /\ [TunnelNext]_tunnelVars => \A e \in Ends : Flow(e)'
  <1> SUFFICES ASSUME TunnelTypeOK, \A x \in Ends : Flow(x), [TunnelNext]_tunnelVars, NEW e \in Ends PROVE Flow(e)'
    OBVIOUS
  <1> DEFINE o == Other(e)
  <1>1. o \in Ends /\ o # e /\ Other(o) = e /\ \A x \in Ends : x = e \/ x = o
    BY TwoEnds DEF Ends, Other
  <1>2. Flow(e) /\ Got(e) \in Nat /\ Boxed(e) \in Nat /\ InHand(e) \in {0, 1} /\ sent[e] \in Nat
    BY Lengths
  <1>3. end \in [Ends -> Endings] /\ end' \in [Ends -> Endings]
    BY TunnelTypesKept DEF TunnelTypeOK, Endings
  <1>4. ASSUME NEW x \in Ends, Close(x),
               UNCHANGED <<sent, got, box, copier, held>>,
               stage' = stage \/ stage' \in {"leaving", "returned"}
        PROVE  Flow(e)'
    BY <1>1, <1>2, <1>3, <1>4, Closing, Untouched
  <1>5. ASSUME UNCHANGED <<ends, box, copier, held>>, stage' = stage \/ stage' = "returned" \/ (stage' = "dialling" /\ stage = "new")
        PROVE  Flow(e)'
    BY <1>1, <1>2, <1>5, Untouched DEF ends
  <1>6. CASE Arrive
    <2>1. CASE kind \in Pumps
      BY <1>5, <1>6, <2>1 DEF Arrive, ends
    <2>2. CASE kind \notin Pumps
      <3>1. /\ stage = "new" /\ stage' = "dialling" /\ UNCHANGED <<sent, got, box, copier, held>>
            /\ \A x \in Ends : end[x] = "none"
        BY <1>6, <2>2 DEF Arrive, TunnelTypeOK
      <3>2. QED
        BY <1>1, <1>2, <1>3, <3>1, Untouched
    <2>3. QED
      BY <2>1, <2>2
  <1>7. CASE Dialled
    <2>1. Got(e)' = Got(e) /\ Boxed(e)' = Boxed(e) /\ InHand(e)' = InHand(e)
      BY <1>7 DEF Dialled, Got, Boxed, InHand
    <2>2. end'[o] \in {"none", "open"} => end[o] \in {"none", "open"}
      BY <1>1, <1>7 DEF Dialled
    <2>3. copier'[e] = "taking" /\ stage = "dialling" /\ UNCHANGED <<sent, got, box, held>>
      BY <1>7 DEF Dialled
    <2>4. QED
      BY <1>2, <2>1, <2>2, <2>3 DEF Flow, Ordered, Complete, Drained
  <1>8. CASE Leave
    <2>1. PICK out \in SUBSET {x \in Ends : copier[x] = "giving" /\ end[Other(x)] = "open"} :
            got' = [x \in Ends |-> IF Other(x) \in out THEN Append(got[x], held[Other(x)]) ELSE got[x]]
      BY <1>8 DEF Leave
    <2>2. held'[e] = 0 /\ stage' = "leaving" /\ UNCHANGED <<sent, box>>
      BY <1>8 DEF Leave
    <2>3. InHand(e)' = 0 /\ Boxed(e)' = Boxed(e)
      BY <2>2 DEF InHand, Boxed
    <2>4. CASE e \in out
      <3>1. got'[o] = Append(got[o], held[e]) /\ held[e] # 0 /\ end[o] = "open" /\ stage = "copying"
        BY <1>1, <2>1, <2>4 DEF TunnelTypeOK
      <3>2. held[e] = Got(e) + 1 /\ got[o] = Numbers(Got(e)) /\ Got(e) + 1 + Boxed(e) = sent[e]
        BY <1>2, <3>1 DEF Flow, Ordered, Complete, InHand
      <3>3. got'[o] = Numbers(Got(e) + 1)
        BY <1>2, <3>1, <3>2, NumbersGrow
      <3>4. Got(e)' = Got(e) + 1
        <4>1. Got(e) + 1 \in Nat
          BY <1>2
        <4>2. Len(got'[o]) = Got(e) + 1
          BY <3>3, <4>1, NumbersGrow
        <4>3. QED
          BY <4>2 DEF Got
      <3>5. QED
        BY <1>2, <2>2, <2>3, <3>2, <3>3, <3>4 DEF Flow, Ordered, Complete, Drained
    <2>5. CASE e \notin out
      <3>1. got'[o] = got[o] /\ Got(e)' = Got(e)
        BY <1>1, <2>1, <2>5 DEF Got
      <3>2. QED
        BY <1>2, <2>2, <2>3, <3>1 DEF Flow, Ordered, Complete, Drained
    <2>6. QED
      BY <2>4, <2>5
  <1>9. CASE Take(e)
    <2>1. /\ box[e] # <<>> /\ held'[e] = Head(box[e]) /\ box'[e] = Tail(box[e]) /\ copier[e] = "taking"
          /\ copier'[e] = "giving" /\ UNCHANGED <<stage, end, sent, got>>
      BY <1>9 DEF Take, ends, TunnelTypeOK
    <2>2. box[e] = Run(sent[e] - Boxed(e), Boxed(e)) /\ Boxed(e) <= sent[e] /\ Boxed(e) # 0
      BY <1>2, <2>1 DEF Flow, Ordered, Boxed, TunnelTypeOK
    <2>3. sent[e] - Boxed(e) \in Nat /\ Boxed(e) \in Nat \ {0}
      BY <1>2, <2>2
    <2>4. held'[e] = sent[e] - Boxed(e) + 1 /\ box'[e] = Run(sent[e] - Boxed(e) + 1, Boxed(e) - 1)
      BY <2>1, <2>2, <2>3, RunShrinks
    <2>5. Boxed(e)' = Boxed(e) - 1 /\ Got(e)' = Got(e) /\ InHand(e)' = 1 /\ InHand(e) = 0
      <3>1. Len(Run(sent[e] - Boxed(e) + 1, Boxed(e) - 1)) = Boxed(e) - 1
        <4>1. sent[e] - Boxed(e) + 1 \in Nat /\ Boxed(e) - 1 \in Nat
          BY <2>3
        <4>2. QED
          BY <4>1, RunGrows
      <3>2. Boxed(e)' = Boxed(e) - 1
        BY <2>4, <3>1 DEF Boxed
      <3>3. held[e] = 0 /\ held'[e] # 0
        BY <2>1, <2>3, <2>4 DEF TunnelTypeOK
      <3>4. QED
        BY <2>1, <3>2, <3>3 DEF Got, InHand
    <2>6. sent'[e] - Boxed(e)' = sent[e] - Boxed(e) + 1
      BY <1>2, <2>1, <2>3, <2>5
    <2>7. Ordered(e)'
      BY <1>2, <2>1, <2>3, <2>4, <2>5, <2>6 DEF Flow, Ordered
    <2>8. Complete(e)'
      BY <1>2, <2>1, <2>3, <2>5 DEF Flow, Complete
    <2>9. QED
      BY <2>1, <2>7, <2>8 DEF Flow, Drained
  <1>10. CASE Give(e)
    <2>1. copier[e] = "giving" /\ held[e] # 0 /\ held'[e] = 0 /\ stage = "copying" /\ UNCHANGED <<stage, end, sent, box>>
      BY <1>10 DEF Give, TunnelTypeOK
    <2>2. Boxed(e)' = Boxed(e) /\ InHand(e)' = 0 /\ InHand(e) = 1
      BY <2>1 DEF Boxed, InHand
    <2>3. CASE end[o] = "open"
      <3>1. got'[o] = Append(got[o], held[e]) /\ copier'[e] = "taking"
        BY <1>1, <1>10, <2>3 DEF Give, TunnelTypeOK
      <3>2. held[e] = Got(e) + 1 /\ got[o] = Numbers(Got(e)) /\ Got(e) + 1 + Boxed(e) = sent[e]
        BY <1>2, <2>1, <2>2, <2>3 DEF Flow, Ordered, Complete
      <3>3. got'[o] = Numbers(Got(e) + 1)
        BY <1>2, <3>1, <3>2, NumbersGrow
      <3>4. Got(e)' = Got(e) + 1
        <4>1. Got(e) + 1 \in Nat
          BY <1>2
        <4>2. Len(got'[o]) = Got(e) + 1
          BY <3>3, <4>1, NumbersGrow
        <4>3. QED
          BY <4>2 DEF Got
      <3>5. QED
        BY <1>2, <2>1, <2>2, <3>1, <3>2, <3>3, <3>4 DEF Flow, Ordered, Complete, Drained
    <2>4. CASE end[o] # "open"
      <3>1. got' = got /\ Got(e)' = Got(e)
        BY <1>10, <2>4 DEF Give, Got
      <3>2. end[o] \notin {"none", "open"}
        BY <1>1, <2>1, <2>4 DEF TunnelTypeOK
      <3>3. QED
        BY <1>2, <2>1, <2>2, <3>1, <3>2 DEF Flow, Ordered, Complete, Drained
    <2>5. QED
      BY <2>3, <2>4
  <1>11. CASE SeesEnd(e)
    <2>1. box[e] = <<>> /\ end[e] = "closed" /\ held[e] = 0 /\ UNCHANGED <<stage, ends, box, held>>
      BY <1>11 DEF SeesEnd, TunnelTypeOK
    <2>2. Got(e)' = Got(e) /\ Boxed(e)' = Boxed(e) /\ InHand(e)' = InHand(e)
      BY <2>1 DEF Got, Boxed, InHand, ends
    <2>3. QED
      BY <1>2, <2>1, <2>2 DEF Flow, Ordered, Complete, Drained, ends
  <1>12. CASE Sends(e)
    <2>1. /\ end[e] = "open" /\ sent'[e] = sent[e] + 1 /\ box'[e] = Append(box[e], sent[e] + 1)
          /\ UNCHANGED <<stage, end, got, copier, held>>
      BY <1>12 DEF Sends, TunnelTypeOK
    <2>2. box[e] = Run(sent[e] - Boxed(e), Boxed(e)) /\ sent[e] - Boxed(e) \in Nat
      BY <1>2 DEF Flow, Ordered
    <2>3. sent[e] + 1 = (sent[e] - Boxed(e)) + Boxed(e) + 1
      BY <1>2
    <2>4. box'[e] = Run(sent[e] - Boxed(e), Boxed(e) + 1)
      BY <1>2, <2>1, <2>2, <2>3, RunGrows
    <2>5. Boxed(e)' = Boxed(e) + 1
      <3>1. Boxed(e) + 1 \in Nat
        BY <1>2
      <3>2. Len(Run(sent[e] - Boxed(e), Boxed(e) + 1)) = Boxed(e) + 1
        BY <2>2, <3>1, RunGrows
      <3>3. QED
        BY <2>4, <3>2 DEF Boxed
    <2>6. Got(e)' = Got(e) /\ InHand(e)' = InHand(e) /\ sent'[e] - Boxed(e)' = sent[e] - Boxed(e)
      BY <1>2, <2>1, <2>5 DEF Got, InHand
    <2>7. Ordered(e)'
      BY <1>2, <2>1, <2>4, <2>5, <2>6 DEF Flow, Ordered
    <2>8. Complete(e)'
      BY <1>2, <2>1, <2>5, <2>6 DEF Flow, Complete
    <2>9. QED
      BY <1>2, <2>1, <2>7, <2>8 DEF Flow, Drained
  <1>13. CASE Take(o) \/ SeesEnd(o)
    <2>1. /\ box'[e] = box[e] /\ held'[e] = held[e] /\ copier'[e] = copier[e]
          /\ UNCHANGED <<stage, end, sent, got>>
      BY <1>1, <1>13 DEF Take, SeesEnd, ends, TunnelTypeOK
    <2>2. QED
      BY <1>1, <1>2, <2>1, Untouched
  <1>14. CASE Give(o)
    <2>1. /\ got'[o] = got[o] /\ held'[e] = held[e] /\ copier'[e] = copier[e]
          /\ UNCHANGED <<stage, end, sent, box>>
      BY <1>1, <1>14 DEF Give, TunnelTypeOK
    <2>2. QED
      BY <1>1, <1>2, <2>1, Untouched
  <1>15. CASE Sends(o)
    <2>1. /\ box'[e] = box[e] /\ sent'[e] = sent[e] /\ UNCHANGED <<stage, end, got, copier, held>>
      BY <1>1, <1>15 DEF Sends, TunnelTypeOK
    <2>2. QED
      BY <1>1, <1>2, <2>1, Untouched
  <1>16. ASSUME NEW x \in Ends, Vanishes(x) PROVE Flow(e)'
    <2>1. /\ end[x] = "open" /\ end' = [end EXCEPT ![x] = "vanished"]
          /\ UNCHANGED <<stage, sent, got, box, copier, held>>
      BY <1>16 DEF Vanishes
    <2>2. \A y \in Ends : end'[y] = end[y] \/ (end'[y] = "vanished" /\ end[y] = "open")
      BY <1>3, <2>1
    <2>3. QED
      BY <1>1, <1>2, <2>1, <2>2, Untouched
  <1>17. CASE DialFails
    BY <1>4, <1>17, TwoEnds DEF DialFails
  <1>18. CASE Finish
    BY <1>4, <1>18, TwoEnds DEF Finish
  <1>19. ASSUME NEW x \in Ends, Closes(x) PROVE Flow(e)'
    BY <1>4, <1>19 DEF Closes
  <1>20. CASE PingFails \/ IdleCloses \/ RelayStops
    BY <1>4, <1>20, TwoEnds DEF PingFails, IdleCloses, RelayStops
  <1>21. CASE SwitchOff
    BY <1>5, <1>21 DEF SwitchOff, ends
  <1>22. CASE UNCHANGED tunnelVars
    BY <1>5, <1>22 DEF tunnelVars, ends
  <1>23. QED
    BY <1>1, <1>6, <1>7, <1>8, <1>9, <1>10, <1>11, <1>12, <1>13, <1>14, <1>15, <1>16, <1>17, <1>18, <1>19,
       <1>20, <1>21, <1>22 DEF TunnelNext

\* A tunnel of any kind and length is faithful (main.py:932-949; webapp.py, _pump): an
\* end receives a prefix of what the other sent, and on the edge, when both copiers
\* are done and the end is still there, the whole of it.
THEOREM TunnelIsFaithful == TunnelSpec => []Faithful
  <1> DEFINE Stream == \A e \in Ends : Flow(e)
  <1>1. TunnelInit => Stream
    <2>1. SUFFICES ASSUME TunnelInit, NEW e \in Ends PROVE Flow(e)
      OBVIOUS
    <2>2. got[Other(e)] = <<>> /\ box[e] = <<>> /\ held[e] = 0 /\ sent[e] = 0 /\ stage = "new"
      BY <2>1, TwoEnds DEF TunnelInit
    <2>3. Got(e) = 0 /\ Boxed(e) = 0 /\ InHand(e) = 0 /\ Numbers(0) = <<>> /\ Run(0, 0) = <<>>
      BY <2>2 DEF Got, Boxed, InHand, Numbers, Run
    <2>4. QED
      BY <2>2, <2>3 DEF Flow, Ordered, Complete, Drained
  <1>2. TunnelTypeOK /\ Stream => Faithful
    <2>1. SUFFICES ASSUME TunnelTypeOK, Stream, NEW e \in Ends
                   PROVE  /\ \E n \in 0..sent[e] : got[Other(e)] = Numbers(n)
                          /\ kind = "edge" /\ stage = "copying" /\ Over /\ end[Other(e)] = "open" =>
                               got[Other(e)] = Numbers(sent[e])
      BY DEF Faithful
    <2>2. Flow(e) /\ Got(e) \in Nat /\ Boxed(e) \in Nat /\ InHand(e) \in {0, 1} /\ sent[e] \in Nat
      BY <2>1, Lengths
    <2>3. Got(e) \in 0..sent[e] /\ got[Other(e)] = Numbers(Got(e))
      BY <2>2 DEF Flow, Ordered
    <2>4. ASSUME kind = "edge", stage = "copying", Over, end[Other(e)] = "open"
          PROVE  Got(e) = sent[e]
      <3>1. copier[e] = "ended"
        BY <2>4 DEF Over, Pumps
      <3>2. box[e] = <<>> /\ held[e] = 0
        BY <2>1, <2>2, <2>4, <3>1 DEF Flow, Drained, TunnelTypeOK
      <3>3. Boxed(e) = 0 /\ InHand(e) = 0
        BY <3>2 DEF Boxed, InHand
      <3>4. QED
        BY <2>2, <2>4, <3>3 DEF Flow, Complete
    <2>5. QED
      BY <2>3, <2>4
  <1>3. TunnelTypeOK /\ Stream /\ [TunnelNext]_tunnelVars => Stream'
    BY FlowKept
  <1>4. QED
    BY <1>1, <1>2, <1>3, TunnelTypeCorrect, PTL DEF TunnelSpec
=============================================================================
