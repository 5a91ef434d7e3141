-------------------------- MODULE DeploymentProofs --------------------------
(***************************************************************************)
(* Proofs about Deployment, for any capabilities, threads, users and       *)
(* bounds: the shape of its state; the edge of a new container serves;     *)
(* while updates do not overlap, one that was accepted is verified; and,   *)
(* while the passes do not overlap, no port gets a second proxy.           *)
(***************************************************************************)
EXTENDS Deployment, Integers, TLAPS

Stages == {"idle", "list", "read", "write", "loop", "create", "pin", "redeploy", "log", "logged"}
UpdateStages == {"idle", "backup", "arm", "trigger", "disarm"}

(***************************************************************************)
(* The types.                                                              *)
(***************************************************************************)

\* A mapping is a function on some of the capabilities.
LEMMA Mappings ==
    /\ <<>> \in Mapping
    /\ \A items \in Mapping : DOMAIN items \in SUBSET Caps /\ items \in [DOMAIN items -> 1..MaxProxies]
    /\ \A S \in SUBSET Caps : \A f \in [S -> 1..MaxProxies] : f \in Mapping
  <1>1. <<>> \in [{} -> 1..MaxProxies]
    OBVIOUS
  <1>2. QED
    BY <1>1 DEF Mapping

\* Merging adds the ports of the rows and keeps every port there was.
LEMMA MergedType ==
    ASSUME NEW items \in Mapping, NEW rows \in SUBSET Proxy
    PROVE  /\ Merged(items, rows) \in Mapping
           /\ DOMAIN Merged(items, rows) = DOMAIN items \cup Ports(rows)
           /\ Ports(rows) \in SUBSET Caps
  <1>1. Ports(rows) \in SUBSET Caps
    BY DEF Ports, Proxy
  <1>2. DOMAIN items \in SUBSET Caps /\ items \in [DOMAIN items -> 1..MaxProxies]
    BY Mappings
  <1>3. \A p \in Ports(rows) : (CHOOSE r \in rows : r.port = p).public \in 1..MaxProxies
    <2>1. SUFFICES ASSUME NEW p \in Ports(rows) PROVE (CHOOSE r \in rows : r.port = p).public \in 1..MaxProxies
      OBVIOUS
    <2>2. \E r \in rows : r.port = p
      BY DEF Ports
    <2>3. (CHOOSE r \in rows : r.port = p) \in rows
      BY <2>2
    <2>4. QED
      BY <2>3 DEF Proxy
  <1>4. Merged(items, rows) \in [DOMAIN items \cup Ports(rows) -> 1..MaxProxies]
    BY <1>2, <1>3 DEF Merged
  <1>5. QED
    BY <1>1, <1>2, <1>4, Mappings

\* The idle pass, the one that begins and the pass of a fresh container.
LEMMA Passes ==
    /\ Idle \in Pass
    /\ \A n \in {1, 2} : [Idle EXCEPT !.at = "list", !.rounds = n] \in Pass
    /\ \A a, d \in BOOLEAN : BootPass(a, d) \in Pass
  <1>1. Idle \in Pass
    BY Mappings DEF Idle, Pass, Fields
  <1>2. \A n \in {1, 2} : [Idle EXCEPT !.at = "list", !.rounds = n] \in Pass
    <2>1. SUFFICES ASSUME NEW n \in {1, 2} PROVE [Idle EXCEPT !.at = "list", !.rounds = n] \in Pass
      OBVIOUS
    <2>2. n \in 0..2
      OBVIOUS
    <2>3. QED
      BY <1>1, <2>2 DEF Pass, Fields
  <1>3. [Idle EXCEPT !.at = "list", !.rounds = 1] \in Pass
    BY <1>2
  <1>4. QED
    BY <1>1, <1>2, <1>3 DEF BootPass

\* The end of a pass.
LEMMA EndRoundType ==
    ASSUME pass \in [Runners -> Pass], NEW c \in Runners, EndRound(c)
    PROVE  pass' \in [Runners -> Pass]
  <1>1. (IF pass[c].rounds > 1 THEN [Idle EXCEPT !.at = "list", !.rounds = 1] ELSE Idle) \in Pass
    BY Passes
  <1>2. QED
    BY <1>1 DEF EndRound

\* A call is carried out or not, and answered or not; one that is not answered counts.
LEMMA OutcomesAre ==
    \A o \in Outcomes : /\ o.carried \in BOOLEAN /\ o.answered \in BOOLEAN
                        /\ o.answered => o.carried
                        /\ ~o.answered => faults < MaxFaults
  <1>1. \A o \in {[carried |-> TRUE, answered |-> TRUE]} : o.carried = TRUE /\ o.answered = TRUE
    OBVIOUS
  <1>2. \A o \in [carried : BOOLEAN, answered : {FALSE}] : o.carried \in BOOLEAN /\ o.answered = FALSE
    OBVIOUS
  <1>3. QED
    BY <1>1, <1>2 DEF Outcomes

\* The count of calls that failed stays within its bound.
LEMMA OutcomeType ==
    ASSUME faults \in 0..MaxFaults, NEW o \in Outcomes, Counted(o)
    PROVE  faults' \in 0..MaxFaults /\ o.carried \in BOOLEAN /\ o.answered \in BOOLEAN
  BY BoundsAreNat, OutcomesAre DEF Counted

\* A step of a pass keeps the types.
LEMMA PassStepTypes == ASSUME TypeOK, NEW c \in Runners, PassStep(c) PROVE TypeOK'
  <1> USE BoundsAreNat, SwitchlessAreCaps DEF TypeOK
  <1>0. pass[c] \in Pass /\ (pass[c].at = "create" => pass[c].cap # None) /\ pass[c].rows \in SUBSET Proxy /\ pass[c].items \in Mapping /\ pass[c].todo \in SUBSET Caps
        /\ pass[c].cap \in Caps \cup {None} /\ pass[c].made \in SUBSET Caps /\ pass[c].rounds \in 0..2
    BY DEF Pass, Fields
  <1>1. CASE List(c)
    <2>1. PICK o \in Outcomes :
            /\ Counted(o)
            /\ IF o.answered THEN pass' = [pass EXCEPT ![c].at = "read", ![c].rows = proxies] ELSE EndRound(c)
      BY <1>1 DEF List
    <2>2. faults' \in 0..MaxFaults
      BY <2>1, OutcomeType
    <2>3. pass' \in [Runners -> Pass]
      <3>1. CASE o.answered
        <4>1. [pass[c] EXCEPT !.at = "read", !.rows = proxies] \in Pass
          BY <1>0 DEF Pass, Fields
        <4>2. QED
          BY <2>1, <3>1, <4>1
      <3>2. CASE ~o.answered
        BY <2>1, <3>2, EndRoundType
      <3>3. QED
        BY <3>1, <3>2
    <2>4. QED
      BY <1>1, <2>2, <2>3 DEF List, railway, settings, environment
  <1>2. CASE MergeRead(c)
    <2>1. [pass[c] EXCEPT !.at = "write", !.items = stored] \in Pass
      BY <1>0 DEF Pass, Fields
    <2>2. pass' \in [Runners -> Pass]
      BY <1>2, <2>1 DEF MergeRead
    <2>3. QED
      BY <1>2, <2>2 DEF MergeRead, railway, settings, environment
  <1>3. CASE MergeWrite(c)
    <2>1. stored' \in Mapping
      <3>1. Merged(pass[c].items, pass[c].rows) \in Mapping
        BY <1>0, MergedType
      <3>2. stored' = stored \/ stored' = Merged(pass[c].items, pass[c].rows)
        BY <1>3 DEF MergeWrite
      <3>3. QED
        BY <3>1, <3>2
    <2>2. [pass[c] EXCEPT !.at = "loop", !.cap = None, !.rows = {}, !.items = <<>>,
             !.todo = IF pass[c].cap = None THEN Catalog ELSE pass[c].todo,
             !.made = IF pass[c].cap = None THEN pass[c].made ELSE pass[c].made \cup {pass[c].cap}] \in Pass
      BY <1>0, Mappings DEF Pass, Fields, Catalog
    <2>3. pass' \in [Runners -> Pass]
      BY <1>3, <2>2 DEF MergeWrite
    <2>4. QED
      BY <1>3, <2>1, <2>3 DEF MergeWrite, railway, environment
  <1>4. CASE Select(c)
    <2>1. PICK p \in pass[c].todo :
            pass' = [pass EXCEPT ![c].todo = pass[c].todo \ {p}, ![c].at = IF Proxied(p) THEN "loop" ELSE "create",
                                 ![c].cap = IF Proxied(p) THEN None ELSE p]
      BY <1>4 DEF Select
    <2>2. [pass[c] EXCEPT !.todo = pass[c].todo \ {p}, !.at = IF Proxied(p) THEN "loop" ELSE "create",
                          !.cap = IF Proxied(p) THEN None ELSE p] \in Pass
      <3>1. CASE Proxied(p)
        BY <1>0, <3>1 DEF Pass, Fields
      <3>2. CASE ~Proxied(p)
        <4>1. p \in Caps /\ p # None
          BY <1>0, HttpIsApart
        <4>2. QED
          BY <1>0, <3>2, <4>1 DEF Pass, Fields
      <3>3. QED
        BY <3>1, <3>2
    <2>3. pass' \in [Runners -> Pass]
      BY <2>1, <2>2
    <2>4. QED
      BY <1>4, <2>3 DEF Select, railway, settings, environment
  <1>5. CASE Create(c)
    <2> DEFINE proxy == [port |-> pass[c].cap, public |-> issued + 1]
    <2>1. PICK o \in IF issued < MaxProxies THEN Outcomes ELSE {Refusal} :
            /\ IF issued < MaxProxies THEN Counted(o) ELSE UNCHANGED faults
            /\ IF o.carried THEN issued' = issued + 1 /\ proxies' = proxies \cup {proxy}
               ELSE UNCHANGED <<issued, proxies>>
            /\ mishap' = (mishap \/ (pinned = None /\ o.carried /\ ~o.answered))
            /\ pass' = IF o.answered THEN [pass EXCEPT ![c].at = "read", ![c].rows = {proxy}]
                       ELSE [pass EXCEPT ![c].at = "loop", ![c].cap = None]
      BY <1>5 DEF Create
    <2>2. faults' \in 0..MaxFaults /\ o.carried \in BOOLEAN /\ o.answered \in BOOLEAN
          /\ (o.carried \/ o.answered => issued < MaxProxies)
      <3>1. CASE issued < MaxProxies
        BY <2>1, <3>1, OutcomeType
      <3>2. CASE ~(issued < MaxProxies)
        <4>1. o = Refusal /\ faults' = faults
          BY <2>1, <3>2
        <4>2. o.carried = FALSE /\ o.answered = FALSE
          BY <4>1 DEF Refusal
        <4>3. QED
          BY <4>1, <4>2
      <3>3. QED
        BY <3>1, <3>2
    <2>3. ASSUME issued < MaxProxies PROVE proxy \in Proxy
      BY <1>0, <1>5, <2>3 DEF Proxy, Create
    <2>4. proxies' \in SUBSET Proxy /\ issued' \in 0..MaxProxies
      BY <2>1, <2>2, <2>3
    <2>5. mishap' \in BOOLEAN
      BY <2>1
    <2>6. pass' \in [Runners -> Pass]
      <3>1. CASE o.answered
        <4>1. [pass[c] EXCEPT !.at = "read", !.rows = {proxy}] \in Pass
          BY <1>0, <2>2, <2>3, <3>1 DEF Pass, Fields
        <4>2. QED
          BY <2>1, <3>1, <4>1
      <3>2. CASE ~o.answered
        <4>1. [pass[c] EXCEPT !.at = "loop", !.cap = None] \in Pass
          BY <1>0 DEF Pass, Fields
        <4>2. QED
          BY <2>1, <3>2, <4>1
      <3>3. QED
        BY <3>1, <3>2
    <2>7. QED
      BY <1>5, <2>2, <2>4, <2>5, <2>6 DEF Create, settings, environment
  <1>6. CASE Mark(c)
    <2>1. [pass[c] EXCEPT !.at = AfterMark(c)] \in Pass
      BY <1>0 DEF Pass, Fields, AfterMark
    <2>2. pass' \in [Runners -> Pass]
      BY <1>6, <2>1 DEF Mark, To
    <2>3. QED
      BY <1>6, <2>2 DEF Mark, railway, environment
  <1>7. CASE Pin(c)
    <2>1. \E o \in Outcomes : /\ Counted(o)
                              /\ pinned' = IF o.carried THEN edge ELSE pinned
                              /\ mishap' = (mishap \/ (pinned = None /\ ~o.carried))
      BY <1>7 DEF Pin
    <2>2. faults' \in 0..MaxFaults /\ mishap' \in BOOLEAN /\ pinned' \in Caps \cup {None, Http}
      BY <2>1, OutcomeType
    <2>3. [pass[c] EXCEPT !.at = "redeploy"] \in Pass
      BY <1>0 DEF Pass, Fields
    <2>4. pass' \in [Runners -> Pass]
      BY <1>7, <2>3 DEF Pin, To
    <2>5. QED
      BY <1>7, <2>2, <2>4 DEF Pin, settings, environment
  <1>8. CASE Redeploy(c)
    <2>1. faults' \in 0..MaxFaults /\ pending' \in BOOLEAN
      BY <1>8, OutcomeType DEF Redeploy
    <2>2. [pass[c] EXCEPT !.at = "log"] \in Pass
      BY <1>0 DEF Pass, Fields
    <2>3. pass' \in [Runners -> Pass]
      BY <1>8, <2>2 DEF Redeploy, To
    <2>4. QED
      BY <1>8, <2>1, <2>3 DEF Redeploy, settings, environment
  <1>9. CASE LogRead(c)
    <2>1. [pass[c] EXCEPT !.at = "logged", !.made = pass[c].made \cup log] \in Pass
      BY <1>0 DEF Pass, Fields
    <2>2. pass' \in [Runners -> Pass]
      BY <1>9, <2>1 DEF LogRead
    <2>3. QED
      BY <1>9, <2>2 DEF LogRead, railway, settings, environment
  <1>10. CASE LogWrite(c)
    <2>1. pass' \in [Runners -> Pass] /\ log' \in SUBSET Caps
      BY <1>0, <1>10, EndRoundType DEF LogWrite
    <2>2. QED
      BY <1>10, <2>1 DEF LogWrite, railway, environment
  <1>11. QED
    BY <1>1, <1>2, <1>3, <1>4, <1>5, <1>6, <1>7, <1>8, <1>9, <1>10 DEF PassStep

\* A step of an update keeps the types.
LEMMA UpdateStepTypes ==
    ASSUME TypeOK, NEW u \in Updaters, StartUpdate(u) \/ UpdateStep(u)
    PROVE  TypeOK'
  <1> DEFINE Updates == [at : UpdateStages, users : SUBSET Users]
             Promises == [accepted : BOOLEAN, edited : BOOLEAN, replaced : BOOLEAN]
  <1> USE BoundsAreNat DEF TypeOK
  <1>0. update \in [Updaters -> Updates] /\ update[u] \in Updates /\ update[u].users \in SUBSET Users
    BY DEF UpdateStages
  <1>1. ASSUME NEW stage \in UpdateStages PROVE [update EXCEPT ![u].at = stage] \in [Updaters -> Updates]
    BY <1>0
  <1>2. ASSUME NEW stage \in UpdateStages, NEW who \in SUBSET Users
        PROVE  [update EXCEPT ![u] = [at |-> stage, users |-> who]] \in [Updaters -> Updates]
    BY <1>0
  <1>3. CASE StartUpdate(u)
    <2>1. update' \in [Updaters -> Updates]
      BY <1>1, <1>3 DEF StartUpdate, UpdateStages
    <2>2. QED
      BY <1>3, <2>1 DEF StartUpdate, UpdateStages, railway, settings, environment
  <1>4. CASE BackUp(u)
    <2>1. update' \in [Updaters -> Updates]
      <3>1. CASE update' = [update EXCEPT ![u] = [at |-> "arm", users |-> users]]
        BY <1>2, <3>1 DEF UpdateStages
      <3>2. CASE update' = [update EXCEPT ![u].at = "idle"]
        BY <1>1, <3>2 DEF UpdateStages
      <3>3. QED
        BY <1>4, <3>1, <3>2 DEF BackUp, Identity
    <2>2. faults' \in 0..MaxFaults
      BY <1>4 DEF BackUp
    <2>4. promise' \in [Updaters -> Promises]
      <3>1. Asked \in Promises
        BY DEF Asked
      <3>2. QED
        BY <1>4, <3>1 DEF BackUp
    <2>3. QED
      BY <1>4, <2>1, <2>2, <2>4 DEF BackUp, UpdateStages, railway, settings, environment
  <1>5. CASE Arm(u)
    <2>1. update' \in [Updaters -> Updates]
      BY <1>2, <1>5 DEF Arm, UpdateStages
    <2>2. guard' \in [users : SUBSET Users, restarted : BOOLEAN] \cup {None}
      BY <1>0, <1>5 DEF Arm
    <2>3. QED
      BY <1>5, <2>1, <2>2 DEF Arm, UpdateStages, railway, environment
  <1>6. CASE Trigger(u)
    <2>1. PICK o \in Outcomes :
            /\ Counted(o)
            /\ pending' = (pending \/ o.carried)
            /\ update' = [update EXCEPT ![u].at = IF o.answered THEN "idle" ELSE "disarm"]
            /\ promise' = [promise EXCEPT ![u].accepted = o.answered]
      BY <1>6 DEF Trigger
    <2>2. update' \in [Updaters -> Updates]
      BY <1>1, <2>1 DEF UpdateStages
    <2>3. faults' \in 0..MaxFaults /\ pending' \in BOOLEAN
      BY <2>1, OutcomeType
    <2>4. promise' \in [Updaters -> Promises]
      BY <2>1, OutcomesAre
    <2>5. QED
      BY <1>6, <2>2, <2>3, <2>4 DEF Trigger, UpdateStages, settings, environment
  <1>7. CASE Disarm(u)
    <2>1. update' \in [Updaters -> Updates]
      BY <1>1, <1>7 DEF Disarm, UpdateStages
    <2>2. QED
      BY <1>7, <2>1 DEF Disarm, UpdateStages, railway, environment
  <1>8. QED
    BY <1>3, <1>4, <1>5, <1>6, <1>7 DEF UpdateStep

\* So does the container that comes next.
LEMMA RestartTypes == TypeOK /\ Restart => TypeOK'
  <1> SUFFICES ASSUME TypeOK, Restart PROVE TypeOK'
    OBVIOUS
  <1> USE BoundsAreNat, SwitchlessAreCaps DEF TypeOK
  <1>1. edge' \in Caps \cup {Http}
    <2>1. Ports(proxies) \in SUBSET Caps
      BY DEF Ports, Proxy
    <2>2. Handed \in SUBSET (Caps \cup {Http})
      BY <2>1 DEF Handed
    <2>3. QED
      BY <2>2 DEF Restart
  <1>2. auto' \in BOOLEAN /\ done' \in BOOLEAN /\ stored' \in Mapping /\ log' \in SUBSET Caps /\ users' \in SUBSET Users
        /\ Always \subseteq enabled' /\ enabled' \subseteq Caps
    BY Mappings DEF Restart
  <1>3. guard' \in [users : SUBSET Users, restarted : BOOLEAN] \cup {None}
    <2>1. CASE guard = None \/ ~durable
      BY <2>1 DEF Restart
    <2>2. CASE guard # None /\ durable
      <3>1. guard \in [users : SUBSET Users, restarted : BOOLEAN] /\ guard' = [guard EXCEPT !.restarted = TRUE]
        BY <2>2 DEF Restart
      <3>2. QED
        BY <3>1
    <2>3. QED
      BY <2>1, <2>2
  <1>4. pass' \in [Runners -> Pass]
    <2>1. BootPass(auto', done') \in Pass /\ Idle \in Pass
      BY <1>2, Passes
    <2>2. QED
      BY <2>1 DEF Restart
  <1>5. update' \in [Updaters -> [at : UpdateStages, users : SUBSET Users]]
    BY DEF Restart, UpdateStages
  <1>8. promise' \in [Updaters -> [accepted : BOOLEAN, edited : BOOLEAN, replaced : BOOLEAN]]
    BY DEF Restart
  <1>6. stops' \in 0..MaxStops /\ pending' \in BOOLEAN /\ mishap' \in BOOLEAN
    <2>1. stops' \in 0..MaxStops
      BY DEF Restart
    <2>2. pending' \in BOOLEAN
      BY DEF Restart
    <2>3. mishap' \in BOOLEAN
      BY DEF Restart
    <2>4. QED
      BY <2>1, <2>2, <2>3
  <1>7. QED
    BY <1>1, <1>2, <1>3, <1>4, <1>5, <1>6, <1>8 DEF Restart, UpdateStages, environment

\* Every step keeps the types.
LEMMA TypesKept == TypeOK /\ [Next]_vars => TypeOK'
  <1> SUFFICES ASSUME TypeOK, [Next]_vars PROVE TypeOK'
    OBVIOUS
  <1> USE DEF TypeOK
  <1>1. ASSUME NEW c \in Passers, RunAutoconfig(c) PROVE TypeOK'
    <2>1. \A n \in {1, 2} : [Idle EXCEPT !.at = "list", !.rounds = n] \in Pass
      BY Passes
    <2>4. PICK n \in {1, 2} : pass' = [pass EXCEPT ![c] = [Idle EXCEPT !.at = "list", !.rounds = n]]
      BY <1>1 DEF RunAutoconfig
    <2>2. pass' \in [Runners -> Pass]
      BY <2>1, <2>4 DEF Runners
    <2>3. QED
      BY <1>1, <2>2 DEF RunAutoconfig, railway, settings, environment
  <1>2. ASSUME NEW c \in Runners, PassStep(c) PROVE TypeOK'
    BY <1>2, PassStepTypes
  <1>3. ASSUME NEW u \in Updaters, StartUpdate(u) \/ UpdateStep(u) PROVE TypeOK'
    BY <1>3, UpdateStepTypes
  <1>4. CASE SetSwitch
    <2>1. enabled' \subseteq Caps /\ Always \subseteq enabled' /\ edits' \in 0..MaxEdits
      BY <1>4, BoundsAreNat DEF SetSwitch, Edit
    <2>2. QED
      BY <1>4, <2>1 DEF SetSwitch, railway, environment
  <1>5. CASE EditUsers
    <2>1. users' \subseteq Users /\ edits' \in 0..MaxEdits
      BY <1>5, BoundsAreNat DEF EditUsers, Edit
    <2>3. promise' \in [Updaters -> [accepted : BOOLEAN, edited : BOOLEAN, replaced : BOOLEAN]]
      BY <1>5 DEF EditUsers
    <2>2. QED
      BY <1>5, <2>1, <2>3 DEF EditUsers, railway, settings, environment
  <1>6. CASE RemoveProxy
    <2>1. proxies' \subseteq Proxy /\ edits' \in 0..MaxEdits
      BY <1>6, BoundsAreNat DEF RemoveProxy, Edit
    <2>2. QED
      BY <1>6, <2>1 DEF RemoveProxy, settings, environment
  <1>7. CASE Restart
    BY <1>7, RestartTypes
  <1>8. CASE UNCHANGED vars
    BY <1>8 DEF vars, railway, settings, environment
  <1>9. QED
    BY <1>1, <1>2, <1>3, <1>4, <1>5, <1>6, <1>7, <1>8 DEF Next

\* Settings, passes and Railway's records keep their shapes through lost answers and
\* restarts, for any capabilities, threads, users and bounds; the base of the others.
THEOREM TypeCorrect == Spec => []TypeOK
  <1>1. Init => TypeOK
    <2>1. SUFFICES ASSUME Init PROVE TypeOK
      OBVIOUS
    <2>2. pass \in [Runners -> Pass]
      <3>1. BootPass(auto, FALSE) \in Pass /\ Idle \in Pass
        BY <2>1, Passes DEF Init
      <3>2. QED
        BY <2>1, <3>1 DEF Init
    <2>3. update \in [Updaters -> [at : UpdateStages, users : SUBSET Users]]
      BY <2>1 DEF Init, UpdateStages
    <2>4. stored \in Mapping /\ proxies \subseteq Proxy /\ issued \in 0..MaxProxies /\ log \subseteq Caps
      BY <2>1, Mappings, BoundsAreNat DEF Init
    <2>5. edits \in 0..MaxEdits /\ faults \in 0..MaxFaults /\ stops \in 0..MaxStops
      BY <2>1, BoundsAreNat DEF Init
    <2>6. promise \in [Updaters -> [accepted : BOOLEAN, edited : BOOLEAN, replaced : BOOLEAN]]
      BY <2>1 DEF Init, Asked
    <2>7. QED
      BY <2>1, <2>2, <2>3, <2>4, <2>5, <2>6, SwitchlessAreCaps DEF Init, TypeOK, UpdateStages
  <1>2. QED
    BY <1>1, TypesKept, PTL DEF Spec

(***************************************************************************)
(* The update.                                                             *)
(***************************************************************************)

\* One thread at most carries out an update.
OneUpdater == \A u, v \in Updaters : u = v

\* Nothing of an update happens on storage that goes with the container.
Kept == (guard # None => durable) /\ \A u \in Updaters : update[u].at # "idle" => durable

\* They are those that were counted, S, unless somebody edited them since.
Counts(S, u) == promise[u].edited \/ S = users

\* What is true of an updater's request, and of its promise, at each of its stages.
Awaited(u) ==
    /\ update[u].at = "arm" =>
        ~promise[u].accepted /\ ~promise[u].replaced /\ Counts(update[u].users, u)
    /\ update[u].at = "trigger" =>
        /\ ~promise[u].accepted /\ ~promise[u].replaced
        /\ guard # None /\ ~guard.restarted /\ Counts(guard.users, u)
    /\ update[u].at = "disarm" => ~promise[u].accepted
    /\ promise[u].accepted =>
        /\ update[u].at \in {"idle", "backup"}
        /\ guard # None /\ guard.restarted = promise[u].replaced /\ Counts(guard.users, u)

Guarded == Kept /\ \A u \in Updaters : Awaited(u)

\* A guard is not None.
LEMMA GuardIsSome == \A S \in SUBSET Users, b \in BOOLEAN : [users |-> S, restarted |-> b] # None
  BY NoneIsNoGuard

\* Every step of the one updater keeps it.
LEMMA UpdateStepGuarded ==
    ASSUME OneUpdater, TypeOK, Guarded, NEW u \in Updaters, StartUpdate(u) \/ UpdateStep(u)
    PROVE  Guarded'
  <1> DEFINE Updates == [at : UpdateStages, users : SUBSET Users]
             Promises == [accepted : BOOLEAN, edited : BOOLEAN, replaced : BOOLEAN]
             w == update[u]
             p == promise[u]
  <1>1. /\ update \in [Updaters -> Updates] /\ promise \in [Updaters -> Promises]
        /\ w \in Updates /\ p \in Promises /\ Kept /\ Awaited(u)
    BY DEF TypeOK, UpdateStages, Guarded
  <1>2. Updaters = {u}
    BY DEF OneUpdater
  <1>3. SUFFICES Kept' /\ Awaited(u)'
    <2>1. ASSUME Kept', Awaited(u)' PROVE Guarded'
      BY <1>2, <2>1 DEF Guarded
    <2>2. QED
      BY <2>1
  <1>4. CASE StartUpdate(u)
    <2>1. update'[u] = [w EXCEPT !.at = "backup"] /\ durable
      BY <1>1, <1>4 DEF StartUpdate, Safe
    <2>2. update'[u].at = "backup"
      BY <1>1, <2>1
    <2>3. UNCHANGED <<guard, durable, users, promise>>
      BY <1>4 DEF StartUpdate, settings, environment
    <2>4. QED
      BY <1>1, <1>2, <2>1, <2>2, <2>3 DEF Kept, Awaited, Counts
  <1>5. CASE BackUp(u)
    <2>1. UNCHANGED <<guard, durable, users>> /\ w.at = "backup"
      BY <1>5 DEF BackUp, settings, environment
    <2>2. durable
      BY <1>1, <2>1 DEF Kept
    <2>3. CASE /\ update' = [update EXCEPT ![u] = [at |-> "arm", users |-> Identity]]
               /\ promise' = [promise EXCEPT ![u] = Asked]
      <3>1. update'[u].at = "arm" /\ update'[u].users = users
            /\ ~promise'[u].accepted /\ ~promise'[u].replaced
        BY <1>1, <2>3 DEF Asked, Identity
      <3>2. QED
        BY <1>1, <1>2, <2>1, <2>2, <3>1 DEF Kept, Awaited, Counts
    <2>4. CASE update' = [update EXCEPT ![u].at = "idle"] /\ promise' = promise
      <3>1. update'[u].at = "idle"
        BY <1>1, <2>4
      <3>2. QED
        BY <1>1, <1>2, <2>1, <2>2, <2>4, <3>1 DEF Kept, Awaited, Counts
    <2>5. QED
      BY <1>5, <2>3, <2>4 DEF BackUp
  <1>6. CASE Arm(u)
    <2>1. UNCHANGED <<durable, users, promise>> /\ w.at = "arm"
      BY <1>6 DEF Arm, environment
    <2>2. guard' = [users |-> w.users, restarted |-> FALSE] /\ update'[u].at = "trigger"
      BY <1>1, <1>6 DEF Arm
    <2>3. guard' # None
      BY <1>1, <2>2, GuardIsSome
    <2>4. guard'.users = w.users /\ guard'.restarted = FALSE
      BY <2>2
    <2>5. durable
      BY <1>1, <2>1 DEF Kept
    <2>6. QED
      BY <1>1, <1>2, <2>1, <2>2, <2>3, <2>4, <2>5 DEF Kept, Awaited, Counts
  <1>7. CASE Trigger(u)
    <2>1. PICK o \in Outcomes : /\ update' = [update EXCEPT ![u].at = IF o.answered THEN "idle" ELSE "disarm"]
                               /\ promise' = [promise EXCEPT ![u].accepted = o.answered]
      BY <1>7 DEF Trigger
    <2>2. UNCHANGED <<guard, durable, users>> /\ w.at = "trigger"
      BY <1>7 DEF Trigger, settings, environment
    <2>3. /\ update'[u].at = IF o.answered THEN "idle" ELSE "disarm"
          /\ promise'[u].accepted = o.answered /\ promise'[u].replaced = p.replaced /\ promise'[u].edited = p.edited
      BY <1>1, <2>1
    <2>4. o.answered \in BOOLEAN
      BY OutcomesAre
    <2>5. Kept'
      BY <1>1, <1>2, <2>2 DEF Kept
    <2>6. ~p.replaced /\ guard # None /\ ~guard.restarted /\ Counts(guard.users, u)
      BY <1>1, <2>2 DEF Awaited
    <2>7. guard.restarted \in BOOLEAN /\ p.replaced \in BOOLEAN
      BY <1>1, <2>6 DEF TypeOK
    <2>8. guard.restarted = p.replaced
      BY <2>6, <2>7
    <2>9. QED
      BY <2>2, <2>3, <2>4, <2>5, <2>6, <2>8 DEF Awaited, Counts
  <1>8. CASE Disarm(u)
    <2>1. UNCHANGED <<durable, users, promise>> /\ w.at = "disarm" /\ guard' = None
      BY <1>8 DEF Disarm, environment
    <2>2. update'[u].at = "idle"
      BY <1>1, <1>8 DEF Disarm
    <2>3. QED
      BY <1>1, <1>2, <2>1, <2>2 DEF Kept, Awaited
  <1>9. QED
    BY <1>4, <1>5, <1>6, <1>7, <1>8 DEF UpdateStep

\* So does the container that comes next: what is durable survives it.
LEMMA RestartGuarded == TypeOK /\ Guarded /\ Restart => Guarded'
  <1> SUFFICES ASSUME TypeOK, Guarded, Restart PROVE Guarded'
    OBVIOUS
  <1>1. durable' = durable /\ \A u \in Updaters : update'[u].at = "idle"
    BY DEF Restart, environment
  <1>2. \A u \in Updaters : /\ promise'[u].accepted = promise[u].accepted
                           /\ promise'[u].edited = promise[u].edited
                           /\ promise'[u].replaced = TRUE
    BY DEF Restart, TypeOK
  <1>3. Kept'
    BY <1>1 DEF Restart, Guarded, Kept
  <1>4. ASSUME NEW u \in Updaters, promise[u].accepted
        PROVE  guard' # None /\ guard'.restarted = TRUE /\ Counts(guard.users, u)'
    <2>1. guard # None /\ Counts(guard.users, u)
      BY <1>4 DEF Guarded, Awaited
    <2>2. durable
      BY <2>1 DEF Guarded, Kept
    <2>3. guard' = [guard EXCEPT !.restarted = TRUE] /\ users' = users
      BY <2>1, <2>2 DEF Restart
    <2>4. guard \in [users : SUBSET Users, restarted : BOOLEAN]
      BY <2>1 DEF TypeOK
    <2>5. guard' = [users |-> guard.users, restarted |-> TRUE]
      BY <2>3, <2>4
    <2>6. guard' # None
      BY <2>4, <2>5, GuardIsSome
    <2>7. guard'.restarted = TRUE /\ guard'.users = guard.users
      BY <2>5
    <2>8. QED
      BY <1>2, <2>1, <2>3, <2>6, <2>7 DEF Counts
  <1>5. QED
    BY <1>1, <1>2, <1>3, <1>4 DEF Guarded, Awaited

\* Every step does.
LEMMA GuardedKept == ASSUME OneUpdater, TypeOK, Guarded, [Next]_vars PROVE Guarded'
  <1>1. ASSUME UNCHANGED <<guard, update, durable, users, promise>> PROVE Guarded'
    BY <1>1 DEF Guarded, Kept, Awaited, Counts
  <1>2. ASSUME NEW c \in Runners, PassStep(c) PROVE UNCHANGED <<guard, update, durable, users, promise>>
    BY <1>2 DEF PassStep, List, MergeRead, MergeWrite, Select, Create, Mark, Pin, Redeploy, LogRead, LogWrite,
                settings, environment
  <1>3. CASE EditUsers
    <2>1. UNCHANGED <<guard, update, durable>>
      BY <1>3 DEF EditUsers, settings, environment
    <2>2. \A u \in Updaters : /\ promise'[u].accepted = promise[u].accepted
                             /\ promise'[u].replaced = promise[u].replaced
                             /\ promise'[u].edited = TRUE
      BY <1>3 DEF EditUsers, TypeOK
    <2>3. QED
      BY <2>1, <2>2 DEF Guarded, Kept, Awaited, Counts
  <1>4. CASE (\E c \in Passers : RunAutoconfig(c)) \/ SetSwitch \/ RemoveProxy \/ UNCHANGED vars
    <2>1. UNCHANGED <<guard, update, durable, users, promise>>
      BY <1>4 DEF RunAutoconfig, SetSwitch, RemoveProxy, vars, settings, environment
    <2>2. QED
      BY <1>1, <2>1
  <1>5. QED
    BY <1>1, <1>2, <1>3, <1>4, UpdateStepGuarded, RestartGuarded DEF Next

\* While updates do not overlap: who was told that an update is on its way finds the
\* guard, and in it the verdict that the links are preserved, for any users, passes and
\* restarts between its steps (self_update.py, apply and _guard).
THEOREM UpdatesAreVerified == ASSUME OneUpdater PROVE Spec => []UpdateIsVerified
  <1>1. Init => Guarded
    BY DEF Init, Guarded, Kept, Awaited, Asked
  <1>2. TypeOK /\ Guarded /\ [Next]_vars => Guarded'
    BY OneUpdater, GuardedKept
  <1>3. Guarded => UpdateIsVerified
    BY DEF Guarded, Awaited, Counts, UpdateIsVerified, LinksPreserved, Identity
  <1>4. QED
    BY <1>1, <1>2, <1>3, TypeCorrect, PTL DEF Spec

(***************************************************************************)
(* The HTTP edge.                                                          *)
(***************************************************************************)

\* Without a mishap the container has its own port, and so will the next: there is
\* no proxy, or PORT is stored, or a pass is about to store it.
EdgeKept ==
    ~mishap => /\ edge = Http /\ pinned \in {None, Http}
               /\ proxies # {} /\ pinned = None => \E c \in Runners : Pinning(pass[c])

\* A step of a pass on its way to the pin stays there, pins, or has a mishap.
LEMMA PinningKept ==
    ASSUME TypeOK, NEW c \in Runners, PassStep(c), EdgeKept, ~mishap'
    PROVE  /\ ~mishap /\ edge' = edge /\ \A d \in Runners \ {c} : pass'[d] = pass[d]
           /\ pinned' = pinned \/ pinned' = Http
           /\ Pinning(pass[c]) => Pinning(pass'[c]) \/ pinned' = Http
           /\ proxies' = proxies \/ Pinning(pass'[c]) \/ pinned' = Http
  <1>0. /\ pass \in [Runners -> Pass] /\ pass[c] \in Fields /\ (pass[c].at = "create" => pass[c].cap # None)
        /\ pass[c].at \in Stages /\ pass[c].cap \in Caps \cup {None} /\ pass[c].made \in SUBSET Caps
    BY DEF TypeOK, Pass, Fields, Stages
  <1>1. CASE List(c)
    <2>1. ~Pinning(pass[c])
      BY <1>1 DEF List, Pinning
    <2>2. \A d \in Runners \ {c} : pass'[d] = pass[d]
      BY <1>0, <1>1 DEF List, EndRound
    <2>3. QED
      BY <1>1, <2>1, <2>2 DEF List, railway
  <1>2. CASE MergeRead(c)
    BY <1>0, <1>2 DEF MergeRead, railway, Pinning, Pass, Fields
  <1>3. CASE MergeWrite(c)
    <2>1. pass'[c].at = "loop"
          /\ pass'[c].made = IF pass[c].cap = None THEN pass[c].made ELSE pass[c].made \cup {pass[c].cap}
      BY <1>0, <1>3 DEF MergeWrite, Pass, Fields
    <2>2. \A d \in Runners \ {c} : pass'[d] = pass[d]
      BY <1>0, <1>3 DEF MergeWrite
    <2>3. UNCHANGED <<proxies, pinned, edge, mishap>> /\ pass[c].at = "write"
      BY <1>3 DEF MergeWrite, railway
    <2>4. QED
      BY <2>1, <2>2, <2>3 DEF Pinning
  <1>4. CASE Select(c)
    <2>1. pass'[c].at \in {"loop", "create"} /\ pass'[c].made = pass[c].made /\ pass[c].at = "loop"
      BY <1>0, <1>4 DEF Select, Pass, Fields
    <2>2. \A d \in Runners \ {c} : pass'[d] = pass[d]
      BY <1>0, <1>4 DEF Select
    <2>3. QED
      BY <1>4, <2>1, <2>2 DEF Select, railway, Pinning
  <1>5. CASE Create(c)
    <2> DEFINE proxy == [port |-> pass[c].cap, public |-> issued + 1]
    <2>1. PICK o \in IF issued < MaxProxies THEN Outcomes ELSE {Refusal} :
            /\ IF o.carried THEN issued' = issued + 1 /\ proxies' = proxies \cup {proxy}
               ELSE UNCHANGED <<issued, proxies>>
            /\ mishap' = (mishap \/ (pinned = None /\ o.carried /\ ~o.answered))
            /\ pass' = IF o.answered THEN [pass EXCEPT ![c].at = "read", ![c].rows = {proxy}]
                       ELSE [pass EXCEPT ![c].at = "loop", ![c].cap = None]
      BY <1>5 DEF Create
    <2>3. UNCHANGED <<pinned, edge>> /\ pass[c].at = "create"
      BY <1>5 DEF Create
    <2>2. ~mishap /\ (o.carried => o.answered \/ pinned' = Http)
      BY <2>1, <2>3 DEF EdgeKept
    <2>4. CASE o.answered
      <3>1. pass'[c].at = "read" /\ pass'[c].cap = pass[c].cap
        BY <1>0, <2>1, <2>4 DEF Pass, Fields
      <3>2. \A d \in Runners \ {c} : pass'[d] = pass[d]
        BY <1>0, <2>1, <2>4
      <3>3. QED
        BY <1>0, <2>2, <2>3, <3>1, <3>2 DEF Pinning
    <2>5. CASE ~o.answered
      <3>1. pass'[c].at = "loop" /\ pass'[c].made = pass[c].made /\ (proxies' = proxies \/ pinned' = Http)
        BY <1>0, <2>1, <2>2, <2>5 DEF Pass, Fields
      <3>2. \A d \in Runners \ {c} : pass'[d] = pass[d]
        BY <1>0, <2>1, <2>5
      <3>3. QED
        BY <2>2, <2>3, <3>1, <3>2 DEF Pinning
    <2>6. QED
      BY <2>4, <2>5
  <1>6. CASE Mark(c)
    <2>1. pass'[c].at = AfterMark(c) /\ pass'[c].made = pass[c].made /\ pass[c].at = "loop"
      BY <1>0, <1>6 DEF Mark, To, Pass, Fields
    <2>2. \A d \in Runners \ {c} : pass'[d] = pass[d]
      BY <1>0, <1>6 DEF Mark, To
    <2>3. QED
      BY <1>6, <2>1, <2>2 DEF Mark, railway, Pinning, AfterMark
  <1>7. CASE Pin(c)
    <2>1. \A d \in Runners \ {c} : pass'[d] = pass[d]
      BY <1>0, <1>7 DEF Pin, To
    <2>2. ~mishap /\ pinned' = Http
      BY <1>7 DEF Pin, EdgeKept
    <2>3. QED
      BY <1>7, <2>1, <2>2 DEF Pin, EdgeKept
  <1>8. CASE Redeploy(c) \/ LogRead(c) \/ LogWrite(c)
    <2>1. ~Pinning(pass[c])
      BY <1>8 DEF Redeploy, LogRead, LogWrite, Pinning
    <2>2. \A d \in Runners \ {c} : pass'[d] = pass[d]
      BY <1>0, <1>8 DEF Redeploy, LogRead, LogWrite, To, EndRound
    <2>3. QED
      BY <1>8, <2>1, <2>2 DEF Redeploy, LogRead, LogWrite, railway
  <1>9. QED
    BY <1>1, <1>2, <1>3, <1>4, <1>5, <1>6, <1>7, <1>8 DEF PassStep

\* The HTTP edge of every container serves, as long as no answer of a create was lost,
\* no pin refused and no pass cut short, whatever order deployments, stops and updates
\* come in (autoconfig.py, railway_ports; railway.py, pin_http_port).
THEOREM EdgesServe == Spec => []EdgeServes
  <1>1. Init => EdgeKept
    BY DEF Init, EdgeKept
  <1>2. TypeOK /\ EdgeKept /\ [Next]_vars => EdgeKept'
    <2>1. SUFFICES ASSUME TypeOK, EdgeKept, [Next]_vars, ~mishap' PROVE EdgeKept'
      BY DEF EdgeKept
    <2>2. ASSUME NEW c \in Runners, PassStep(c) PROVE EdgeKept'
      <3>1. /\ ~mishap /\ edge' = edge /\ \A d \in Runners \ {c} : pass'[d] = pass[d]
            /\ pinned' = pinned \/ pinned' = Http
            /\ Pinning(pass[c]) => Pinning(pass'[c]) \/ pinned' = Http
            /\ proxies' = proxies \/ Pinning(pass'[c]) \/ pinned' = Http
        BY <2>1, <2>2, PinningKept
      <3>2. edge' = Http /\ pinned' \in {None, Http}
        BY <2>1, <3>1 DEF EdgeKept
      <3>3. ASSUME proxies' # {}, pinned' = None PROVE \E d \in Runners : Pinning(pass'[d])
        <4>1. pinned = None
          BY <3>1, <3>3, HttpIsApart
        <4>2. CASE Pinning(pass'[c])
          BY <4>2
        <4>3. CASE ~Pinning(pass'[c])
          <5>1. proxies # {} /\ ~Pinning(pass[c])
            BY <3>1, <3>3, <4>3, HttpIsApart
          <5>2. PICK d \in Runners : Pinning(pass[d])
            BY <2>1, <3>1, <4>1, <5>1 DEF EdgeKept
          <5>3. QED
            BY <3>1, <5>1, <5>2
        <4>4. QED
          BY <4>2, <4>3
      <3>4. QED
        BY <3>2, <3>3 DEF EdgeKept
    <2>3. ASSUME NEW c \in Passers, RunAutoconfig(c) PROVE EdgeKept'
      <3>1. UNCHANGED <<mishap, edge, pinned, proxies>> /\ ~Pinning(pass[c]) /\ c \in Runners
        BY <2>3 DEF RunAutoconfig, railway, Pinning, Runners
      <3>2. \A d \in Runners \ {c} : pass'[d] = pass[d]
        BY <2>1, <2>3 DEF RunAutoconfig, TypeOK
      <3>3. QED
        BY <2>1, <3>1, <3>2 DEF EdgeKept
    <2>4. ASSUME NEW u \in Updaters, StartUpdate(u) \/ UpdateStep(u) PROVE EdgeKept'
      BY <2>1, <2>4 DEF StartUpdate, UpdateStep, BackUp, Arm, Trigger, Disarm, railway, EdgeKept
    <2>5. CASE SetSwitch \/ EditUsers
      BY <2>1, <2>5 DEF SetSwitch, EditUsers, railway, EdgeKept
    <2>6. CASE RemoveProxy
      BY <2>1, <2>6 DEF RemoveProxy, EdgeKept
    <2>7. CASE Restart
      <3>1. ~mishap /\ ~CutShort /\ UNCHANGED <<pinned, proxies>>
        BY <2>1, <2>7 DEF Restart
      <3>2. pinned = None => \A c \in Runners : ~Pinning(pass[c])
        BY <3>1 DEF CutShort
      <3>3. proxies = {} \/ pinned = Http
        BY <2>1, <3>1, <3>2 DEF EdgeKept
      <3>4. pinned \in {None, Http}
        BY <2>1, <3>1 DEF EdgeKept
      <3>5. Handed = {Http}
        BY <3>3, <3>4, HttpIsApart DEF Handed
      <3>6. edge' = Http
        BY <2>7, <3>5 DEF Restart
      <3>7. QED
        BY <3>1, <3>3, <3>4, <3>6, HttpIsApart DEF EdgeKept
    <2>8. CASE UNCHANGED vars
      BY <2>1, <2>8 DEF vars, railway, EdgeKept
    <2>9. QED
      BY <2>1, <2>2, <2>3, <2>4, <2>5, <2>6, <2>7, <2>8 DEF Next
  <1>3. EdgeKept => EdgeServes
    BY DEF EdgeKept, EdgeServes
  <1>4. QED
    BY <1>1, <1>2, <1>3, TypeCorrect, PTL DEF Spec

(***************************************************************************)
(* Proxies, while an admin's passes do not overlap.                        *)
(***************************************************************************)

\* One thread at most runs the pass of an admin's request.
OnePasser == \A c, d \in Passers : c = d

Alone == \A c, d \in Runners : pass[c].at # "idle" /\ pass[d].at # "idle" => c = d

\* What a merge is about to extend is what is stored.
Fresh(p) == p.at = "write" => p.items = stored

\* What has a proxy at Railway is known when it matters: in the answer that will be
\* merged, or in the mapping before it can be selected for creation.
Known(p) ==
    /\ p.at = "list" => p.cap = None
    /\ p.at \in {"read", "write"} /\ p.cap = None => Ports(proxies) \subseteq Ports(p.rows)
    /\ (p.at \in {"read", "write"} /\ p.cap # None) \/ p.at \in {"loop", "create"} =>
         Ports(proxies) \cap p.todo \subseteq DOMAIN stored
    /\ p.at \in {"read", "write", "create"} /\ p.cap # None => p.cap \notin p.todo
    /\ p.at = "create" => p.cap \notin Ports(proxies)

Orderly == Alone /\ OneProxyPerPort /\ \A c \in Runners : Fresh(pass[c]) /\ Known(pass[c])

\* A pass that has not begun, or just has.
Beginning(p) == p.at \in {"idle", "list"} /\ p.cap = None

\* Such is the pass of a fresh container.
LEMMA BootBegins == Idle.at = "idle" /\ Idle.cap = None /\ \A a, d : Beginning(BootPass(a, d))
  <1>1. Idle.at = "idle" /\ Idle.cap = None
    BY DEF Idle
  <1>2. Beginning(Idle)
    BY DEF Idle, Beginning
  <1>3. Beginning([Idle EXCEPT !.at = "list", !.rounds = 1])
    BY DEF Idle, Beginning
  <1>4. QED
    BY <1>1, <1>2, <1>3 DEF BootPass

\* The end of a pass, or the start of its second round.
LEMMA EndsOrderly ==
    ASSUME pass \in [Runners -> Pass], NEW c \in Runners, EndRound(c)
    PROVE  /\ Beginning(pass'[c])
           /\ \A d \in Runners \ {c} : pass'[d] = pass[d]
  BY DEF EndRound, Idle, Beginning

\* What every step of a pass does.
LEMMA PassStepOrderly ==
    ASSUME TypeOK, Orderly, NEW c \in Runners, PassStep(c)
    PROVE  /\ pass[c].at # "idle" /\ \A d \in Runners \ {c} : pass'[d] = pass[d]
           /\ OneProxyPerPort' /\ Fresh(pass[c])' /\ Known(pass[c])'
  <1>0. /\ pass \in [Runners -> Pass] /\ pass[c] \in Fields /\ (pass[c].at = "create" => pass[c].cap # None)
        /\ pass[c].at \in Stages /\ pass[c].cap \in Caps \cup {None} /\ pass[c].todo \in SUBSET Caps
        /\ pass[c].rows \in SUBSET Proxy /\ pass[c].items \in Mapping
    BY DEF TypeOK, Pass, Fields, Stages
  <1>1. Fresh(pass[c]) /\ Known(pass[c]) /\ OneProxyPerPort
    BY DEF Orderly
  <1>2. CASE List(c)
    <2>1. UNCHANGED <<proxies, stored>> /\ pass[c].at = "list"
      BY <1>2 DEF List, railway, settings
    <2>2. CASE pass' = [pass EXCEPT ![c].at = "read", ![c].rows = proxies]
      <3>1. pass'[c].at = "read" /\ pass'[c].rows = proxies /\ pass'[c].cap = pass[c].cap
            /\ \A d \in Runners \ {c} : pass'[d] = pass[d]
        BY <1>0, <2>2 DEF Fields
      <3>2. QED
        BY <1>1, <2>1, <3>1 DEF Fresh, Known, OneProxyPerPort
    <2>3. CASE EndRound(c)
      <3>1. Beginning(pass'[c]) /\ \A d \in Runners \ {c} : pass'[d] = pass[d]
        BY <1>0, <2>3, EndsOrderly
      <3>2. QED
        BY <1>1, <2>1, <3>1 DEF Fresh, Known, OneProxyPerPort, Beginning
    <2>4. QED
      BY <1>2, <2>2, <2>3 DEF List
  <1>3. CASE MergeRead(c)
    <2>1. pass'[c] = [pass[c] EXCEPT !.at = "write", !.items = stored] /\ \A d \in Runners \ {c} : pass'[d] = pass[d]
      BY <1>0, <1>3 DEF MergeRead
    <2>2. pass'[c].at = "write" /\ pass'[c].items = stored /\ pass'[c].cap = pass[c].cap
          /\ pass'[c].rows = pass[c].rows /\ pass'[c].todo = pass[c].todo
      BY <1>0, <2>1 DEF Fields
    <2>3. UNCHANGED <<proxies, stored>> /\ pass[c].at = "read"
      BY <1>3 DEF MergeRead, railway, settings
    <2>4. QED
      BY <1>1, <2>1, <2>2, <2>3 DEF Fresh, Known, OneProxyPerPort
  <1>4. CASE MergeWrite(c)
    <2>1. /\ pass'[c].at = "loop"
          /\ pass'[c].todo = IF pass[c].cap = None THEN Catalog ELSE pass[c].todo
          /\ \A d \in Runners \ {c} : pass'[d] = pass[d]
      BY <1>0, <1>4 DEF MergeWrite, Pass, Fields
    <2>2. proxies' = proxies /\ pass[c].at = "write"
      BY <1>4 DEF MergeWrite, railway
    <2>7. \/ stored' = Merged(pass[c].items, pass[c].rows)
          \/ /\ Merged(pass[c].items, pass[c].rows) = pass[c].items
             /\ stored' = stored
      BY <1>4 DEF MergeWrite
    <2>3. pass[c].items = stored
      BY <1>1, <2>2 DEF Fresh
    <2>4. DOMAIN stored' = DOMAIN stored \cup Ports(pass[c].rows)
      BY <1>0, <2>3, <2>7, MergedType
    <2>5. Ports(proxies) \cap pass'[c].todo \subseteq DOMAIN stored'
      BY <1>1, <2>1, <2>2, <2>4 DEF Known
    <2>6. QED
      BY <1>1, <2>1, <2>2, <2>4, <2>5 DEF Fresh, Known, OneProxyPerPort
  <1>5. CASE Select(c)
    <2>1. PICK p \in pass[c].todo :
            pass' = [pass EXCEPT ![c].todo = pass[c].todo \ {p}, ![c].at = IF Proxied(p) THEN "loop" ELSE "create",
                                 ![c].cap = IF Proxied(p) THEN None ELSE p]
      BY <1>5 DEF Select
    <2>2. /\ pass'[c].todo = pass[c].todo \ {p} /\ pass'[c].at = IF Proxied(p) THEN "loop" ELSE "create"
          /\ pass'[c].cap = IF Proxied(p) THEN None ELSE p
          /\ \A d \in Runners \ {c} : pass'[d] = pass[d]
      BY <1>0, <2>1 DEF Pass, Fields
    <2>3. UNCHANGED <<proxies, stored>> /\ pass[c].at = "loop"
      BY <1>5 DEF Select, railway, settings
    <2>4. ~Proxied(p) => p \notin Ports(proxies)
      BY <1>1, <2>3 DEF Known, Proxied
    <2>5. QED
      BY <1>1, <2>2, <2>3, <2>4 DEF Fresh, Known, OneProxyPerPort
  <1>6. CASE Create(c)
    <2> DEFINE proxy == [port |-> pass[c].cap, public |-> issued + 1]
    <2>1. PICK o \in IF issued < MaxProxies THEN Outcomes ELSE {Refusal} :
            /\ IF o.carried THEN issued' = issued + 1 /\ proxies' = proxies \cup {proxy}
               ELSE UNCHANGED <<issued, proxies>>
            /\ pass' = IF o.answered THEN [pass EXCEPT ![c].at = "read", ![c].rows = {proxy}]
                       ELSE [pass EXCEPT ![c].at = "loop", ![c].cap = None]
      BY <1>6 DEF Create
    <2>2. pass[c].at = "create" /\ stored' = stored
      BY <1>6 DEF Create, settings
    <2>3. pass[c].cap \notin Ports(proxies) /\ pass[c].cap \notin pass[c].todo /\ pass[c].cap # None
          /\ Ports(proxies) \cap pass[c].todo \subseteq DOMAIN stored
      BY <1>0, <1>1, <2>2 DEF Known
    <2>4. Ports(proxies') \subseteq Ports(proxies) \cup {pass[c].cap} /\ OneProxyPerPort'
      <3>1. CASE proxies' = proxies
        BY <1>1, <3>1 DEF OneProxyPerPort
      <3>2. CASE proxies' = proxies \cup {proxy}
        <4>1. proxy.port = pass[c].cap
          OBVIOUS
        <4>2. \A r \in proxies : r.port # pass[c].cap
          BY <2>3 DEF Ports
        <4>3. QED
          BY <1>1, <3>2, <4>1, <4>2 DEF OneProxyPerPort, Ports
      <3>3. QED
        BY <2>1, <3>1, <3>2
    <2>5. /\ \/ pass'[c].at = "read" /\ pass'[c].cap = pass[c].cap
             \/ pass'[c].at = "loop"
          /\ pass'[c].todo = pass[c].todo
          /\ \A d \in Runners \ {c} : pass'[d] = pass[d]
      <3>1. CASE o.answered
        BY <1>0, <2>1, <3>1 DEF Pass, Fields
      <3>2. CASE ~o.answered
        BY <1>0, <2>1, <3>2 DEF Pass, Fields
      <3>3. QED
        BY <3>1, <3>2
    <2>6. QED
      BY <2>2, <2>3, <2>4, <2>5 DEF Fresh, Known
  <1>7. CASE Mark(c) \/ Pin(c) \/ Redeploy(c) \/ LogRead(c) \/ LogWrite(c)
    <2>1. UNCHANGED <<proxies, stored>> /\ pass[c].at \in {"loop", "pin", "redeploy", "log", "logged"}
      BY <1>7 DEF Mark, Pin, Redeploy, LogRead, LogWrite, railway, settings
    <2>2. (pass'[c].at \in {"log", "pin", "redeploy", "logged"} \/ Beginning(pass'[c]))
          /\ \A d \in Runners \ {c} : pass'[d] = pass[d]
      <3>1. CASE Mark(c)
        BY <1>0, <3>1 DEF Mark, To, AfterMark, Pass, Fields
      <3>2. CASE Pin(c) \/ Redeploy(c)
        BY <1>0, <3>2 DEF Pin, Redeploy, To, Pass, Fields
      <3>3. CASE LogRead(c)
        BY <1>0, <3>3 DEF LogRead, Pass, Fields
      <3>4. CASE LogWrite(c)
        BY <1>0, <3>4, EndsOrderly DEF LogWrite
      <3>5. QED
        BY <1>7, <3>1, <3>2, <3>3, <3>4
    <2>3. QED
      BY <1>1, <2>1, <2>2 DEF Fresh, Known, OneProxyPerPort, Beginning
  <1>8. QED
    BY <1>2, <1>3, <1>4, <1>5, <1>6, <1>7 DEF PassStep

\* Every step keeps the order.
LEMMA OrderlyKept ==
    ASSUME OnePasser, TypeOK, Orderly, [Next]_vars
    PROVE  Orderly'
  <1>1. ASSUME NEW c \in Runners, PassStep(c)
        PROVE  Orderly'
    <2>1. /\ pass[c].at # "idle" /\ \A d \in Runners \ {c} : pass'[d] = pass[d]
          /\ OneProxyPerPort' /\ Fresh(pass[c])' /\ Known(pass[c])'
      BY <1>1, PassStepOrderly
    <2>2. \A d \in Runners \ {c} : pass'[d].at = "idle"
      BY <2>1 DEF Orderly, Alone
    <2>3. \A d \in Runners \ {c} : Fresh(pass[d])' /\ Known(pass[d])'
      BY <2>2 DEF Fresh, Known
    <2>4. Alone'
      BY <2>2 DEF Alone
    <2>5. QED
      BY <2>1, <2>3, <2>4 DEF Orderly
  <1>2. ASSUME NEW c \in Passers, RunAutoconfig(c)
        PROVE  Orderly'
    <2>1. UNCHANGED <<proxies, stored>> /\ pass[c].at = "idle" /\ pass[Boot].at = "idle"
      BY <1>2 DEF RunAutoconfig, Serving, railway, settings
    <2>2. pass'[c].at = "list" /\ pass'[c].cap = None /\ \A d \in Runners \ {c} : pass'[d] = pass[d]
      BY <1>2 DEF RunAutoconfig, TypeOK, Runners, Idle
    <2>3. \A d \in Runners \ {c} : d = Boot
      BY OnePasser DEF OnePasser, Runners
    <2>4. Alone'
      BY <2>1, <2>2, <2>3 DEF Alone
    <2>5. \A d \in Runners : Fresh(pass[d])' /\ Known(pass[d])'
      BY <2>1, <2>2, <2>3 DEF Fresh, Known
    <2>6. QED
      BY <2>1, <2>4, <2>5 DEF Orderly, OneProxyPerPort
  <1>3. CASE (\E u \in Updaters : StartUpdate(u) \/ UpdateStep(u)) \/ SetSwitch \/ EditUsers \/ UNCHANGED vars
    <2>1. UNCHANGED <<pass, proxies, stored>>
      BY <1>3 DEF StartUpdate, UpdateStep, BackUp, Arm, Trigger, Disarm, SetSwitch, EditUsers, vars, railway, settings
    <2>2. \A d \in Runners : Fresh(pass[d])' /\ Known(pass[d])'
      BY <2>1 DEF Orderly, Fresh, Known
    <2>3. QED
      BY <2>1, <2>2 DEF Orderly, Alone, OneProxyPerPort
  <1>4. CASE RemoveProxy
    <2>1. proxies' \subseteq proxies /\ UNCHANGED <<pass, stored>>
      BY <1>4 DEF RemoveProxy, settings
    <2>2. Ports(proxies') \subseteq Ports(proxies)
      BY <2>1 DEF Ports
    <2>3. \A d \in Runners : Fresh(pass[d])' /\ Known(pass[d])'
      BY <2>1, <2>2 DEF Orderly, Fresh, Known
    <2>4. QED
      BY <2>1, <2>3 DEF Orderly, Alone, OneProxyPerPort
  <1>5. CASE Restart
    <2>1. proxies' = proxies /\ (durable => stored' = stored)
      BY <1>5 DEF Restart
    <2>2. \A d \in Runners : pass'[d] = IF d = Boot THEN BootPass(auto', done') ELSE Idle
      BY <1>5 DEF Restart
    <2>3. \A d \in Runners : Beginning(pass'[d]) /\ (d # Boot => pass'[d].at = "idle")
      BY <2>2, BootBegins DEF Beginning
    <2>4. Alone'
      BY <2>3 DEF Alone
    <2>5. \A d \in Runners : Fresh(pass[d])' /\ Known(pass[d])'
      BY <2>3 DEF Fresh, Known, Beginning
    <2>6. QED
      BY <2>1, <2>4, <2>5 DEF Orderly, OneProxyPerPort
  <1>6. QED
    BY <1>1, <1>2, <1>3, <1>4, <1>5 DEF Next

\* It holds from the start.
LEMMA OrderlyInit == Init => Orderly
  <1>1. SUFFICES ASSUME Init PROVE Orderly
    OBVIOUS
  <1>2. \A d \in Runners : Beginning(pass[d]) /\ (d # Boot => pass[d].at = "idle")
    BY <1>1, BootBegins DEF Init, Beginning
  <1>3. \A d \in Runners : Fresh(pass[d]) /\ Known(pass[d])
    BY <1>2 DEF Fresh, Known, Beginning
  <1>4. QED
    BY <1>1, <1>2, <1>3 DEF Init, Orderly, Alone, OneProxyPerPort

\* While an admin's passes do not overlap, a port gets at most one proxy, for any
\* number of capabilities, lost answers and restarts (autoconfig.py, railway_ports).
THEOREM OneProxyEach == ASSUME OnePasser PROVE Spec => []OneProxyPerPort
  <1>1. TypeOK /\ Orderly /\ [Next]_vars => Orderly'
    BY OnePasser, OrderlyKept
  <1>2. Orderly => OneProxyPerPort
    BY DEF Orderly
  <1>3. QED
    BY <1>1, <1>2, OrderlyInit, TypeCorrect, PTL DEF Spec

=============================================================================
