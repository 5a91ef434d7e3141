------------------------- MODULE NodeCatalogProofs -------------------------
(***************************************************************************)
(* Proofs about NodeCatalog, for any locations, addresses and bounds: the  *)
(* shape of its state; and, while no thread runs inside another's rebuild, *)
(* that what was picked and never left the plan is published, and nothing  *)
(* that was not picked.                                                    *)
(***************************************************************************)
EXTENDS NodeCatalog, Integers, TLAPS

(***************************************************************************)
(* The types.                                                              *)
(***************************************************************************)

\* What a rebuild has yet to do is in its plan, and it is at some node or at none.
JobOK(j) ==
    /\ j \in Job
    /\ \A n \in j.todo : j.plan[n] # None
    /\ j.pc \in {"enable", "mark"} => j.cur \in Names

Types ==
    /\ TypeOK
    /\ \A y \in Syncers : JobOK(job[y])

(***************************************************************************)
(* What holds while the rebuilds do not interleave.                        *)
(***************************************************************************)

Serial ==
    /\ \A y, z \in Syncers : y # z => job[y].pc = "idle" \/ job[z].pc = "idle"
    /\ half # None => \A y \in Syncers : job[y].pc = "idle"

\* What is kept is in the plan, as it is now.
KeptPlanned == \A n \in kept : Planned(n)

\* The kept names are in P, and P was picked.
Between(P) == kept \subseteq P /\ P \subseteq picked

\* Nobody rebuilds: what is published was picked, and what is kept is published.
Resting == (\A y \in Syncers : job[y].pc = "idle") => Between(Published)

\* A rebuild remembers the picks it parks, and gives back those it is done with.
Rebuilding(y) ==
    /\ job[y].pc = "disable" => job[y].before = Published /\ Between(Published)
    /\ job[y].pc = "plan" => Published = {} /\ Between(job[y].before)
    /\ job[y].pc \in {"upsert", "enable", "mark"} =>
        /\ \A n \in kept : job[y].plan[n] # None
        /\ \A n \in job[y].todo : n \in kept => n \in job[y].before
        /\ \A n \in job[y].todo : n \in job[y].before => n \in picked
    /\ job[y].pc \in {"upsert", "mark"} => Published \subseteq picked /\ kept \subseteq Published \cup job[y].todo
    /\ job[y].pc = "enable" =>
        /\ Published \subseteq picked \cup {job[y].cur}
        /\ kept \subseteq Published \cup job[y].todo \cup {job[y].cur}
        /\ job[y].cur \in kept => job[y].cur \in job[y].before
        /\ job[y].cur \in job[y].before => job[y].cur \in picked
        /\ job[y].plan[job[y].cur] # None
        /\ Exists(job[y].cur)
        /\ job[y].cur \notin job[y].todo

Faithful ==
    /\ Serial
    /\ KeptPlanned
    /\ crashes = 0 => Resting /\ \A y \in Syncers : Rebuilding(y)

(***************************************************************************)
(***************************************************************************)
(* Types.                                                                  *)
(***************************************************************************)

NodeTypes ==
    /\ node \in [Names -> Row \cup {None}]
    /\ ping \in [Names -> Row \cup {None}]
    /\ half \in (Names \X BOOLEAN) \cup {None}
    /\ picked \in SUBSET Names /\ kept \in SUBSET Names

JobTypes ==
    /\ job \in [Syncers -> Job]
    /\ \A y \in Syncers : JobOK(job[y])

SettingTypes ==
    /\ on \in SUBSET Sources /\ auto \in BOOLEAN
    /\ fronted \in BOOLEAN /\ label \in [Owners -> Countries]
    /\ pool \in [Owners -> Rankings]

BoundTypes ==
    /\ changes \in 0..MaxChanges /\ scans \in 0..MaxScans
    /\ pings \in 0..MaxPings /\ crashes \in 0..MaxCrashes

\* The types, one part after the other.
LEMMA TypeParts ==
    /\ Types <=> NodeTypes /\ JobTypes /\ SettingTypes /\ BoundTypes
    /\ Types' <=> NodeTypes' /\ JobTypes' /\ SettingTypes' /\ BoundTypes'
  BY DEF Types, TypeOK, NodeTypes, JobTypes, SettingTypes, BoundTypes

\* The idle job, and the one a rebuild begins with.
LEMMA Jobs ==
    /\ JobOK(IdleJob) /\ IdleJob.pc = "idle"
    /\ Types => JobOK(Captured)
    /\ Types => \A S \in SUBSET Names : JobOK([Captured EXCEPT !.before = S])
    /\ Captured.pc = "disable" /\ Captured.before = Before
    /\ \A S : [Captured EXCEPT !.before = S].pc = "disable" /\ [Captured EXCEPT !.before = S].before = S
  <1>1. JobOK(IdleJob) /\ IdleJob.pc = "idle"
    BY DEF IdleJob, JobOK, Job
  <1>2. ASSUME Types PROVE JobOK(Captured)
    <2>1. Before \in SUBSET Names /\ auto \in BOOLEAN
      BY <1>2 DEF Types, TypeOK, Before, Published
    <2>2. QED
      BY <1>1, <2>1 DEF Captured, IdleJob, JobOK, Job
  <1>3. ASSUME Types PROVE \A S \in SUBSET Names : JobOK([Captured EXCEPT !.before = S])
    BY <1>2, <1>3 DEF Captured, IdleJob, JobOK, Job
  <1>4. Captured.pc = "disable" /\ Captured.before = Before
    BY DEF Captured, IdleJob
  <1>5. \A S : [Captured EXCEPT !.before = S].pc = "disable" /\ [Captured EXCEPT !.before = S].before = S
    BY DEF Captured, IdleJob
  <1>6. QED
    BY <1>1, <1>2, <1>3, <1>4, <1>5

\* One job is left in a form of its type.
LEMMA JobKept ==
    ASSUME Types, NEW y \in Syncers, NEW r, JobOK(r), job' = [job EXCEPT ![y] = r]
    PROVE  JobTypes'
  <1>1. r \in Job
    BY DEF JobOK
  <1>2. QED
    BY <1>1 DEF Types, TypeOK, JobTypes

\* The plan names an address for each node that is planned.
LEMMA PlanType ==
    ASSUME Types
    PROVE  PlanNow \in [Names -> Addresses \cup {None}]
           /\ \A n \in Names : Planned(n) <=> PlanNow[n] # None
  <1>1. \A o \in Owners : \E k \in 0..MaxNodes : pool[o] \in [1..k -> Addresses]
    BY DEF Types, TypeOK, Rankings
  <1>2. \A n \in Names : Planned(n) => pool[n[1]][n[3]] \in Addresses
    BY <1>1 DEF Planned, Names
  <1>3. QED
    BY <1>2, NoneIsNew DEF PlanNow, Planned

\* What is kept are names.
LEMMA KeepsNames ==
    ASSUME NEW S \in SUBSET Names, Keeps(S)
    PROVE  kept' \in SUBSET Names
  BY DEF Keeps

LEMMA PickNames ==
    ASSUME Types, NEW S \in SUBSET Names, Pick(S) \/ Unpick(S)
    PROVE  picked' \in SUBSET Names /\ kept' \in SUBSET Names
  <1>1. picked \in SUBSET Names /\ kept \in SUBSET Names
    BY DEF Types, TypeOK
  <1>2. kept \cup S \in SUBSET Names /\ kept \ S \in SUBSET Names
    BY <1>1
  <1>3. QED
    BY <1>1, <1>2, KeepsNames DEF Pick, Unpick

\* A row that is switched or marked is a row.
LEMMA RowKept ==
    ASSUME NEW r \in Row, NEW b \in BOOLEAN
    PROVE  /\ [r EXCEPT !.enabled = b] \in Row /\ [r EXCEPT !.candidate = b] \in Row
           /\ [r EXCEPT !.enabled = b].enabled = b /\ [r EXCEPT !.candidate = b].enabled = r.enabled
           /\ r # None
  BY NoneIsNew DEF Row

\* The initial catalog has the declared types.
LEMMA TypesInit == Init => Types
  <1> SUFFICES ASSUME Init PROVE Types
    OBVIOUS
  <1>1. job = [y \in Syncers |-> IdleJob]
    BY DEF Init
  <1>2. IdleJob \in Job
    BY Jobs DEF JobOK
  <1>3. JobTypes
    BY <1>1, <1>2, Jobs DEF JobTypes
  <1>4. node \in [Names -> Row \cup {None}] /\ ping \in [Names -> Row \cup {None}]
    BY DEF Init
  <1>5. NodeTypes
    BY <1>4 DEF NodeTypes, Init
  <1>6. SettingTypes
    BY SeedAssumption DEF Init, SettingTypes, Owners
  <1>7. BoundTypes
    BY BoundsAreNat DEF Init, BoundTypes
  <1>8. QED
    BY <1>3, <1>5, <1>6, <1>7, TypeParts

\* The statements of a rebuild.
LEMMA SyncTypes ==
    ASSUME Types, NEW y \in Syncers, SyncStep(y)
    PROVE  Types'
  <1> DEFINE j == job[y]
  <1>1. JobOK(j) /\ j \in Job /\ job \in [Syncers -> Job]
    BY DEF Types, TypeOK
  <1>2. NodeTypes /\ SettingTypes /\ BoundTypes
    BY TypeParts
  <1>3. SettingTypes' /\ BoundTypes'
    BY <1>2 DEF SyncStep, DisableAll, Plan, Upsert, Enable, Mark, Cleanup, SettingTypes, BoundTypes, bounds, env
  <1>4. CASE DisableAll(y)
    <2> DEFINE r == [j EXCEPT !.pc = "plan"]
    <2>1. JobOK(r) /\ job' = [job EXCEPT ![y] = r]
      BY <1>1, <1>4 DEF DisableAll, JobOK, Job
    <2>2. node' \in [Names -> Row \cup {None}]
      BY <1>2, <1>4, RowKept DEF DisableAll, NodeTypes, Exists
    <2>3. NodeTypes'
      BY <1>2, <1>4, <2>2 DEF DisableAll, NodeTypes
    <2>4. QED
      BY <1>3, <2>1, <2>3, JobKept, TypeParts
  <1>5. CASE Plan(y)
    <2> DEFINE todo == {n \in Names : Planned(n)}
    <2>1. todo \in SUBSET Names /\ \A n \in todo : PlanNow[n] # None
      BY PlanType
    <2> HIDE DEF todo
    <2> DEFINE r == [j EXCEPT !.pc = "upsert", !.plan = PlanNow, !.todo = todo]
    <2>2. job' = [job EXCEPT ![y] = r]
      BY <1>1, <1>5 DEF Plan, todo
    <2>3. r.pc = "upsert" /\ r.plan = PlanNow /\ r.todo = todo /\ r \in Job
      BY <1>1, <2>1, PlanType DEF Job
    <2>4. JobOK(r)
      BY <2>1, <2>3 DEF JobOK
    <2>5. NodeTypes'
      BY <1>2, <1>5 DEF Plan, NodeTypes
    <2>6. QED
      BY <1>3, <2>2, <2>4, <2>5, JobKept, TypeParts
  <1>6. ASSUME NEW n \in Names, Upsert(y, n) PROVE Types'
    <2> DEFINE r == [j EXCEPT !.pc = "enable", !.cur = n, !.todo = j.todo \ {n}]
    <2>1. job' = [job EXCEPT ![y] = r] /\ n \in j.todo
      BY <1>1, <1>6 DEF Upsert
    <2>2. r.pc = "enable" /\ r.plan = j.plan /\ r.todo = j.todo \ {n} /\ r.cur = n /\ r \in Job
      BY <1>1 DEF Job
    <2>3. JobOK(r)
      BY <1>1, <2>2 DEF JobOK
    <2>4. j.plan[n] \in Addresses
      BY <1>1, <2>1 DEF JobOK, Job
    <2>5. node' \in [Names -> Row \cup {None}]
      BY <1>2, <1>6, <2>4 DEF Upsert, NodeTypes, Exists, Row
    <2>6. NodeTypes'
      BY <1>2, <1>6, <2>5 DEF Upsert, NodeTypes
    <2>7. QED
      BY <1>3, <2>1, <2>3, <2>6, JobKept, TypeParts
  <1>7. CASE Enable(y)
    <2> DEFINE r == [j EXCEPT !.pc = "mark"]
    <2>1. JobOK(r) /\ job' = [job EXCEPT ![y] = r] /\ j.cur \in Names
      BY <1>1, <1>7 DEF Enable, JobOK, Job
    <2>2. Publish(y) \in BOOLEAN
      BY <1>1 DEF Publish, Job
    <2>6. picked' \in SUBSET Names /\ kept' \in SUBSET Names
      <3> DEFINE chosen == IF j.auto /\ Exists(j.cur) THEN {j.cur} ELSE {}
      <3>1. chosen \in SUBSET Names /\ picked' = picked \cup chosen /\ Keeps(kept \cup chosen)
        BY <1>7, <2>1 DEF Enable
      <3> HIDE DEF chosen
      <3>2. kept \cup chosen \in SUBSET Names
        BY <1>2, <3>1 DEF NodeTypes
      <3>3. QED
        BY <1>2, <3>1, <3>2, KeepsNames DEF NodeTypes
    <2>3. CASE Exists(j.cur)
      <3> DEFINE b == Publish(y)
      <3>1. node[j.cur] \in Row
        BY <1>2, <2>1, <2>3 DEF NodeTypes, Exists
      <3>2. b \in BOOLEAN /\ node' = [node EXCEPT ![j.cur] = [node[j.cur] EXCEPT !.enabled = b]]
        BY <1>7, <2>2, <2>3 DEF Enable
      <3> HIDE DEF b
      <3>3. [node[j.cur] EXCEPT !.enabled = b] \in Row
        BY <3>1, <3>2, RowKept
      <3>4. node' \in [Names -> Row \cup {None}]
        BY <1>2, <2>1, <3>3, <3>2 DEF NodeTypes
      <3>5. NodeTypes'
        BY <1>2, <1>7, <2>1, <2>6, <3>4 DEF Enable, NodeTypes
      <3>6. QED
        BY <1>3, <2>1, <3>5, JobKept, TypeParts
    <2>4. CASE ~Exists(j.cur)
      <3>1. NodeTypes'
        BY <1>2, <1>7, <2>1, <2>4, <2>6 DEF Enable, NodeTypes
      <3>2. QED
        BY <1>3, <2>1, <3>1, JobKept, TypeParts
    <2>5. QED
      BY <2>3, <2>4
  <1>8. CASE Mark(y)
    <2> DEFINE r == [j EXCEPT !.pc = "upsert", !.cur = None]
    <2>1. JobOK(r) /\ job' = [job EXCEPT ![y] = r] /\ j.cur \in Names
      BY <1>1, <1>8 DEF Mark, JobOK, Job
    <2>3. CASE Exists(j.cur)
      <3> DEFINE b == ~Publish(y)
      <3>1. b \in BOOLEAN /\ node' = [node EXCEPT ![j.cur] = [node[j.cur] EXCEPT !.candidate = b]]
        BY <1>8, <2>3 DEF Mark
      <3> HIDE DEF b
      <3>2. node[j.cur] \in Row
        BY <1>2, <2>1, <2>3 DEF NodeTypes, Exists
      <3>3. [node[j.cur] EXCEPT !.candidate = b] \in Row
        BY <3>2, <3>1, RowKept
      <3>4. node' \in [Names -> Row \cup {None}]
        BY <1>2, <2>1, <3>1, <3>3 DEF NodeTypes
      <3>5. NodeTypes'
        BY <1>2, <1>8, <3>4 DEF Mark, NodeTypes
      <3>6. QED
        BY <1>3, <2>1, <3>5, JobKept, TypeParts
    <2>4. CASE ~Exists(j.cur)
      <3>1. NodeTypes'
        BY <1>2, <1>8, <2>4 DEF Mark, NodeTypes
      <3>3. QED
        BY <1>3, <2>1, <3>1, JobKept, TypeParts
    <2>5. QED
      BY <2>3, <2>4
  <1>9. CASE Cleanup(y)
    <2>1. JobTypes'
      BY <1>9, Jobs, JobKept DEF Cleanup
    <2>2. node' \in [Names -> Row \cup {None}]
      BY <1>2, <1>9 DEF Cleanup, NodeTypes
    <2>3. NodeTypes'
      BY <1>2, <1>9, <2>2 DEF Cleanup, NodeTypes
    <2>4. QED
      BY <1>3, <2>1, <2>3, TypeParts
  <1>10. QED
    BY <1>4, <1>5, <1>6, <1>7, <1>8, <1>9 DEF SyncStep

\* A ranking that lost an address is a ranking.
LEMMA WithoutRankType ==
    ASSUME NEW r \in Rankings, NEW i \in DOMAIN r
    PROVE  WithoutRank(r, i) \in Rankings
  <1>1. PICK k \in 0..MaxNodes : r \in [1..k -> Addresses] /\ Distinct(r)
    BY DEF Rankings
  <1>2. k \in Nat /\ MaxNodes \in Nat
    BY BoundsAreNat
  <1>3. Len(r) = k /\ DOMAIN r = 1..k /\ k > 0
    BY <1>1, <1>2
  <1>4. k - 1 \in 0..MaxNodes
    BY <1>2, <1>3
  <1>5. WithoutRank(r, i) = [j \in 1..(k - 1) |-> IF j < i THEN r[j] ELSE r[j + 1]]
    BY <1>3 DEF WithoutRank
  <1>6. WithoutRank(r, i) \in [1..(k - 1) -> Addresses]
    BY <1>1, <1>2, <1>3, <1>5
  <1>7. Distinct(WithoutRank(r, i))
    <2> SUFFICES ASSUME NEW a \in 1..(k - 1), NEW b \in 1..(k - 1),
                        WithoutRank(r, i)[a] = WithoutRank(r, i)[b]
                 PROVE  a = b
      BY <1>6 DEF Distinct
    <2>1. (IF a < i THEN r[a] ELSE r[a + 1]) = (IF b < i THEN r[b] ELSE r[b + 1])
      BY <1>5
    <2>2. a \in 1..k /\ a + 1 \in 1..k /\ b \in 1..k /\ b + 1 \in 1..k /\ i \in 1..k
      BY <1>2, <1>3
    <2>3. QED
      BY <1>1, <1>3, <2>1, <2>2 DEF Distinct
  <1>8. QED
    BY <1>4, <1>6, <1>7 DEF Rankings

LEMMA WithoutType ==
    ASSUME NEW r \in Rankings, NEW a
    PROVE  Without(r, a) \in Rankings
  <1>1. CASE \E i \in DOMAIN r : r[i] = a
    <2> DEFINE i == CHOOSE i \in DOMAIN r : r[i] = a
    <2>1. i \in DOMAIN r
      BY <1>1
    <2>2. Without(r, a) = WithoutRank(r, i)
      BY <1>1 DEF Without
    <2> HIDE DEF i
    <2>3. QED
      BY <2>1, <2>2, WithoutRankType
  <1>2. CASE ~(\E i \in DOMAIN r : r[i] = a)
    BY <1>2 DEF Without
  <1>3. QED
    BY <1>1, <1>2

\* Everything that is not a statement of a rebuild.
LEMMA OtherTypes ==
    ASSUME Types,
           \/ Rebuild
           \/ \E n \in Names : PingRead(n) \/ PingWrite(n) \/ UpdateNode(n)
           \/ \E n \in Names, publish \in BOOLEAN : Select(n, publish)
           \/ SelectMark \/ SwitchAuto
           \/ \E s \in Sources : SwitchSource(s) \/ Relabel(s)
           \/ \E y \in Threads :
               \/ \E n \in Names : DeleteNode(y, n)
               \/ \E s \in Sources : DeleteSource(y, s)
               \/ DeleteAddress(y)
           \/ Scan \/ Front
           \/ Crash
           \/ UNCHANGED vars
    PROVE  Types'
  <1>1. NodeTypes /\ JobTypes /\ SettingTypes /\ BoundTypes
    BY TypeParts
  <1>2. Loop \in Syncers /\ Threads \subseteq Syncers
    BY DEF Syncers
  <1>3. ASSUME UNCHANGED <<node, ping, half, picked, kept>> PROVE NodeTypes'
    BY <1>1, <1>3 DEF NodeTypes
  <1>4. ASSUME UNCHANGED job PROVE JobTypes'
    BY <1>1, <1>4 DEF JobTypes
  <1>5. ASSUME UNCHANGED <<env, auto>> PROVE SettingTypes'
    BY <1>1, <1>5 DEF SettingTypes, env
  <1>a. ASSUME UNCHANGED <<node, ping, half, picked>>, Keeps(kept) PROVE NodeTypes'
    BY <1>1, <1>a, KeepsNames DEF NodeTypes
  <1>6. ASSUME UNCHANGED bounds PROVE BoundTypes'
    BY <1>1, <1>6 DEF BoundTypes, bounds
  <1>7. ASSUME Decide PROVE BoundTypes'
    BY <1>1, <1>7, BoundsAreNat DEF BoundTypes, Decide
  <1>8. CASE Rebuild
    <2>1. JobTypes'
      BY <1>2, <1>8, Jobs, JobKept DEF Rebuild
    <2>2. QED
      BY <1>3, <1>5, <1>6, <1>8, <2>1, TypeParts DEF Rebuild
  <1>9. ASSUME NEW n \in Names, PingRead(n) PROVE Types'
    <2>1. NodeTypes'
      BY <1>1, <1>9 DEF PingRead, NodeTypes
    <2>2. BoundTypes'
      BY <1>1, <1>9, BoundsAreNat DEF PingRead, BoundTypes
    <2>3. QED
      BY <1>4, <1>5, <1>9, <2>1, <2>2, TypeParts DEF PingRead
  <1>10. ASSUME NEW n \in Names, PingWrite(n) PROVE Types'
    <2> DEFINE b == ping[n].candidate
    <2>1. b \in BOOLEAN
      BY <1>1, <1>10 DEF PingWrite, NodeTypes, Row
    <2>2. node' = IF Exists(n) THEN [node EXCEPT ![n] = [node[n] EXCEPT !.candidate = b]] ELSE node
      BY <1>10 DEF PingWrite
    <2> HIDE DEF b
    <2>3. Exists(n) => [node[n] EXCEPT !.candidate = b] \in Row
      <3>1. Exists(n) => node[n] \in Row
        BY <1>1, <2>1 DEF NodeTypes, Exists
      <3>2. QED
        BY <2>1, <3>1, RowKept
    <2>4. node' \in [Names -> Row \cup {None}]
      BY <1>1, <2>2, <2>3 DEF NodeTypes
    <2>5. NodeTypes'
      BY <1>1, <1>10, <2>4 DEF PingWrite, NodeTypes
    <2>6. QED
      BY <1>4, <1>5, <1>6, <1>10, <2>5, TypeParts DEF PingWrite
  <1>11. ASSUME NEW n \in Names, UpdateNode(n) PROVE Types'
    <2> DEFINE b == ~node[n].enabled
    <2>1. b \in BOOLEAN /\ node' = [node EXCEPT ![n] = [node[n] EXCEPT !.enabled = b]]
      BY <1>11 DEF UpdateNode
    <2> HIDE DEF b
    <2>2. node[n] \in Row
      BY <1>1, <1>11 DEF UpdateNode, NodeTypes, Exists
    <2>3. [node[n] EXCEPT !.enabled = b] \in Row
      BY <2>1, <2>2, RowKept
    <2>4. node' \in [Names -> Row \cup {None}]
      BY <1>1, <2>1, <2>3 DEF NodeTypes
    <2>7. picked' \in SUBSET Names /\ kept' \in SUBSET Names
      BY <1>11, PickNames DEF UpdateNode
    <2>5. NodeTypes'
      BY <1>1, <1>11, <2>4, <2>7 DEF UpdateNode, NodeTypes, Decide
    <2>6. QED
      BY <1>4, <1>5, <1>7, <1>11, <2>5, TypeParts DEF UpdateNode
  <1>12. ASSUME NEW n \in Names, NEW publish \in BOOLEAN, Select(n, publish) PROVE Types'
    <2>1. node[n] \in Row
      BY <1>1, <1>12 DEF Select, NodeTypes, Exists
    <2>2. [node[n] EXCEPT !.enabled = publish] \in Row
      BY <2>1, RowKept
    <2>3. node' = [node EXCEPT ![n] = [node[n] EXCEPT !.enabled = publish]]
      BY <1>12 DEF Select
    <2>4. node' \in [Names -> Row \cup {None}]
      BY <1>1, <2>2, <2>3 DEF NodeTypes
    <2>5. half' \in (Names \X BOOLEAN) \cup {None} /\ ping' \in [Names -> Row \cup {None}]
      BY <1>1, <1>12 DEF Select, NodeTypes, Decide
    <2>8. picked' \in SUBSET Names /\ kept' \in SUBSET Names
      BY <1>12, PickNames DEF Select
    <2>6. NodeTypes'
      BY <2>4, <2>5, <2>8 DEF NodeTypes
    <2>7. QED
      BY <1>4, <1>5, <1>7, <1>12, <2>6, TypeParts DEF Select
  <1>13. CASE SelectMark
    <2> DEFINE n == half[1]
               b == ~half[2]
    <2>1. n \in Names /\ b \in BOOLEAN
      BY <1>1, <1>13 DEF SelectMark, NodeTypes
    <2>2. node' = IF Exists(n) THEN [node EXCEPT ![n] = [node[n] EXCEPT !.candidate = b]] ELSE node
      BY <1>13 DEF SelectMark
    <2> HIDE DEF n, b
    <2>3. Exists(n) => [node[n] EXCEPT !.candidate = b] \in Row
      <3>1. Exists(n) => node[n] \in Row
        BY <1>1, <2>1 DEF NodeTypes, Exists
      <3>2. QED
        BY <2>1, <3>1, RowKept
    <2>4. node' \in [Names -> Row \cup {None}]
      BY <1>1, <2>1, <2>2, <2>3 DEF NodeTypes
    <2>5. NodeTypes'
      BY <1>1, <1>13, <2>4 DEF SelectMark, NodeTypes
    <2>6. QED
      BY <1>4, <1>5, <1>6, <1>13, <2>5, TypeParts DEF SelectMark
  <1>14. CASE SwitchAuto
    <2>1. PICK taken : /\ taken = IF auto' THEN Candidates ELSE {}
                       /\ node' = [n \in Names |-> IF n \in taken
                            THEN [node[n] EXCEPT !.enabled = TRUE, !.candidate = FALSE] ELSE node[n]]
                       /\ Pick(taken)
      BY <1>14 DEF SwitchAuto
    <2>2. taken \in SUBSET Names /\ \A n \in taken : node[n] \in Row
      BY <1>1, <2>1 DEF Candidates, Exists, NodeTypes
    <2>3. \A n \in taken : [node[n] EXCEPT !.enabled = TRUE, !.candidate = FALSE] \in Row
      BY <2>2 DEF Row
    <2>4. node' \in [Names -> Row \cup {None}]
      BY <1>1, <2>1, <2>3 DEF NodeTypes
    <2>8. picked' \in SUBSET Names /\ kept' \in SUBSET Names
      BY <2>1, <2>2, PickNames
    <2>5. NodeTypes'
      BY <1>1, <1>14, <2>4, <2>8 DEF SwitchAuto, NodeTypes, Decide
    <2>6. SettingTypes'
      BY <1>1, <1>14 DEF SwitchAuto, SettingTypes, env
    <2>7. QED
      BY <1>4, <1>7, <1>14, <2>5, <2>6, TypeParts DEF SwitchAuto
  <1>15. ASSUME NEW s \in Sources, SwitchSource(s) PROVE Types'
    <2>1. JobTypes'
      BY <1>2, <1>15, Jobs, JobKept DEF SwitchSource
    <2>2. SettingTypes'
      BY <1>1, <1>15 DEF SwitchSource, SettingTypes
    <2>3. NodeTypes'
      BY <1>a, <1>15 DEF SwitchSource, Decide
    <2>4. QED
      BY <1>7, <1>15, <2>1, <2>2, <2>3, TypeParts DEF SwitchSource
  <1>16. ASSUME NEW y \in Threads, NEW n \in Names, DeleteNode(y, n) PROVE Types'
    <2>3. picked' \in SUBSET Names /\ kept' \in SUBSET Names
      BY <1>16, PickNames DEF DeleteNode
    <2>1. NodeTypes'
      BY <1>1, <1>16, <2>3 DEF DeleteNode, NodeTypes, Decide
    <2>2. QED
      BY <1>4, <1>5, <1>7, <1>16, <2>1, TypeParts DEF DeleteNode
  <1>17. ASSUME NEW y \in Threads, NEW s \in Sources, DeleteSource(y, s) PROVE Types'
    <2> DEFINE S == {n \in Before : n[1] # s}
    <2>1. S \in SUBSET Names
      BY DEF Before, Published
    <2>2. job' = [job EXCEPT ![y] = [Captured EXCEPT !.before = S]]
      BY <1>17 DEF DeleteSource
    <2> HIDE DEF S
    <2>3. JobTypes'
      BY <1>2, <2>1, <2>2, Jobs, JobKept
    <2>7. picked' \in SUBSET Names /\ kept' \in SUBSET Names
      BY <1>17, PickNames DEF DeleteSource
    <2>4. NodeTypes'
      BY <1>1, <1>17, <2>7 DEF DeleteSource, NodeTypes, Decide
    <2>5. SettingTypes'
      BY <1>1, <1>17 DEF DeleteSource, SettingTypes
    <2>6. QED
      BY <1>7, <1>17, <2>3, <2>4, <2>5, TypeParts DEF DeleteSource
  <1>18. ASSUME NEW y \in Threads, DeleteAddress(y) PROVE Types'
    <2>1. JobTypes'
      BY <1>2, <1>18, Jobs, JobKept DEF DeleteAddress
    <2>2. SettingTypes'
      BY <1>1, <1>18, WithoutType DEF DeleteAddress, SettingTypes
    <2>3. NodeTypes'
      BY <1>a, <1>18 DEF DeleteAddress, Decide
    <2>4. QED
      BY <1>7, <1>18, <2>1, <2>2, <2>3, TypeParts DEF DeleteAddress
  <1>b. ASSUME Measured PROVE BoundTypes'
    BY <1>1, <1>b, BoundsAreNat DEF Measured, BoundTypes
  <1>19. CASE Scan
    <2>1. SettingTypes'
      BY <1>1, <1>19 DEF Scan, Measured, SettingTypes
    <2>2. NodeTypes' /\ JobTypes'
      BY <1>4, <1>a, <1>19 DEF Scan, Measured
    <2>3. QED
      BY <1>b, <1>19, <2>1, <2>2, TypeParts DEF Scan
  <1>22. ASSUME NEW s \in Sources, Relabel(s) PROVE Types'
    <2>1. \A a \in Addresses : Without(pool[s], a) \in Rankings
      BY <1>1, WithoutType DEF SettingTypes, Owners
    <2>2. pool' \in [Owners -> Rankings]
      BY <1>1, <1>22, <2>1 DEF Relabel, SettingTypes
    <2>3. label' \in [Owners -> Countries]
      BY <1>1, <1>22 DEF Relabel, SettingTypes
    <2>4. SettingTypes'
      BY <1>1, <1>22, <2>2, <2>3 DEF Relabel, Measured, SettingTypes
    <2>5. NodeTypes' /\ JobTypes'
      BY <1>4, <1>a, <1>22 DEF Relabel, Measured
    <2>6. QED
      BY <1>b, <1>22, <2>4, <2>5, TypeParts DEF Relabel
  <1>23. CASE Front
    <2>1. SettingTypes'
      BY <1>1, <1>23 DEF Front, Measured, SettingTypes
    <2>2. NodeTypes' /\ JobTypes'
      BY <1>4, <1>a, <1>23 DEF Front, Measured
    <2>3. QED
      BY <1>b, <1>23, <2>1, <2>2, TypeParts DEF Front
  <1>20. CASE Crash
    <2>1. job' = [y \in Syncers |-> IdleJob]
      BY <1>20 DEF Crash
    <2>2. JobTypes'
      BY <2>1, Jobs DEF JobTypes, JobOK
    <2>3. BoundTypes'
      BY <1>1, <1>20, BoundsAreNat DEF Crash, BoundTypes
    <2>6. fronted' \in BOOLEAN
      BY <1>1, <1>20 DEF Crash, SettingTypes
    <2>7. SettingTypes'
      BY <1>1, <1>20, <2>6 DEF Crash, SettingTypes
    <2>4. NodeTypes'
      BY <1>1, <1>20, KeepsNames DEF Crash, NodeTypes
    <2>5. QED
      BY <2>2, <2>3, <2>4, <2>7, TypeParts
  <1>21. CASE UNCHANGED vars
    BY <1>3, <1>4, <1>5, <1>6, <1>21, TypeParts DEF vars
  <1>24. QED
    BY <1>8, <1>9, <1>10, <1>11, <1>12, <1>13, <1>14, <1>15, <1>16, <1>17, <1>18, <1>19, <1>20, <1>21,
       <1>22, <1>23

\* Every action keeps the types.
LEMMA TypesStep == Types /\ [Next]_vars => Types'
  BY SyncTypes, OtherTypes DEF Next

\* The catalog keeps its shape.
THEOREM TypeCorrect == Spec => []TypeOK
  <1>1. Types => TypeOK
    BY DEF Types
  <1>2. QED
    BY TypesInit, TypesStep, <1>1, PTL DEF Spec

(***************************************************************************)
(* What is published.                                                      *)
(***************************************************************************)

\* Nothing is picked before the first rebuild.
LEMMA FaithfulInit == Init => Faithful
  <1> SUFFICES ASSUME Init PROVE Faithful
    OBVIOUS
  <1>1. \A y \in Syncers : job[y].pc = "idle"
    BY DEF Init, IdleJob
  <1>2. half = None /\ picked = {} /\ kept = {} /\ \A n \in Names : ~Exists(n)
    BY DEF Init, Exists
  <1>3. Published = {}
    BY <1>2 DEF Published
  <1>4. QED
    BY <1>1, <1>2, <1>3 DEF Faithful, Serial, KeptPlanned, Between, Resting, Rebuilding

\* Which nodes are published after a step, told name by name.
LEMMA PublishedIs ==
    /\ \A n : n \in Published <=> n \in Names /\ node[n] # None /\ node[n].enabled
    /\ \A n : n \in Published' <=> n \in Names /\ node'[n] # None /\ node'[n].enabled
  BY DEF Published, Exists

\* What is kept after a step is in the plan then.
LEMMA KeepsPlanned ==
    ASSUME NEW S, Keeps(S)
    PROVE  KeptPlanned' /\ kept' \subseteq S
  BY DEF Keeps, KeptPlanned

LEMMA PlannedSame ==
    ASSUME KeptPlanned, UNCHANGED <<env, kept>>
    PROVE  KeptPlanned'
  <1>1. Groups' = Groups
    BY DEF env, Groups
  <1>2. \A n : Planned(n)' <=> Planned(n)
    BY <1>1 DEF env, Planned
  <1>3. QED
    BY <1>2 DEF KeptPlanned

\* What a decision does to the histories.
LEMMA Decision ==
    ASSUME NEW S
    PROVE  /\ Pick(S) => KeptPlanned' /\ kept' \subseteq kept \cup S /\ picked' = picked \cup S
           /\ Unpick(S) => KeptPlanned' /\ kept' \subseteq kept \ S /\ picked' = picked \ S
  BY KeepsPlanned DEF Pick, Unpick

\* A step that changes no job, nor that only picked names are published and all kept ones.
LEMMA CalmStep ==
    ASSUME Types, Faithful, UNCHANGED <<job, crashes>>,
           \A y \in Syncers : job[y].pc = "idle",
           KeptPlanned',
           crashes = 0 => kept' \subseteq Published' /\ Published' \subseteq picked'
    PROVE  Faithful'
  <1>1. Serial'
    BY DEF Serial
  <1>2. crashes = 0 => Resting'
    BY DEF Resting, Between
  <1>3. \A y \in Syncers : Rebuilding(y)'
    BY DEF Rebuilding
  <1>4. QED
    BY <1>1, <1>2, <1>3 DEF Faithful

\* A step of the surroundings, which at most takes a name out of the plan.
LEMMA ShrinkStep ==
    ASSUME Types, Faithful, UNCHANGED <<node, job, half, picked, crashes>>, Keeps(kept)
    PROVE  Faithful'
  <1>1. KeptPlanned' /\ kept' \subseteq kept
    BY KeepsPlanned
  <1>2. Published' = Published /\ \A n : Exists(n)' <=> Exists(n)
    BY DEF Published, Exists
  <1>3. Serial'
    BY DEF Faithful, Serial
  <1>4. crashes = 0 => Resting'
    BY <1>1, <1>2 DEF Faithful, Resting, Between
  <1>5. ASSUME NEW y \in Syncers, crashes = 0 PROVE Rebuilding(y)'
    <2>1. Rebuilding(y)
      BY <1>5 DEF Faithful
    <2>2. QED
      BY <1>1, <1>2, <2>1 DEF Rebuilding, Between
  <1>6. QED
    BY <1>1, <1>3, <1>4, <1>5 DEF Faithful

\* Nobody rebuilds.
LEMMA CalmState ==
    ASSUME Types, Faithful, Overlap = FALSE, LoopFree \/ (\E y \in Threads : ThreadFree(y)) \/ half # None
    PROVE  /\ \A y \in Syncers : job[y].pc = "idle"
           /\ crashes = 0 => kept \subseteq Published /\ Published \subseteq picked
  <1>1. \A y \in Syncers : job[y].pc = "idle"
    BY DEF Faithful, Serial, LoopFree, ThreadFree, Quiet, LoopBusy, Syncers
  <1>2. QED
    BY <1>1 DEF Faithful, Resting, Between

\* A rebuild begins: it captures what is published.
LEMMA BeginStep ==
    ASSUME Types, Faithful, NEW y \in Syncers, NEW r,
           job' = [job EXCEPT ![y] = r], r.pc = "disable",
           \A z \in Syncers : job[z].pc = "idle",
           half' = None, crashes' = crashes, KeptPlanned',
           r.before = Published',
           crashes = 0 => kept' \subseteq Published' /\ Published' \subseteq picked'
    PROVE  Faithful'
  <1>1. job \in [Syncers -> Job]
    BY DEF Types, TypeOK
  <1>2. job'[y] = r /\ \A z \in Syncers : z # y => job'[z].pc = "idle"
    BY <1>1
  <1>3. Serial'
    BY <1>2 DEF Serial
  <1>4. crashes = 0 => Resting'
    BY <1>2 DEF Resting
  <1>5. crashes = 0 => \A z \in Syncers : Rebuilding(z)'
    BY <1>2 DEF Rebuilding, Between
  <1>6. QED
    BY <1>3, <1>4, <1>5 DEF Faithful

\* One statement of the only rebuild there is.
LEMMA OneStep ==
    ASSUME Types, Faithful, NEW y \in Syncers, NEW r,
           job' = [job EXCEPT ![y] = r], job[y].pc # "idle",
           half' = half, crashes' = crashes, KeptPlanned',
           crashes = 0 =>
               Rebuilding(y)' /\ (r.pc = "idle" => kept' \subseteq Published' /\ Published' \subseteq picked')
    PROVE  Faithful'
  <1>1. job \in [Syncers -> Job]
    BY DEF Types, TypeOK
  <1>2. job'[y] = r /\ \A z \in Syncers : z # y => job'[z].pc = "idle"
    BY <1>1 DEF Faithful, Serial
  <1>3. half = None
    BY DEF Faithful, Serial
  <1>4. Serial'
    BY <1>2, <1>3 DEF Serial
  <1>5. crashes = 0 => Resting'
    BY <1>2 DEF Resting, Between
  <1>6. crashes = 0 => \A z \in Syncers : Rebuilding(z)'
    BY <1>2 DEF Rebuilding
  <1>7. QED
    BY <1>4, <1>5, <1>6 DEF Faithful

\* A candidate's tag changes nothing else.
LEMMA MarkOnly ==
    ASSUME node \in [Names -> Row \cup {None}], NEW n \in Names, NEW b \in BOOLEAN,
           node' = IF Exists(n) THEN [node EXCEPT ![n] = [node[n] EXCEPT !.candidate = b]] ELSE node
    PROVE  (\A m \in Names : Exists(m) <=> Exists(m)') /\ Published' = Published
  <1>1. CASE Exists(n)
    <2>1. node[n] \in Row
      BY <1>1 DEF Exists
    <2>2. node'[n] = [node[n] EXCEPT !.candidate = b] /\ \A m \in Names : m # n => node'[m] = node[m]
      BY <1>1
    <2>3. node'[n] # None /\ node'[n].enabled = node[n].enabled
      <3> DEFINE q == [node[n] EXCEPT !.candidate = b]
      <3>1. q \in Row /\ q.enabled = node[n].enabled
        BY <2>1, RowKept
      <3>2. q # None
        BY <3>1, NoneIsNew
      <3>3. QED
        BY <2>2, <3>1, <3>2
    <2>4. QED
      BY <1>1, <2>2, <2>3, PublishedIs DEF Exists
  <1>2. CASE ~Exists(n)
    BY <1>2 DEF Exists, Published
  <1>3. QED
    BY <1>1, <1>2

\* The statements of a rebuild park the picks, publish them again one by one and leave
\* nothing else published.
LEMMA FaithfulSync ==
    ASSUME Types, Faithful, NEW y \in Syncers, SyncStep(y)
    PROVE  Faithful'
  <1> DEFINE j == job[y]
  <1>1. JobOK(j) /\ j \in Job /\ job \in [Syncers -> Job] /\ node \in [Names -> Row \cup {None}]
        /\ picked \in SUBSET Names /\ kept \in SUBSET Names
    BY DEF Types, TypeOK
  <1>2. half' = half /\ crashes' = crashes
    BY DEF SyncStep, DisableAll, Plan, Upsert, Enable, Mark, Cleanup, bounds
  <1>3. crashes = 0 => Rebuilding(y)
    BY DEF Faithful
  <1>a. ASSUME UNCHANGED <<env, kept>> PROVE KeptPlanned'
    BY <1>a, PlannedSame DEF Faithful
  <1>4. CASE DisableAll(y)
    <2> DEFINE r == [j EXCEPT !.pc = "plan"]
    <2>1. job' = [job EXCEPT ![y] = r] /\ j.pc = "disable"
      BY <1>1, <1>4 DEF DisableAll
    <2>2. r.pc = "plan" /\ r.before = j.before
      BY <1>1 DEF Job
    <2>3. \A n \in Names : Exists(n) => node[n] \in Row
      BY <1>1 DEF Exists
    <2>4. \A n \in Names : (Exists(n)' <=> Exists(n)) /\ (Exists(n) => ~node'[n].enabled)
      <3>1. \A n \in Names : node'[n] = IF Exists(n) THEN [node[n] EXCEPT !.enabled = FALSE] ELSE None
        BY <1>4 DEF DisableAll
      <3>2. \A n \in Names : Exists(n) => node'[n] # None /\ ~node'[n].enabled
        <4> SUFFICES ASSUME NEW n \in Names, Exists(n) PROVE node'[n] # None /\ ~node'[n].enabled
          OBVIOUS
        <4>1. node'[n] = [node[n] EXCEPT !.enabled = FALSE] /\ node[n] \in Row
          BY <2>3, <3>1
        <4>2. [node[n] EXCEPT !.enabled = FALSE] \in Row /\ [node[n] EXCEPT !.enabled = FALSE].enabled = FALSE
          BY <4>1, RowKept
        <4>3. QED
          BY <4>1, <4>2, RowKept
      <3>3. \A n \in Names : ~Exists(n) => node'[n] = None
        BY <3>1
      <3>4. QED
        BY <3>2, <3>3 DEF Exists
    <2>5. Published' = {}
      BY <2>4, PublishedIs DEF Exists
    <2>6. UNCHANGED <<env, picked, kept>> /\ job'[y] = r
      BY <1>1, <1>4, <2>1 DEF DisableAll
    <2>7. crashes = 0 => Rebuilding(y)'
      BY <1>1, <1>3, <2>1, <2>2, <2>5, <2>6 DEF Rebuilding, Between
    <2> HIDE DEF r
    <2>8. QED
      BY <1>2, <1>a, <2>1, <2>2, <2>6, <2>7, OneStep
  <1>5. CASE Plan(y)
    <2> DEFINE todo == {n \in Names : Planned(n)}
               r == [j EXCEPT !.pc = "upsert", !.plan = PlanNow, !.todo = todo]
    <2>1. job' = [job EXCEPT ![y] = r] /\ j.pc = "plan" /\ node' = node
      BY <1>1, <1>5 DEF Plan
    <2>2. r.pc = "upsert" /\ r.plan = PlanNow /\ r.todo = todo /\ r.before = j.before /\ r.cur = j.cur
      BY <1>1 DEF Job
    <2>3. UNCHANGED <<env, picked, kept>> /\ Published' = Published
      BY <1>1, <1>5, <2>1 DEF Plan, Published, Exists
    <2>4. kept \subseteq todo /\ \A n \in todo : PlanNow[n] # None
      BY <1>1, PlanType DEF Faithful, KeptPlanned
    <2>5. job'[y] = r
      BY <1>1, <2>1
    <2> HIDE DEF todo, r
    <2>6. ASSUME crashes = 0 PROVE Rebuilding(y)'
      <3>1. Published' = {} /\ kept' \subseteq j.before /\ j.before \subseteq picked'
        BY <1>3, <2>1, <2>3, <2>6 DEF Rebuilding, Between
      <3>2. job'[y].pc = "upsert" /\ job'[y].plan = PlanNow /\ job'[y].todo = todo /\ job'[y].before = j.before
        BY <2>2, <2>5
      <3>3. \A n \in kept' : PlanNow[n] # None /\ n \in todo
        BY <2>3, <2>4
      <3>4. QED
        BY <3>1, <3>2, <3>3 DEF Rebuilding
    <2>7. QED
      BY <1>2, <1>a, <2>1, <2>2, <2>3, <2>6, OneStep
  <1>6. ASSUME NEW n \in Names, Upsert(y, n) PROVE Faithful'
    <2> DEFINE r == [j EXCEPT !.pc = "enable", !.cur = n, !.todo = j.todo \ {n}]
    <2>1. job' = [job EXCEPT ![y] = r] /\ n \in j.todo /\ j.pc = "upsert"
          /\ UNCHANGED <<env, picked, kept>>
      BY <1>1, <1>6 DEF Upsert
    <2>2. r.pc = "enable" /\ r.plan = j.plan /\ r.todo = j.todo \ {n} /\ r.cur = n /\ r.before = j.before
      BY <1>1 DEF Job
    <2>3. job'[y] = r
      BY <1>1, <2>1
    <2>4. j.plan[n] \in Addresses /\ j.plan[n] # None
      BY <1>1, <2>1 DEF JobOK, Job
    <2>5. node'[n] \in Row /\ \A m \in Names : m # n => node'[m] = node[m]
      BY <1>1, <1>6, <2>4 DEF Upsert, Exists, Row
    <2>6. Exists(n)' /\ \A m \in Names : Exists(m) => Exists(m)'
      BY <2>5, RowKept DEF Exists
    <2>7. Published' \ {n} = Published \ {n}
      BY <2>5, PublishedIs
    <2> HIDE DEF r
    <2>9. ASSUME crashes = 0 PROVE Rebuilding(y)'
      <3>1. /\ Published \subseteq picked /\ kept \subseteq Published \cup j.todo
            /\ \A m \in kept : j.plan[m] # None
            /\ \A m \in j.todo : (m \in kept => m \in j.before) /\ (m \in j.before => m \in picked)
        BY <1>3, <2>1, <2>9 DEF Rebuilding
      <3>2. job'[y].pc = "enable" /\ job'[y].plan = j.plan /\ job'[y].todo = j.todo \ {n}
            /\ job'[y].cur = n /\ job'[y].before = j.before
        BY <2>2, <2>3
      <3>3. /\ Published' \subseteq picked' \cup {n}
            /\ kept' \subseteq Published' \cup (j.todo \ {n}) \cup {n}
        BY <2>1, <2>7, <3>1
      <3>4. QED
        BY <2>1, <2>4, <2>6, <3>1, <3>2, <3>3 DEF Rebuilding
    <2>10. QED
      BY <1>2, <1>a, <2>1, <2>2, <2>9, OneStep
  <1>7. CASE Enable(y)
    <2> DEFINE r == [j EXCEPT !.pc = "mark"]
               n == j.cur
               b == Publish(y)
    <2>1. job' = [job EXCEPT ![y] = r] /\ j.pc = "enable" /\ n \in Names
      BY <1>1, <1>7 DEF Enable, JobOK
    <2>2. r.pc = "mark" /\ r.plan = j.plan /\ r.todo = j.todo /\ r.cur = n /\ r.before = j.before
      BY <1>1 DEF Job
    <2>3. job'[y] = r
      BY <1>1, <2>1
    <2>4. b \in BOOLEAN /\ (b <=> j.auto \/ n \in j.before) /\ j.auto \in BOOLEAN
      BY <1>1 DEF Publish, Job
    <2>5. node' = IF Exists(n) THEN [node EXCEPT ![n] = [node[n] EXCEPT !.enabled = b]] ELSE node
      BY <1>7 DEF Enable
    <2> DEFINE chosen == IF j.auto /\ Exists(n) THEN {n} ELSE {}
    <2>6. picked' = picked \cup chosen /\ Keeps(kept \cup chosen)
      BY <1>7 DEF Enable
    <2>14. KeptPlanned' /\ kept' \subseteq kept \cup chosen
      BY <2>6, KeepsPlanned
    <2>15. picked' = (IF j.auto /\ Exists(n) THEN picked \cup {n} ELSE picked)
           /\ kept' \subseteq (IF j.auto /\ Exists(n) THEN kept \cup {n} ELSE kept)
      BY <2>6, <2>14
    <2> HIDE DEF chosen
    <2> HIDE DEF r, n, b
    <2>7. \A m \in Names : m # n => node'[m] = node[m]
      BY <1>1, <2>1, <2>5
    <2>8. Exists(n) => node'[n] # None /\ node'[n].enabled = b
      <3>1. SUFFICES ASSUME Exists(n) PROVE node'[n] # None /\ node'[n].enabled = b
        OBVIOUS
      <3>2. node[n] \in Row
        BY <1>1, <2>1, <3>1 DEF Exists
      <3> DEFINE q == [node[n] EXCEPT !.enabled = b]
      <3>3. node'[n] = q
        BY <1>1, <2>1, <2>5, <3>1
      <3>4. q \in Row /\ q.enabled = b
        BY <2>4, <3>2, RowKept
      <3>5. q # None
        BY <3>4, NoneIsNew
      <3>6. QED
        BY <3>3, <3>4, <3>5
    <2>10. Published' \ {n} = Published \ {n}
      BY <2>7, PublishedIs
    <2>11. Exists(n) => (n \in Published' <=> b)
      BY <2>1, <2>8, PublishedIs
    <2>12. ASSUME crashes = 0 PROVE Rebuilding(y)'
      <3>1. /\ Published \subseteq picked \cup {n} /\ kept \subseteq Published \cup j.todo \cup {n}
            /\ n \in kept => n \in j.before
            /\ n \in j.before => n \in picked
            /\ j.plan[n] # None /\ Exists(n) /\ n \notin j.todo
            /\ \A m \in kept : j.plan[m] # None
            /\ \A m \in j.todo : (m \in kept => m \in j.before) /\ (m \in j.before => m \in picked)
        BY <1>3, <2>1, <2>12 DEF Rebuilding, n
      <3>2. b => n \in picked'
        BY <2>4, <2>15, <3>1
      <3>3. n \in kept' => b
        BY <2>4, <2>15, <3>1
      <3>4. picked \subseteq picked' /\ kept' \subseteq kept \cup {n}
        BY <2>15
      <3>5. Published' \subseteq picked'
        BY <2>10, <2>11, <3>1, <3>2, <3>4
      <3>6. kept' \subseteq Published' \cup j.todo
        BY <2>10, <2>11, <3>1, <3>3, <3>4
      <3>7. \A m \in j.todo : (m \in kept' => m \in j.before) /\ (m \in j.before => m \in picked')
        BY <3>1, <3>4
      <3>8. \A m \in kept' : j.plan[m] # None
        BY <3>1, <3>4
      <3>9. QED
        BY <2>2, <2>3, <3>5, <3>6, <3>7, <3>8 DEF Rebuilding
    <2>13. QED
      BY <1>2, <2>1, <2>2, <2>12, <2>14, OneStep
  <1>8. CASE Mark(y)
    <2> DEFINE r == [j EXCEPT !.pc = "upsert", !.cur = None]
               n == j.cur
               b == ~Publish(y)
    <2>1. job' = [job EXCEPT ![y] = r] /\ j.pc = "mark" /\ n \in Names
          /\ UNCHANGED <<env, picked, kept>>
      BY <1>1, <1>8 DEF Mark, JobOK
    <2>2. r.pc = "upsert" /\ r.plan = j.plan /\ r.todo = j.todo /\ r.before = j.before
      BY <1>1 DEF Job
    <2>3. job'[y] = r
      BY <1>1, <2>1
    <2>4. node' = IF Exists(n) THEN [node EXCEPT ![n] = [node[n] EXCEPT !.candidate = b]] ELSE node
      BY <1>8 DEF Mark
    <2>5. b \in BOOLEAN
      OBVIOUS
    <2> HIDE DEF r, n, b
    <2>6. node \in [Names -> Row \cup {None}] /\ n \in Names
      BY <1>1, <2>1
    <2>7. (\A m \in Names : Exists(m) <=> Exists(m)') /\ Published' = Published
      BY <2>5, <2>6, <2>4, MarkOnly
    <2>8. ASSUME crashes = 0 PROVE Rebuilding(y)'
      BY <1>1, <1>3, <2>1, <2>2, <2>3, <2>7, <2>8 DEF Rebuilding
    <2>9. QED
      BY <1>2, <1>a, <2>1, <2>2, <2>8, OneStep
  <1>9. CASE Cleanup(y)
    <2>1. job' = [job EXCEPT ![y] = IdleJob] /\ j.pc = "upsert" /\ j.todo = {}
          /\ UNCHANGED <<env, picked, kept>>
          /\ node' = [n \in Names |-> IF n \in Orphans(y) THEN None ELSE node[n]]
      BY <1>9 DEF Cleanup
    <2>2. IdleJob.pc = "idle" /\ job'[y] = IdleJob
      BY <1>1, <2>1, Jobs
    <2>3. ASSUME crashes = 0 PROVE Rebuilding(y)' /\ kept' \subseteq Published' /\ Published' \subseteq picked'
      <3>1. Published \subseteq picked /\ kept \subseteq Published /\ \A n \in kept : j.plan[n] # None
        BY <1>3, <2>1, <2>3 DEF Rebuilding
      <3>2. \A n \in kept : n \notin Orphans(y) /\ n \in Names
        BY <1>1, <3>1 DEF Orphans
      <3>3. \A n \in kept : node'[n] = node[n]
        BY <2>1, <3>2
      <3>4. kept \subseteq Published'
        BY <3>1, <3>3, PublishedIs
      <3>5. \A n \in Names : node'[n] = None \/ node'[n] = node[n]
        BY <2>1
      <3>6. Published' \subseteq Published
        BY <3>5, PublishedIs
      <3>7. Rebuilding(y)'
        BY <2>2 DEF Rebuilding
      <3>8. QED
        BY <2>1, <3>1, <3>4, <3>6, <3>7
    <2>4. QED
      BY <1>2, <1>a, <2>1, <2>2, <2>3, OneStep
  <1>10. QED
    BY <1>4, <1>5, <1>6, <1>7, <1>8, <1>9 DEF SyncStep

\* Everything else waits for the rebuild, and keeps what is published and what was
\* picked the same.
LEMMA FaithfulOther ==
    ASSUME Types, Faithful, Overlap = FALSE,
           \/ Rebuild
           \/ \E n \in Names : PingRead(n) \/ PingWrite(n) \/ UpdateNode(n)
           \/ \E n \in Names, publish \in BOOLEAN : Select(n, publish)
           \/ SelectMark \/ SwitchAuto
           \/ \E s \in Sources : SwitchSource(s) \/ Relabel(s)
           \/ \E y \in Threads :
               \/ \E n \in Names : DeleteNode(y, n)
               \/ \E s \in Sources : DeleteSource(y, s)
               \/ DeleteAddress(y)
           \/ Scan \/ Front
    PROVE  Faithful'
  <1>a. CASE (\E s \in Sources : Relabel(s)) \/ Scan \/ Front
    BY <1>a, ShrinkStep DEF Relabel, Scan, Front, Measured
  <1> SUFFICES ASSUME ~((\E s \in Sources : Relabel(s)) \/ Scan \/ Front) PROVE Faithful'
    BY <1>a
  <1>1. /\ \A y \in Syncers : job[y].pc = "idle"
        /\ crashes = 0 => kept \subseteq Published /\ Published \subseteq picked
    <2>1. LoopFree \/ (\E y \in Threads : ThreadFree(y)) \/ half # None
      BY DEF Rebuild, PingRead, PingWrite, UpdateNode, Select, SelectMark, SwitchAuto, SwitchSource,
             DeleteNode, DeleteSource, DeleteAddress
    <2>2. QED
      BY <2>1, CalmState
  <1>2. Loop \in Syncers /\ Threads \subseteq Syncers
    BY DEF Syncers
  <1>3. node \in [Names -> Row \cup {None}] /\ picked \in SUBSET Names /\ ping \in [Names -> Row \cup {None}]
        /\ half \in (Names \X BOOLEAN) \cup {None}
    BY DEF Types, TypeOK
  <1>4. ASSUME UNCHANGED <<node, picked>>, kept' \subseteq kept
        PROVE  Published' = Published
               /\ (crashes = 0 => kept' \subseteq Published' /\ Published' \subseteq picked')
    <2>1. Published' = Published
      BY <1>4 DEF Published, Exists
    <2>2. QED
      BY <1>1, <1>4, <2>1
  <1>b. ASSUME UNCHANGED <<env, kept>> PROVE KeptPlanned' /\ kept' \subseteq kept
    BY <1>b, PlannedSame DEF Faithful
  <1>5. ASSUME LoopFree PROVE half = None
    BY <1>5 DEF LoopFree, LoopBusy
  <1>6. ASSUME NEW y \in Threads, ThreadFree(y), Overlap = FALSE PROVE half = None
    BY <1>6 DEF ThreadFree, Quiet, LoopBusy
  <1>7. Captured.pc = "disable" /\ Captured.before = Published
    BY Jobs DEF Before
  <1>8. CASE Rebuild
    <2>1. job' = [job EXCEPT ![Loop] = Captured] /\ half' = None /\ crashes' = crashes
          /\ UNCHANGED <<node, picked>>
      BY <1>5, <1>8 DEF Rebuild, bounds
    <2>2. KeptPlanned' /\ kept' \subseteq kept
      BY <1>8, <1>b DEF Rebuild
    <2>3. Captured.before = Published' /\ (crashes = 0 => kept' \subseteq Published' /\ Published' \subseteq picked')
      BY <1>4, <1>7, <2>1, <2>2
    <2>4. QED
      BY <1>1, <1>2, <1>7, <2>1, <2>2, <2>3, BeginStep
  <1>9. ASSUME NEW s \in Sources, SwitchSource(s) PROVE Faithful'
    <2>1. job' = [job EXCEPT ![Loop] = Captured] /\ half' = None /\ crashes' = crashes
          /\ UNCHANGED <<node, picked>>
      BY <1>5, <1>9 DEF SwitchSource, Decide
    <2>2. KeptPlanned' /\ kept' \subseteq kept
      BY <1>9, KeepsPlanned DEF SwitchSource
    <2>3. Captured.before = Published' /\ (crashes = 0 => kept' \subseteq Published' /\ Published' \subseteq picked')
      BY <1>4, <1>7, <2>1, <2>2
    <2>4. QED
      BY <1>1, <1>2, <1>7, <2>1, <2>2, <2>3, BeginStep
  <1>10. ASSUME NEW y \in Threads, DeleteAddress(y) PROVE Faithful'
    <2>1. job' = [job EXCEPT ![y] = Captured] /\ half' = None /\ crashes' = crashes
          /\ UNCHANGED <<node, picked>>
      BY <1>6, <1>10 DEF DeleteAddress, Decide
    <2>2. KeptPlanned' /\ kept' \subseteq kept
      BY <1>10, KeepsPlanned DEF DeleteAddress
    <2>3. Captured.before = Published' /\ (crashes = 0 => kept' \subseteq Published' /\ Published' \subseteq picked')
      BY <1>4, <1>7, <2>1, <2>2
    <2>4. QED
      BY <1>1, <1>2, <1>7, <2>1, <2>2, <2>3, BeginStep
  <1>11. ASSUME NEW y \in Threads, NEW s \in Sources, DeleteSource(y, s) PROVE Faithful'
    <2> DEFINE S == {n \in Before : n[1] # s}
               r == [Captured EXCEPT !.before = S]
    <2>1. job' = [job EXCEPT ![y] = r] /\ half' = None /\ crashes' = crashes
      BY <1>6, <1>11 DEF DeleteSource, Decide
    <2>2. r.pc = "disable" /\ r.before = S
      BY Jobs
    <2>3. \A n \in Names : node'[n] = IF n[1] = s THEN None ELSE node[n]
      BY <1>11 DEF DeleteSource
    <2>5. Published' = S
      BY <2>3, PublishedIs DEF Before
    <2> DEFINE gone == {n \in Names : n[1] = s}
    <2>4. KeptPlanned' /\ kept' \subseteq kept \ gone /\ picked' = picked \ gone
      BY <1>11, Decision DEF DeleteSource
    <2>6. ASSUME crashes = 0 PROVE kept' \subseteq Published' /\ Published' \subseteq picked'
      BY <1>1, <1>3, <2>4, <2>5, <2>6 DEF Before
    <2> HIDE DEF r
    <2>7. QED
      BY <1>1, <1>2, <2>1, <2>2, <2>4, <2>5, <2>6, BeginStep
  <1>12. CASE \E n \in Names : PingRead(n)
    <2>1. UNCHANGED <<job, crashes, node, picked, env, kept>>
      BY <1>12 DEF PingRead
    <2>2. QED
      BY <1>1, <1>4, <1>b, <2>1, CalmStep
  <1>13. ASSUME NEW n \in Names, PingWrite(n) PROVE Faithful'
    <2> DEFINE b == ping[n].candidate
    <2>1. b \in BOOLEAN
      BY <1>3, <1>13 DEF PingWrite, Row
    <2>2. node' = IF Exists(n) THEN [node EXCEPT ![n] = [node[n] EXCEPT !.candidate = b]] ELSE node
      BY <1>13 DEF PingWrite
    <2>3. UNCHANGED <<job, crashes, picked, env, kept>>
      BY <1>13 DEF PingWrite, bounds
    <2> HIDE DEF b
    <2>4. (\A m \in Names : Exists(m) <=> Exists(m)') /\ Published' = Published
      BY <1>3, <2>1, <2>2, MarkOnly
    <2>5. QED
      BY <1>1, <1>3, <1>b, <2>3, <2>4, CalmStep
  <1>14. CASE SelectMark
    <2> DEFINE n == half[1]
               b == ~half[2]
    <2>1. n \in Names /\ b \in BOOLEAN
      BY <1>3, <1>14 DEF SelectMark
    <2>2. node' = IF Exists(n) THEN [node EXCEPT ![n] = [node[n] EXCEPT !.candidate = b]] ELSE node
      BY <1>14 DEF SelectMark
    <2>3. UNCHANGED <<job, crashes, picked, env, kept>>
      BY <1>14 DEF SelectMark, bounds
    <2> HIDE DEF n, b
    <2>4. (\A m \in Names : Exists(m) <=> Exists(m)') /\ Published' = Published
      BY <1>3, <2>1, <2>2, MarkOnly
    <2>5. QED
      BY <1>1, <1>3, <1>b, <2>3, <2>4, CalmStep
  <1>15. ASSUME NEW n \in Names, NEW b \in BOOLEAN, Exists(n), UNCHANGED <<job, crashes>>,
                node' = [node EXCEPT ![n] = [node[n] EXCEPT !.enabled = b]],
                IF b THEN Pick({n}) ELSE Unpick({n})
         PROVE  Faithful'
    <2>1. node[n] \in Row
      BY <1>3, <1>15 DEF Exists
    <2> DEFINE q == [node[n] EXCEPT !.enabled = b]
    <2>2. q \in Row /\ q.enabled = b
      BY <2>1, RowKept
    <2>3. node'[n] = q /\ q # None /\ \A m \in Names : m # n => node'[m] = node[m]
      BY <1>3, <1>15, <2>2, NoneIsNew
    <2>4. Published' = IF b THEN Published \cup {n} ELSE Published \ {n}
      <3>1. \A m \in Names : m # n => (m \in Published' <=> m \in Published)
        BY <2>3, PublishedIs
      <3>2. n \in Published' <=> b
        BY <2>2, <2>3, PublishedIs
      <3>3. Published \subseteq Names /\ Published' \subseteq Names
        BY PublishedIs
      <3>4. QED
        BY <3>1, <3>2, <3>3
    <2>5. /\ KeptPlanned'
          /\ kept' \subseteq IF b THEN kept \cup {n} ELSE kept \ {n}
          /\ picked' = IF b THEN picked \cup {n} ELSE picked \ {n}
      BY <1>15, Decision
    <2>6. crashes = 0 => kept' \subseteq Published' /\ Published' \subseteq picked'
      BY <1>1, <2>4, <2>5
    <2>7. QED
      BY <1>1, <1>15, <2>5, <2>6, CalmStep
  <1>16. ASSUME NEW n \in Names, UpdateNode(n) PROVE Faithful'
    <2> DEFINE b == ~node[n].enabled
    <2>1. b \in BOOLEAN /\ node' = [node EXCEPT ![n] = [node[n] EXCEPT !.enabled = b]]
      BY <1>16 DEF UpdateNode
    <2>2. IF b THEN Pick({n}) ELSE Unpick({n})
      BY <1>16 DEF UpdateNode
    <2>3. Exists(n) /\ UNCHANGED <<job, crashes>>
      BY <1>16 DEF UpdateNode, Decide
    <2> HIDE DEF b
    <2>4. QED
      BY <1>15, <2>1, <2>2, <2>3
  <1>17. ASSUME NEW n \in Names, NEW publish \in BOOLEAN, Select(n, publish) PROVE Faithful'
    <2>1. /\ node' = [node EXCEPT ![n] = [node[n] EXCEPT !.enabled = publish]]
          /\ IF publish THEN Pick({n}) ELSE Unpick({n})
          /\ Exists(n) /\ UNCHANGED <<job, crashes>>
      BY <1>17 DEF Select, Decide
    <2>2. QED
      BY <1>15, <2>1
  <1>18. CASE SwitchAuto
    <2>1. PICK taken : /\ taken \subseteq Candidates
                       /\ node' = [n \in Names |-> IF n \in taken
                            THEN [node[n] EXCEPT !.enabled = TRUE, !.candidate = FALSE] ELSE node[n]]
                       /\ Pick(taken)
      BY <1>18 DEF SwitchAuto
    <2>2. \A n \in taken : n \in Names /\ node[n] \in Row
      BY <1>3, <2>1 DEF Candidates, Exists
    <2>3. \A n \in taken : node'[n] \in Row /\ node'[n].enabled = TRUE
      BY <2>1, <2>2 DEF Row
    <2>4. \A n \in taken : node'[n] # None /\ node'[n].enabled
      BY <2>3, NoneIsNew
    <2>5. \A n \in Names : n \notin taken => node'[n] = node[n]
      BY <2>1
    <2>6. Published' = Published \cup taken
      BY <2>2, <2>4, <2>5, PublishedIs
    <2>7. KeptPlanned' /\ kept' \subseteq kept \cup taken /\ picked' = picked \cup taken
      BY <2>1, Decision
    <2>9. crashes = 0 => kept' \subseteq Published' /\ Published' \subseteq picked'
      BY <1>1, <2>6, <2>7
    <2>10. UNCHANGED <<job, crashes>>
      BY <1>18 DEF SwitchAuto, Decide
    <2>11. QED
      BY <1>1, <2>7, <2>9, <2>10, CalmStep
  <1>19. ASSUME NEW y \in Threads, NEW n \in Names, DeleteNode(y, n) PROVE Faithful'
    <2>1. /\ node' = [node EXCEPT ![n] = None]
          /\ Unpick({n})
          /\ UNCHANGED <<job, crashes>>
      BY <1>19 DEF DeleteNode, Decide
    <2>2. node'[n] = None /\ \A m \in Names : m # n => node'[m] = node[m]
      BY <1>3, <2>1
    <2>3. Published' = Published \ {n}
      BY <2>2, PublishedIs
    <2>4. KeptPlanned' /\ kept' \subseteq kept \ {n} /\ picked' = picked \ {n}
      BY <2>1, Decision
    <2>5. crashes = 0 => kept' \subseteq Published' /\ Published' \subseteq picked'
      BY <1>1, <2>3, <2>4
    <2>6. QED
      BY <1>1, <2>1, <2>4, <2>5, CalmStep
  <1>20. QED
    BY <1>8, <1>9, <1>10, <1>11, <1>12, <1>13, <1>14, <1>16, <1>17, <1>18, <1>19

\* Every action keeps the picks.
LEMMA FaithfulStep ==
    ASSUME Types, Faithful, Overlap = FALSE, [Next]_vars
    PROVE  Faithful'
  <1>1. CASE Crash
    <2>1. job' = [y \in Syncers |-> IdleJob] /\ half' = None /\ crashes' = crashes + 1
      BY <1>1 DEF Crash
    <2>2. crashes' # 0
      BY <2>1 DEF Types, TypeOK
    <2>3. Serial'
      BY <2>1, Jobs DEF Serial
    <2>4. KeptPlanned'
      BY <1>1, KeepsPlanned DEF Crash
    <2>5. QED
      BY <2>2, <2>3, <2>4 DEF Faithful
  <1>2. CASE UNCHANGED vars
    <2>1. Serial' /\ crashes' = crashes /\ KeptPlanned'
      BY <1>2, PlannedSame DEF Faithful, Serial, vars, bounds
    <2>2. crashes = 0 => Resting'
      BY <1>2 DEF Faithful, Resting, Between, Published, Exists, vars
    <2>3. crashes = 0 => \A y \in Syncers : Rebuilding(y)'
      BY <1>2 DEF Faithful, Rebuilding, Between, Published, Exists, vars
    <2>4. QED
      BY <2>1, <2>2, <2>3 DEF Faithful
  <1>3. QED
    BY <1>1, <1>2, FaithfulSync, FaithfulOther DEF Next

\* As long as the process lives and no rebuild runs inside another, users see between
\* rebuilds every node that was picked and whose name the plan never lost since (by a
\* ranking, a relabelled location, a switch or a front), and none that nobody picked.
THEOREM PicksArePublished == ASSUME Overlap = FALSE PROVE Spec => []PublishedIsPicked
  <1>1. Types /\ Faithful /\ [Next]_vars => (Types /\ Faithful)'
    BY TypesStep, FaithfulStep
  <1>2. Types /\ Faithful => PublishedIsPicked
    BY DEF PublishedIsPicked, Quiet, LoopBusy, Syncers, Faithful, Resting, Between
  <1>3. QED
    BY TypesInit, FaithfulInit, <1>1, <1>2, PTL DEF Spec
=============================================================================
