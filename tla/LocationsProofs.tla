--------------------------- MODULE LocationsProofs ---------------------------
(***************************************************************************)
(* Proofs about Locations, for any places, addresses, offers and packs and *)
(* every bound: the shape of its state; no two locations publish a node    *)
(* under one name; the alignment spares what is pinned; and a pack is in   *)
(* the list whole or not at all.                                           *)
(***************************************************************************)
EXTENDS Locations, Integers, FiniteSetTheorems, WellFoundedInduction, TLAPS

Stages == {"idle", "job", "geo", "look", "align", "sync"}

\* A caller is in the middle of a job exactly when it has one, and it has steps left.
Jobs ==
    /\ job \in [Callers -> Job \cup {None}]
    /\ at \in [Callers -> Stages]
    /\ \A c \in Callers : job[c] = None <=> at[c] # "job"
    /\ \A c \in Callers : job[c] # None => job[c].todo # <<>>

\* ... and the same for a measurement.
Looks ==
    /\ look \in [Callers -> Look \cup {None}]
    /\ \A c \in Callers : look[c] = None <=> at[c] # "look"

Node(n) == n.id \in Ids /\ n.country \in Countries /\ n.server \in Addrs \cup {None}

World ==
    /\ answers \in [Addrs -> Answers] /\ lookups \in BOOLEAN
    /\ pool \subseteq Addrs /\ fetched \in BOOLEAN
    /\ \A n \in catalog : Node(n)

Counters ==
    /\ edits \in 0..MaxEdits /\ failures \in 0..MaxFailures
    /\ installed \in [1..Len(Packs) -> Nat] /\ single \in BOOLEAN

Types == sources \in Lists /\ Jobs /\ Looks /\ World /\ Counters

-----------------------------------------------------------------------------
(* What the operators return.                                              *)

\* A list is a function from ids to locations.
LEMMA ListFacts ==
    /\ \A all \in Lists : DOMAIN all \subseteq Ids /\ \A id \in DOMAIN all : all[id] \in Source
    /\ \A S \in SUBSET Ids : \A f \in [S -> Source] : f \in Lists
    /\ <<>> \in Lists
  <1>1. <<>> \in [{} -> Source]
    OBVIOUS
  <1>2. QED
    BY <1>1 DEF Lists

\* There is a first spelling of a place that is free, when any is.
LEMMA FreshIdFree ==
    ASSUME NEW all, NEW place \in Countries, HasRoom(place, all)
    PROVE  FreshId(place, all) \in Ids \ DOMAIN all /\ FreshId(place, all)[1] = place
  <1> DEFINE Free == {n \in 1..MaxSuffix : <<place, n>> \notin DOMAIN all}
             Less == {ss \in Nat \X Nat : ss[1] < ss[2]}
  <1>1. IsWellFoundedOn(Less, Nat)
    BY NatLessThanWellFounded DEF OpToRel
  <1>2. Free \subseteq Nat /\ Free # {}
    BY BoundsAreNat DEF HasRoom
  <1>3. PICK n \in Free : \A k \in Free : ~(<<k, n>> \in Less)
    <2> HIDE DEF Free, Less
    <2>1. QED
      BY <1>1, <1>2, WFMin
  <1>4. \A k \in 1..(n - 1) : <<place, k>> \in DOMAIN all
    <2>1. SUFFICES ASSUME NEW k \in 1..(n - 1), <<place, k>> \notin DOMAIN all PROVE FALSE
      OBVIOUS
    <2>2. k \in Free /\ <<k, n>> \in Less
      BY <1>2, <2>1, BoundsAreNat
    <2>3. QED
      BY <1>3, <2>2
  <1>5. \E m \in 1..MaxSuffix : /\ <<place, m>> \notin DOMAIN all
                                /\ \A k \in 1..(m - 1) : <<place, k>> \in DOMAIN all
    BY <1>3, <1>4
  <1>6. QED
    BY <1>5 DEF FreshId, Ids

\* What a measurement says of a location is a country or nothing.
LEMMA HomeIsCountry ==
    ASSUME NEW s \in Source
    PROVE  Measured(s) \in Countries \cup {None} /\ Home(s) \in Countries
  <1>1. Majority(s.own) \in Countries \cup {None}
    <2> DEFINE winners == {c \in Countries : /\ Votes(s.own, c) > 0
                                             /\ \A d \in Countries \ {c} : Votes(s.own, d) < Votes(s.own, c)}
    <2>1. Majority(s.own) = IF winners = {} THEN None ELSE CHOOSE c \in winners : TRUE
      BY DEF Majority
    <2>2. winners \subseteq Countries
      OBVIOUS
    <2> HIDE DEF winners
    <2>3. QED
      BY <2>1, <2>2
  <1>2. s.location \in Countries
    BY DEF Source
  <1>3. QED
    BY <1>1, <1>2 DEF Measured, Home

\* Relabelling changes the country of a location, if anything.
LEMMA RelabelType ==
    ASSUME NEW s \in Source
    PROVE  /\ Relabel(s) \in Source /\ Relabel(s).pack = s.pack
           /\ ~s.autolabel => Relabel(s) = s
  <1>1. CASE Relabel(s) = s
    BY <1>1
  <1>2. CASE Relabel(s) # s
    <2>1. Relabel(s) = [s EXCEPT !.location = Measured(s)] /\ Measured(s) # None /\ s.autolabel
      BY <1>2 DEF Relabel
    <2>2. Measured(s) \in Countries
      BY <2>1, HomeIsCountry
    <2>3. QED
      BY <2>1, <2>2 DEF Source
  <1>3. QED
    BY <1>1, <1>2

\* ... of any of them.
LEMMA AlignedType ==
    ASSUME NEW all \in Lists
    PROVE  /\ Aligned(all) \in Lists /\ DOMAIN Aligned(all) = DOMAIN all
           /\ \A id \in DOMAIN all : /\ Aligned(all)[id].pack = all[id].pack
                                     /\ ~all[id].autolabel => Aligned(all)[id] = all[id]
  <1>1. CASE ~lookups
    BY <1>1 DEF Aligned
  <1>2. CASE lookups
    <2>1. Aligned(all) = [id \in DOMAIN all |-> Relabel(all[id])]
      BY <1>2 DEF Aligned
    <2>2. \A id \in DOMAIN all : /\ Relabel(all[id]) \in Source /\ Relabel(all[id]).pack = all[id].pack
                                 /\ ~all[id].autolabel => Relabel(all[id]) = all[id]
      BY ListFacts, RelabelType
    <2>3. Aligned(all) \in [DOMAIN all -> Source]
      BY <2>1, <2>2
    <2>4. QED
      BY <2>1, <2>2, <2>3, ListFacts
  <1>3. QED
    BY <1>1, <1>2

\* Which step it is decides what it holds.
LEMMA StepFacts ==
    ASSUME NEW step \in Steps
    PROVE  /\ step.do \in {"add", "put", "drop", "align"}
           /\ step.do = "add" => step.offer \in Offer /\ step.pack \in 0..Len(Packs)
           /\ step.do = "put" => step.id \in Ids /\ step.source \in Source
           /\ step.do = "drop" => step.id \in Ids
  BY DEF Steps

\* A new location is enabled, and labelled with the place it was defined for.
LEMMA NewSourceType ==
    ASSUME NEW o \in Offer, NEW pack \in 0..Len(Packs)
    PROVE  NewSource(o, pack) \in Source /\ NewSource(o, pack).pack = pack
  BY DEF NewSource, Offer, Source

\* Each step turns a list into a list.
LEMMA ResultType ==
    ASSUME NEW all \in Lists, NEW step \in Steps,
           step.do = "add" => HasRoom(step.offer.place, all)
    PROVE  Result(step, all) \in Lists
  <1>0. DOMAIN all \subseteq Ids /\ \A id \in DOMAIN all : all[id] \in Source
    BY ListFacts
  <1>1. ASSUME NEW id \in Ids, NEW s \in Source
        PROVE  With(all, id, s) \in Lists
    <2>1. With(all, id, s) \in [DOMAIN all \cup {id} -> Source]
      BY <1>0, <1>1 DEF With
    <2>2. DOMAIN all \cup {id} \in SUBSET Ids
      BY <1>0, <1>1
    <2>3. QED
      BY <2>1, <2>2, ListFacts
  <1>2. CASE step.do = "add"
    <2>1. step.offer.place \in Countries
      BY <1>2, StepFacts DEF Offer
    <2>2. FreshId(step.offer.place, all) \in Ids
      BY <1>2, <2>1, FreshIdFree
    <2>3. NewSource(step.offer, step.pack) \in Source
      BY <1>2, StepFacts, NewSourceType
    <2>4. QED
      BY <1>1, <1>2, <2>2, <2>3 DEF Result
  <1>3. CASE step.do = "put"
    BY <1>1, <1>3, StepFacts DEF Result
  <1>4. CASE step.do = "drop"
    <2>1. Without(all, step.id) \in [DOMAIN all \ {step.id} -> Source]
      BY <1>0 DEF Without
    <2>2. QED
      BY <1>0, <1>4, <2>1, ListFacts DEF Result
  <1>5. CASE step.do = "align"
    BY <1>5, AlignedType DEF Result
  <1>6. QED
    BY <1>2, <1>3, <1>4, <1>5, StepFacts

\* What a rebuild publishes are nodes of configured locations.
LEMMA PlanType ==
    ASSUME sources \in Lists, NEW known \in SUBSET Addrs, NEW n \in Plan(known)
    PROVE  /\ Node(n)
           /\ \E id \in Configured : n.id = id /\ n.name = NodeName(id, sources[id])
  <1>1. PICK id \in Configured : n \in NodesOf(id, sources[id], known)
    BY DEF Plan, EnabledIn, Configured
  <1>2. id \in Ids /\ sources[id] \in Source
    BY <1>1, ListFacts DEF Configured
  <1> DEFINE s == sources[id]
  <1>3. Home(s) \in Countries /\ s.location \in Countries /\ s.own \subseteq Addrs
    BY <1>2, HomeIsCountry DEF Source
  <1>4. Published(s, known) \subseteq Addrs
    BY <1>3 DEF Published, Candidates
  <1>5. /\ n.id = id /\ n.name = NodeName(id, s)
        /\ n.country \in {IF s.kind = "ip" THEN Home(s) ELSE s.location}
        /\ n.server \in (IF s.kind = "ip" THEN Published(s, known) ELSE {None})
    BY <1>1 DEF NodesOf
  <1>6. QED
    BY <1>1, <1>2, <1>3, <1>4, <1>5 DEF Node

-----------------------------------------------------------------------------
(* The types.                                                              *)

\* A caller that begins a job.
LEMMA StartTypes ==
    ASSUME Jobs, Looks, NEW c \in Callers, NEW todo \in Seq(Steps), todo # <<>>,
           NEW next \in {"geo", "sync", "idle"}, at[c] # "look",
           Start(c, todo, next), UNCHANGED look
    PROVE  /\ Jobs' /\ Looks'
           /\ job'[c] = [todo |-> todo, items |-> None, next |-> next]
           /\ \A d \in Callers \ {c} : job'[d] = job[d]
  <1> DEFINE j == [todo |-> todo, items |-> None, next |-> next]
  <1>1. j \in Job /\ j.todo = todo
    BY DEF Job
  <1>2. j # None
    BY <1>1, NoneIsNoRecord
  <1>3. job' = [job EXCEPT ![c] = j] /\ at' = [at EXCEPT ![c] = "job"]
    BY DEF Start
  <1> HIDE DEF j
  <1>4. Jobs'
    BY <1>1, <1>2, <1>3 DEF Jobs, Stages
  <1>5. Looks'
    BY <1>3 DEF Looks, Jobs
  <1>6. QED
    BY <1>3, <1>4, <1>5 DEF Jobs, j

\* A step of a job that is over.
LEMMA AdvanceTypes ==
    ASSUME Jobs, Looks, NEW c \in Callers, job[c] # None, Advance(c), UNCHANGED look
    PROVE  /\ Jobs' /\ Looks'
           /\ \A d \in Callers \ {c} : job'[d] = job[d]
           /\ \/ Tail(job[c].todo) = <<>> /\ job'[c] = None
              \/ /\ Tail(job[c].todo) # <<>> /\ job'[c] # None
                 /\ job'[c].todo = Tail(job[c].todo) /\ job'[c].items = None
  <1>1. /\ job[c] \in Job /\ job[c].todo # <<>> /\ at[c] = "job" /\ job[c].todo \in Seq(Steps)
        /\ job[c].next \in {"geo", "sync", "idle"}
    BY DEF Jobs, Job
  <1> DEFINE rest == Tail(job[c].todo)
             j == [job[c] EXCEPT !.todo = rest, !.items = None]
  <1>2. rest \in Seq(Steps)
    BY <1>1
  <1>3. CASE rest = <<>>
    <2>1. job' = [job EXCEPT ![c] = None] /\ at' = [at EXCEPT ![c] = job[c].next]
      BY <1>3 DEF Advance
    <2>2. Jobs'
      BY <1>1, <2>1 DEF Jobs, Stages
    <2>3. Looks'
      BY <1>1, <2>1 DEF Looks, Jobs
    <2>4. QED
      BY <1>3, <2>1, <2>2, <2>3 DEF Jobs
  <1>4. CASE rest # <<>>
    <2>1. job' = [job EXCEPT ![c] = j] /\ at' = at
      BY <1>4 DEF Advance
    <2>2. j \in Job /\ j.todo = rest /\ j.items = None
      BY <1>1, <1>2 DEF Job
    <2>3. j # None
      BY <2>2, NoneIsNoRecord
    <2> HIDE DEF j, rest
    <2>4. Jobs'
      BY <1>1, <1>4, <2>1, <2>2, <2>3 DEF Jobs
    <2>5. Looks'
      BY <2>1 DEF Looks
    <2>6. QED
      BY <1>4, <2>1, <2>2, <2>3, <2>4, <2>5 DEF Jobs, rest
  <1>5. QED
    BY <1>3, <1>4

\* Reading and writing the list.
LEMMA JobTypes ==
    ASSUME Types, NEW c \in Callers, JobRead(c) \/ JobWrite(c)
    PROVE  Types'
  <1>0. /\ job[c] # None /\ job[c] \in Job /\ job[c].todo # <<>> /\ Head(job[c].todo) \in Steps
        /\ sources \in Lists /\ Jobs /\ Looks /\ World /\ Counters
    <2>1. job[c] # None
      BY DEF JobRead, JobWrite
    <2>2. job[c] \in Job /\ job[c].todo # <<>>
      BY <2>1 DEF Types, Jobs
    <2>3. job[c].todo \in Seq(Steps)
      BY <2>2 DEF Job
    <2>4. QED
      BY <2>1, <2>2, <2>3 DEF Types
  <1>1. CASE JobRead(c)
    <2>1. UNCHANGED <<sources, answers, lookups, pool, fetched, catalog, look, edits, failures, installed, single>>
      BY <1>1 DEF JobRead, world, counts, history
    <2>2. World' /\ Counters'
      BY <1>0, <2>1 DEF World, Counters, Node
    <2>3. CASE Skipped(Head(job[c].todo))
      BY <1>0, <1>1, <2>1, <2>2, <2>3, AdvanceTypes DEF JobRead, Types
    <2>4. CASE ~Skipped(Head(job[c].todo))
      <3> DEFINE list == Result(Head(job[c].todo), sources)
                 j == [job[c] EXCEPT !.items = list]
      <3>1. job' = [job EXCEPT ![c] = j] /\ at' = at
        BY <1>1, <2>4 DEF JobRead
      <3>2. list \in Lists
        BY <1>0, <2>4, ResultType DEF Skipped
      <3> HIDE DEF list
      <3>3. j \in Job /\ j.todo = job[c].todo
        BY <1>0, <3>2 DEF Job
      <3>4. j # None
        BY <3>3, NoneIsNoRecord
      <3> HIDE DEF j
      <3>5. Jobs'
        BY <1>0, <3>1, <3>3, <3>4 DEF Jobs
      <3>6. Looks'
        BY <1>0, <2>1, <3>1 DEF Looks
      <3>7. QED
        BY <1>0, <2>1, <2>2, <3>5, <3>6 DEF Types
    <2>5. QED
      BY <2>3, <2>4
  <1>2. CASE JobWrite(c)
    <2>1. /\ sources' = job[c].items /\ job[c].items # None /\ catalog' \subseteq catalog
          /\ UNCHANGED <<answers, lookups, pool, fetched, look, edits, failures, installed, single>>
          /\ Advance(c)
      BY <1>2 DEF JobWrite, counts, history
    <2>2. sources' \in Lists
      BY <1>0, <2>1 DEF Job
    <2>3. World' /\ Counters'
      BY <1>0, <2>1 DEF World, Counters, Node
    <2>4. QED
      BY <1>0, <2>1, <2>2, <2>3, AdvanceTypes DEF Types
  <1>3. QED
    BY <1>1, <1>2

\* There are finitely many ids.
LEMMA IdsFinite == \A S \in SUBSET Ids : IsFiniteSet(S)
  <1>1. IsFiniteSet(1..MaxSuffix)
    BY FS_Interval, BoundsAreNat
  <1>2. IsFiniteSet(Ids)
    BY <1>1, CountriesAreNames, FS_Product DEF Ids
  <1>3. QED
    BY <1>2, FS_Subset

\* A finite set in some order, each element once.
LEMMA SetToSeqFacts ==
    ASSUME NEW S, IsFiniteSet(S)
    PROVE  /\ SetToSeq(S) \in [1..Cardinality(S) -> S] /\ IsInjective(SetToSeq(S))
           /\ Cardinality(S) \in Nat
           /\ \A x \in S : \E i \in 1..Cardinality(S) : SetToSeq(S)[i] = x
  <1> DEFINE f == SetToSeq(S)
             n == Cardinality(S)
  <1>1. f \in [1..n -> S] /\ IsInjective(f) /\ n \in Nat
    <2>1. PICK g : ExistsBijection(1..n, S) /\ n \in Nat
      BY FS_CardinalityType
    <2>2. \E h \in [1..n -> S] : IsInjective(h)
      BY <2>1 DEF ExistsBijection, Bijection, Injection, IsInjective
    <2>3. QED
      BY <2>1, <2>2 DEF SetToSeq
  <1>2. \A x \in S : \E i \in 1..n : f[i] = x
    <2> DEFINE T == {f[i] : i \in 1..n}
    <2>1. f \in Bijection(1..n, T)
      BY <1>1 DEF Bijection, Injection, Surjection, IsInjective
    <2>2. IsFiniteSet(1..n) /\ Cardinality(1..n) = n
      BY <1>1, FS_Interval
    <2>3. IsFiniteSet(T) /\ Cardinality(T) = n
      <3>1. ExistsBijection(1..n, T)
        BY <2>1 DEF ExistsBijection
      <3> HIDE DEF T
      <3>2. QED
        BY <2>2, <3>1, FS_Bijection
    <2>4. T \in SUBSET S
      BY <1>1
    <2>5. T = S
      BY <2>3, <2>4, FS_Subset
    <2>6. QED
      BY <2>5
  <1>3. QED
    BY <1>1, <1>2

-----------------------------------------------------------------------------
(* What the requests ask for.                                              *)

\* A definition is still one when the panel lends it a host.
LEMMA LentType ==
    ASSUME NEW o \in Offer, NEW worker \in BOOLEAN
    PROVE  /\ Lent(o, worker) \in Offer /\ Lent(o, worker).place = o.place
           /\ Lent(o, worker).hosted = (o.hosted \/ worker)
  <1> DEFINE hosted == o.hosted \/ worker
  <1>1. hosted \in BOOLEAN
    OBVIOUS
  <1>2. Lent(o, worker) = [o EXCEPT !.hosted = hosted]
    BY DEF Lent
  <1> HIDE DEF hosted
  <1>3. /\ Lent(o, worker) \in Offer /\ Lent(o, worker).place = o.place
        /\ Lent(o, worker).hosted = hosted
    BY <1>1, <1>2 DEF Offer
  <1>4. QED
    BY <1>3 DEF hosted

\* A location an admin edited or switched belongs to its pack as before.
LEMMA EditedType ==
    ASSUME NEW s \in Source, NEW place \in Countries
    PROVE  /\ Edited(s, place) \in Source /\ Edited(s, place).pack = s.pack
           /\ [s EXCEPT !.enabled = ~@] \in Source /\ [s EXCEPT !.enabled = ~@].pack = s.pack
  <1> DEFINE auto == s.autolabel /\ place = s.location
             on == ~s.enabled
  <1>1. auto \in BOOLEAN /\ on \in BOOLEAN
    OBVIOUS
  <1>2. Edited(s, place) = [s EXCEPT !.location = place, !.autolabel = auto]
    BY DEF Edited
  <1>3. [s EXCEPT !.enabled = ~@] = [s EXCEPT !.enabled = on]
    OBVIOUS
  <1> HIDE DEF auto, on
  <1>4. /\ [s EXCEPT !.location = place, !.autolabel = auto] \in Source
        /\ [s EXCEPT !.location = place, !.autolabel = auto].pack = s.pack
        /\ [s EXCEPT !.enabled = on] \in Source /\ [s EXCEPT !.enabled = on].pack = s.pack
    BY <1>1 DEF Source
  <1>5. QED
    BY <1>2, <1>3, <1>4

\* The steps of each job.
LEMMA StepTypes ==
    /\ \A o \in Offer, pack \in 0..Len(Packs) : Add(o, pack) \in Steps
    /\ \A id \in Ids, s \in Source : Put(id, s) \in Steps
    /\ \A id \in Ids : Drop(id) \in Steps
    /\ Align \in Steps
  BY DEF Add, Put, Drop, Align, Steps

\* A pack is a list of definitions, and not an empty one.
LEMMA PackFacts ==
    ASSUME NEW p \in 1..Len(Packs)
    PROVE  /\ Packs[p] \in Seq(Offer) /\ Len(Packs[p]) \in Nat \ {0} /\ p \in 0..Len(Packs)
           /\ \A i \in 1..Len(Packs[p]) : Packs[p][i] \in Offer
  <1>1. Packs \in Seq(Seq(Offer)) /\ p \in DOMAIN Packs /\ Packs[p] # <<>>
    BY Definitions
  <1>2. Packs[p] \in Seq(Offer)
    BY <1>1
  <1>3. QED
    BY <1>1, <1>2

\* Installing a pack saves its definitions one after the other.
LEMMA InstallationFacts ==
    ASSUME NEW p \in 1..Len(Packs), NEW worker \in BOOLEAN
    PROVE  /\ Installation(p, worker) \in Seq(Steps)
           /\ Len(Installation(p, worker)) = Len(Packs[p]) /\ Installation(p, worker) # <<>>
           /\ \A i \in 1..Len(Packs[p]) :
                 Installation(p, worker)[i] = Add(Lent(Packs[p][i], worker), p)
  <1> DEFINE n == Len(Packs[p])
             step(i) == Add(Lent(Packs[p][i], worker), p)
  <1>1. n \in Nat \ {0} /\ \A i \in 1..n : step(i) \in Steps
    BY PackFacts, LentType, StepTypes
  <1>2. Installation(p, worker) = [i \in 1..n |-> step(i)]
    BY DEF Installation
  <1> HIDE DEF n, step
  <1>3. /\ Installation(p, worker) \in Seq(Steps) /\ Len(Installation(p, worker)) = n
        /\ Installation(p, worker) # <<>>
    BY <1>1, <1>2
  <1>4. QED
    BY <1>1, <1>2, <1>3 DEF n, step

\* Removing one drops its locations one after the other.
Removal(p) == [i \in DOMAIN SetToSeq(Members(p)) |-> Drop(SetToSeq(Members(p))[i])]

\* Its steps drop the members of the pack, one each.
LEMMA RemovalFacts ==
    ASSUME sources \in Lists, NEW p \in 1..Len(Packs), SetToSeq(Members(p)) # <<>>
    PROVE  /\ Removal(p) \in Seq(Steps) /\ Removal(p) # <<>>
           /\ Len(Removal(p)) = Cardinality(Members(p)) /\ Cardinality(Members(p)) \in Nat
           /\ \A i \in 1..Cardinality(Members(p)) : Removal(p)[i] = Drop(SetToSeq(Members(p))[i])
  <1> DEFINE order == SetToSeq(Members(p))
             n == Cardinality(Members(p))
  <1>1. Members(p) \subseteq Ids
    BY ListFacts DEF Members, Configured
  <1>2. order \in [1..n -> Members(p)] /\ n \in Nat
    BY <1>1, IdsFinite, SetToSeqFacts
  <1>3. n # 0
    <2>1. SUFFICES ASSUME n = 0 PROVE FALSE
      OBVIOUS
    <2>2. order \in Seq(Ids) /\ Len(order) = 0
      BY <1>1, <1>2, <2>1
    <2>3. QED
      BY <2>2
  <1> DEFINE step(i) == Drop(order[i])
  <1>4. \A i \in 1..n : step(i) \in Steps
    BY <1>1, <1>2, StepTypes
  <1>5. Removal(p) = [i \in 1..n |-> step(i)]
    BY <1>2 DEF Removal
  <1> HIDE DEF n, step, order
  <1>6. Removal(p) \in Seq(Steps) /\ Removal(p) # <<>> /\ Len(Removal(p)) = n
    BY <1>2, <1>3, <1>4, <1>5
  <1>7. QED
    BY <1>2, <1>5, <1>6 DEF n, step, order

\* A request that begins a job.
LEMMA RequestTypes ==
    ASSUME Types, NEW c \in Callers, NEW todo \in Seq(Steps), todo # <<>>,
           NEW next \in {"geo", "sync", "idle"}, Request(c), Start(c, todo, next),
           installed' \in [1..Len(Packs) -> Nat], single' \in BOOLEAN
    PROVE  Types'
  <1>1. /\ at[c] = "idle" /\ edits < MaxEdits /\ edits' = edits + 1
        /\ UNCHANGED <<sources, answers, lookups, pool, fetched, catalog, look, failures>>
    BY DEF Request
  <1>2. Jobs' /\ Looks'
    BY <1>1, StartTypes DEF Types
  <1>3. World' /\ Counters'
    BY <1>1, BoundsAreNat DEF Types, World, Counters, Node
  <1>4. QED
    BY <1>1, <1>2, <1>3 DEF Types

\* Each request that begins a job.
LEMMA RequestsTyped ==
    ASSUME Types, NEW h \in Handlers,
           CreateSource(h) \/ EditSource(h) \/ ToggleSource(h) \/ InstallPack(h)
              \/ UninstallPack(h) \/ Import(h)
    PROVE  Types'
  <1>0. /\ h \in Callers /\ sources \in Lists
        /\ installed \in [1..Len(Packs) -> Nat] /\ single \in BOOLEAN /\ 0 \in 0..Len(Packs)
        /\ Offers \subseteq Offer
    BY Definitions DEF Callers, Coroutines, Types, Counters
  <1>a. \A id \in Configured : id \in Ids /\ sources[id] \in Source
    BY <1>0, ListFacts DEF Configured
  <1>1. CASE CreateSource(h)
    <2>1. PICK o \in Offers : /\ o.hosted /\ HasRoom(o.place, sources)
                              /\ Request(h) /\ Start(h, <<Add(o, 0)>>, "geo")
                              /\ UNCHANGED history
      BY <1>1 DEF CreateSource
    <2>2. Add(o, 0) \in Steps
      BY <1>0, StepTypes
    <2> DEFINE todo == <<Add(o, 0)>>
    <2>3. todo \in Seq(Steps) /\ todo # <<>>
      BY <2>2
    <2>4. installed' = installed /\ single' = single
      BY <2>1 DEF history
    <2> HIDE DEF todo
    <2>5. QED
      BY <1>0, <2>1, <2>3, <2>4, RequestTypes DEF todo
  <1>2. CASE EditSource(h)
    <2>1. PICK id \in Configured, place \in Countries :
              /\ Request(h) /\ Start(h, <<Put(id, Edited(sources[id], place))>>, "geo")
              /\ UNCHANGED history
      BY <1>2 DEF EditSource
    <2> DEFINE todo == <<Put(id, Edited(sources[id], place))>>
    <2>2. todo \in Seq(Steps) /\ todo # <<>>
      <3>1. Edited(sources[id], place) \in Source
        BY <1>a, EditedType
      <3>2. Put(id, Edited(sources[id], place)) \in Steps
        BY <1>a, <3>1, StepTypes
      <3>3. QED
        BY <3>2
    <2>3. installed' = installed /\ single' = single
      BY <2>1 DEF history
    <2> HIDE DEF todo
    <2>4. QED
      BY <1>0, <2>1, <2>2, <2>3, RequestTypes DEF todo
  <1>3. CASE ToggleSource(h)
    <2>1. PICK id \in Configured :
              /\ Request(h) /\ Start(h, <<Put(id, [sources[id] EXCEPT !.enabled = ~@])>>, "sync")
              /\ UNCHANGED history
      BY <1>3 DEF ToggleSource
    <2> DEFINE todo == <<Put(id, [sources[id] EXCEPT !.enabled = ~@])>>
    <2>2. todo \in Seq(Steps) /\ todo # <<>>
      <3>1. \A s \in Source : s.location \in Countries /\ [s EXCEPT !.enabled = ~@] \in Source
        <4>1. \A s \in Source : s.location \in Countries
          BY DEF Source
        <4>2. QED
          BY <4>1, EditedType
      <3>2. [sources[id] EXCEPT !.enabled = ~@] \in Source
        BY <1>a, <3>1
      <3>3. QED
        BY <1>a, <3>2, StepTypes
    <2>3. installed' = installed /\ single' = single
      BY <2>1 DEF history
    <2> HIDE DEF todo
    <2>4. QED
      BY <1>0, <2>1, <2>2, <2>3, RequestTypes DEF todo
  <1>4. CASE InstallPack(h)
    <2>1. PICK p \in 1..Len(Packs), worker \in BOOLEAN :
              /\ Request(h) /\ Start(h, Installation(p, worker), "geo")
              /\ installed' = [installed EXCEPT ![p] = @ + 1]
              /\ UNCHANGED single
      BY <1>4 DEF InstallPack
    <2>2. installed' \in [1..Len(Packs) -> Nat]
      BY <1>0, <2>1
    <2>3. QED
      BY <1>0, <2>1, <2>2, InstallationFacts, RequestTypes
  <1>5. CASE UninstallPack(h)
    <2>1. PICK p \in 1..Len(Packs) :
              /\ SetToSeq(Members(p)) # <<>>
              /\ Request(h) /\ Start(h, Removal(p), "idle")
              /\ installed' = [installed EXCEPT ![p] = 0]
              /\ UNCHANGED single
      BY <1>5 DEF UninstallPack, Removal
    <2>2. installed' \in [1..Len(Packs) -> Nat]
      BY <1>0, <2>1
    <2>3. QED
      BY <1>0, <2>1, <2>2, RemovalFacts, RequestTypes
  <1>6. CASE Import(h)
    <2>1. PICK o \in Entries, q \in Entries :
              /\ Request(h) /\ Start(h, ImportPlan(o, q), "geo")
              /\ UNCHANGED history
      BY <1>6 DEF Import
    <2>2. Add(o, 0) \in Steps /\ Add(q, 0) \in Steps
      BY <1>0, StepTypes DEF Entries
    <2>3. ImportPlan(o, q) \in Seq(Steps) /\ ImportPlan(o, q) # <<>>
      BY <2>2 DEF ImportPlan
    <2>4. installed' = installed /\ single' = single
      BY <2>1 DEF history
    <2>5. QED
      BY <1>0, <2>1, <2>3, <2>4, RequestTypes
  <1>7. QED
    BY <1>1, <1>2, <1>3, <1>4, <1>5, <1>6

\* A caller that goes from one stage to another, with no job and no measurement.
LEMMA MovesTyped ==
    ASSUME Types, NEW c \in Callers, NEW stage \in Stages \ {"job", "look"},
           at[c] \notin {"job", "look"}, at' = [at EXCEPT ![c] = stage],
           UNCHANGED <<job, look>>
    PROVE  Jobs' /\ Looks'
  BY DEF Types, Jobs, Looks

\* What a single address answers, and failed lookups forgotten.
LEMMA RetriedType == ASSUME Types PROVE Retried \in [Addrs -> Answers]
  BY DEF Types, World, Answers, Retried

\* Every action keeps the types.
LEMMA TypesNext ==
    ASSUME Types, [Next]_vars
    PROVE  Types'
  <1> USE DEF world, counts, history
  <1>0. /\ sources \in Lists /\ Jobs /\ Looks /\ World /\ Counters
        /\ Seeds \subseteq Addrs /\ {MaxEdits, MaxFailures} \subseteq Nat
    BY Definitions, BoundsAreNat DEF Types
  <1>a. Handlers \subseteq Callers /\ Threads \subseteq Callers /\ Monitor \in Callers
    BY DEF Callers, Coroutines
  <1>1. ASSUME NEW c \in Callers, JobRead(c) \/ JobWrite(c) PROVE Types'
    BY <1>1, JobTypes
  <1>2. ASSUME NEW c \in Callers, Measure(c) PROVE Types'
    <2>1. PICK todo \in SUBSET Unknown :
             IF lookups /\ todo # {}
             THEN /\ look' = [look EXCEPT ![c] = [copy |-> answers, todo |-> todo, asked |-> FALSE]]
                  /\ at' = [at EXCEPT ![c] = "look"]
             ELSE at' = [at EXCEPT ![c] = "align"] /\ UNCHANGED look
      BY <1>2 DEF Measure
    <2>2. at[c] = "geo" /\ UNCHANGED <<sources, answers, lookups, pool, fetched, catalog, job, counts>>
      BY <1>2 DEF Measure
    <2>3. World' /\ Counters'
      BY <1>0, <2>2 DEF World, Counters, Node
    <2>4. CASE lookups /\ todo # {}
      <3> DEFINE l == [copy |-> answers, todo |-> todo, asked |-> FALSE]
      <3>1. todo \subseteq Addrs
        <4>1. \A id \in EnabledIn(sources) : sources[id].own \subseteq Addrs
          BY <1>0, ListFacts DEF EnabledIn, Source
        <4>2. QED
          BY <4>1 DEF Unknown, Deciding
      <3>2. l \in Look
        BY <1>0, <3>1 DEF Look, World
      <3>3. l # None
        BY <3>2, NoneIsNoRecord
      <3>4. look' = [look EXCEPT ![c] = l] /\ at' = [at EXCEPT ![c] = "look"]
        BY <2>1, <2>4
      <3> HIDE DEF l
      <3>5. Jobs' /\ Looks'
        BY <1>0, <2>2, <3>2, <3>3, <3>4 DEF Jobs, Looks, Stages
      <3>6. QED
        BY <1>0, <2>2, <2>3, <3>5 DEF Types
    <2>5. CASE ~(lookups /\ todo # {})
      <3>1. Jobs' /\ Looks'
        BY <2>1, <2>2, <2>5, MovesTyped DEF Stages
      <3>2. QED
        BY <1>0, <2>2, <2>3, <3>1 DEF Types
    <2>6. QED
      BY <2>4, <2>5
  <1>3. ASSUME NEW c \in Callers, LookUp(c) PROVE Types'
    <2>1. PICK a \in look[c].todo, fails \in BOOLEAN :
          /\ failures' = IF fails THEN failures + 1 ELSE failures
          /\ fails => failures < MaxFailures
          /\ look' = [look EXCEPT ![c] =
                        [copy |-> [@.copy EXCEPT ![a] = IF fails \/ CountryOf[a] = None THEN Failed
                                                        ELSE CountryOf[a]],
                         todo |-> @.todo \ {a}, asked |-> TRUE]]
      BY <1>3 DEF LookUp
    <2>2. at[c] = "look" /\ UNCHANGED <<sources, answers, lookups, pool, fetched, catalog, job, at, edits, installed, single>>
      BY <1>3 DEF LookUp
    <2>3. look[c] \in Look
      BY <1>0, <2>2 DEF Looks
    <2> DEFINE answer == IF fails \/ CountryOf[a] = None THEN Failed ELSE CountryOf[a]
               copy == [look[c].copy EXCEPT ![a] = answer]
               l == [copy |-> copy, todo |-> look[c].todo \ {a}, asked |-> TRUE]
    <2>4. a \in Addrs /\ answer \in Answers
      BY <2>1, <2>3, Databases DEF Look, Answers
    <2> HIDE DEF answer
    <2>5. copy \in [Addrs -> Answers]
      BY <2>3, <2>4 DEF Look
    <2>6. look' = [look EXCEPT ![c] = l]
      BY <1>0, <2>1 DEF Looks, answer
    <2> HIDE DEF copy
    <2>7. l \in Look
      BY <2>3, <2>5 DEF Look
    <2>8. l # None
      BY <2>7, NoneIsNoRecord
    <2> HIDE DEF l
    <2>9. Looks' /\ Jobs'
      BY <1>0, <2>2, <2>6, <2>7, <2>8 DEF Looks, Jobs
    <2>10. World' /\ Counters'
      BY <1>0, <2>1, <2>2 DEF World, Counters, Node
    <2>11. QED
      BY <1>0, <2>2, <2>9, <2>10 DEF Types
  <1>4. ASSUME NEW c \in Callers, SaveAnswers(c) PROVE Types'
    <2>1. /\ at[c] = "look" /\ answers' = look[c].copy
          /\ look' = [look EXCEPT ![c] = None] /\ at' = [at EXCEPT ![c] = "align"]
          /\ UNCHANGED <<sources, lookups, pool, fetched, catalog, job, edits, failures, installed, single>>
      BY <1>4 DEF SaveAnswers
    <2>2. look[c] \in Look
      BY <1>0, <2>1 DEF Looks
    <2>3. World' /\ Counters'
      BY <1>0, <2>1, <2>2 DEF World, Counters, Node, Look
    <2>4. Looks' /\ Jobs'
      BY <1>0, <2>1 DEF Looks, Jobs, Stages
    <2>5. QED
      BY <1>0, <2>1, <2>3, <2>4 DEF Types
  <1>5. ASSUME NEW c \in Callers, BudgetSpent(c) PROVE Types'
    <2>1. /\ at[c] = "look" /\ failures < MaxFailures /\ failures' = failures + 1
          /\ look' = [look EXCEPT ![c].todo = {}]
          /\ UNCHANGED <<sources, answers, lookups, pool, fetched, catalog, job, at, edits, installed, single>>
      BY <1>5 DEF BudgetSpent
    <2> DEFINE l == [look[c] EXCEPT !.todo = {}]
    <2>2. l \in Look
      BY <1>0, <2>1 DEF Looks, Look
    <2>3. l # None
      BY <2>2, NoneIsNoRecord
    <2>4. look' = [look EXCEPT ![c] = l]
      BY <1>0, <2>1 DEF Looks
    <2> HIDE DEF l
    <2>5. Looks' /\ Jobs'
      BY <1>0, <2>1, <2>2, <2>3, <2>4 DEF Looks, Jobs
    <2>6. World' /\ Counters'
      BY <1>0, <2>1 DEF World, Counters, Node
    <2>7. QED
      BY <1>0, <2>1, <2>5, <2>6 DEF Types
  <1>6. ASSUME NEW c \in Callers, AlignLabels(c) PROVE Types'
    <2>1. /\ at[c] = "align" /\ Start(c, <<Align>>, "sync")
          /\ UNCHANGED <<sources, answers, lookups, pool, fetched, catalog, look, edits, failures, installed, single>>
      BY <1>6 DEF AlignLabels
    <2> DEFINE todo == <<Align>>
    <2>2. todo \in Seq(Steps) /\ todo # <<>>
      BY StepTypes
    <2> HIDE DEF todo
    <2>3. Jobs' /\ Looks'
      BY <1>0, <2>1, <2>2, StartTypes DEF todo
    <2>4. World' /\ Counters'
      BY <1>0, <2>1 DEF World, Counters, Node
    <2>5. QED
      BY <1>0, <2>1, <2>3, <2>4 DEF Types
  <1>7. ASSUME NEW c \in Callers, Sync(c) PROVE Types'
    <2>1. /\ at[c] = "sync" /\ EnsurePool /\ catalog' = Plan(pool') /\ at' = [at EXCEPT ![c] = "idle"]
          /\ UNCHANGED <<sources, answers, lookups, job, look, edits, installed, single>>
      BY <1>7 DEF Sync
    <2>2. Jobs' /\ Looks'
      BY <2>1, MovesTyped DEF Stages
    <2>3. pool' \subseteq Addrs /\ fetched' \in BOOLEAN /\ failures' \in 0..MaxFailures
      <3>1. MaxFailures \in Nat /\ failures \in 0..MaxFailures
        BY <1>0 DEF Counters
      <3>2. \/ pool' = pool /\ fetched' = fetched /\ failures' = failures
            \/ pool' = Seeds /\ fetched' = TRUE /\ failures' = failures
            \/ pool' = pool /\ fetched' = TRUE /\ failures < MaxFailures /\ failures' = failures + 1
        BY <2>1 DEF EnsurePool, Found
      <3>3. failures' = failures \/ (failures < MaxFailures /\ failures' = failures + 1)
        BY <3>2
      <3>4. failures' \in 0..MaxFailures
        BY <3>1, <3>3
      <3>5. QED
        BY <1>0, <3>2, <3>4 DEF World
    <2>4. \A n \in catalog' : Node(n)
      BY <1>0, <2>1, <2>3, PlanType
    <2>5. World' /\ Counters'
      BY <1>0, <2>1, <2>3, <2>4 DEF World, Counters, Node
    <2>6. QED
      BY <1>0, <2>1, <2>2, <2>5 DEF Types
  <1>8. ASSUME NEW h \in Handlers, Remeasure(h) \/ PingSource(h) PROVE Types'
    <2>1. /\ at[h] = "idle" /\ at' = [at EXCEPT ![h] = "geo"] /\ edits < MaxEdits /\ edits' = edits + 1
          /\ UNCHANGED <<job, installed, single>>
          /\ UNCHANGED <<sources, answers, lookups, pool, fetched, catalog, look, failures>>
      BY <1>8 DEF Remeasure, PingSource, Request
    <2>2. Jobs' /\ Looks'
      BY <1>a, <2>1, MovesTyped DEF Stages
    <2>3. World' /\ Counters'
      BY <1>0, <2>1 DEF World, Counters, Node
    <2>4. QED
      BY <1>0, <2>1, <2>2, <2>3 DEF Types
  <1>9. ASSUME NEW c \in Callers,
               \/ c \in Handlers /\ (Scan(c) \/ AddIps(c))
               \/ c \in Threads /\ RemoveIp(c)
        PROVE  Types'
    <2>1. PICK stage \in {"geo", "sync"} : at' = [at EXCEPT ![c] = stage]
      BY <1>9 DEF Scan, AddIps, RemoveIp
    <2>2. /\ at[c] = "idle" /\ edits < MaxEdits /\ edits' = edits + 1
          /\ UNCHANGED <<sources, answers, lookups, fetched, catalog, job, look, failures, installed, single>>
      BY <1>9 DEF Scan, AddIps, RemoveIp
    <2>3. pool' \subseteq Addrs
      BY <1>0, <1>9 DEF Scan, AddIps, RemoveIp, Found, World
    <2>4. Jobs' /\ Looks'
      BY <2>1, <2>2, MovesTyped DEF Stages
    <2>5. World' /\ Counters'
      BY <1>0, <2>2, <2>3 DEF World, Counters, Node
    <2>6. QED
      BY <1>0, <2>2, <2>4, <2>5 DEF Types
  <1>10. ASSUME NEW t \in Threads, DeleteSource(t) PROVE Types'
    <2>1. PICK id \in Configured : /\ Request(t) /\ Start(t, <<Drop(id)>>, "sync")
                                   /\ single' = TRUE /\ installed' = installed
      BY <1>10 DEF DeleteSource
    <2> DEFINE todo == <<Drop(id)>>
    <2>2. todo \in Seq(Steps) /\ todo # <<>>
      BY <1>0, ListFacts, StepTypes DEF Configured
    <2>3. installed' \in [1..Len(Packs) -> Nat]
      BY <1>0, <2>1 DEF Counters
    <2> HIDE DEF todo
    <2>4. QED
      BY <1>a, <2>1, <2>2, <2>3, RequestTypes DEF todo
  <1>11. CASE Wake
    <2>1. /\ at[Monitor] = "idle" /\ at' = [at EXCEPT ![Monitor] = "geo"]
          /\ UNCHANGED <<sources, answers, lookups, pool, fetched, catalog, job, look, edits, failures, installed, single>>
      BY <1>11 DEF Wake
    <2>2. Jobs' /\ Looks'
      BY <1>a, <2>1, MovesTyped DEF Stages
    <2>3. World' /\ Counters'
      BY <1>0, <2>1 DEF World, Counters, Node
    <2>4. QED
      BY <1>0, <2>1, <2>2, <2>3 DEF Types
  <1>12. CASE TimePasses
    <2>1. /\ fetched' = FALSE /\ answers' = Retried
          /\ UNCHANGED <<sources, lookups, pool, catalog, job, at, look, edits, failures, installed, single>>
      BY <1>12 DEF TimePasses
    <2>2. World' /\ Counters' /\ Jobs' /\ Looks'
      BY <1>0, <2>1, RetriedType DEF World, Counters, Node, Jobs, Looks
    <2>3. QED
      BY <1>0, <2>1, <2>2 DEF Types
  <1>13. CASE UNCHANGED vars
    BY <1>0, <1>13 DEF vars, Types, World, Counters, Node, Jobs, Looks
  <1>14. QED
    BY <1>a, <1>1, <1>2, <1>3, <1>4, <1>5, <1>6, <1>7, <1>8, <1>9, <1>10, <1>11, <1>12, <1>13,
       RequestsTyped DEF Next, Work

\* An empty list or one stored location to begin with.
LEMMA TypesInit == Init => Types
  <1> SUFFICES ASSUME Init PROVE Types
    OBVIOUS
  <1>1. sources \in Lists
    <2>1. CASE sources = <<>>
      BY <2>1, ListFacts
    <2>2. ASSUME NEW o \in Stored, sources = With(<<>>, <<o.place, 1>>, NewSource(o, 0))
          PROVE  sources \in Lists
      <3>1. o \in Offer /\ 0 \in 0..Len(Packs) /\ MaxSuffix \in Nat \ {0}
        BY Definitions, BoundsAreNat, PlacesHaveRoom
      <3>2. NewSource(o, 0) \in Source
        BY <3>1, NewSourceType
      <3>3. sources \in [{<<o.place, 1>>} -> Source]
        BY <2>2, <3>2 DEF With
      <3>4. <<o.place, 1>> \in Ids
        BY <3>1 DEF Ids, Offer
      <3>5. QED
        BY <3>3, <3>4, ListFacts
    <2>3. QED
      BY <2>1, <2>2 DEF Init
  <1>2. Jobs /\ Looks
    BY DEF Init, Jobs, Looks, Stages
  <1>3. World
    BY DEF Init, World, Answers
  <1>4. Counters
    <2>1. MaxEdits \in Nat /\ MaxFailures \in Nat
      BY BoundsAreNat
    <2>2. edits \in 0..MaxEdits /\ failures \in 0..MaxFailures
      BY <2>1 DEF Init
    <2>3. installed \in [1..Len(Packs) -> Nat] /\ single \in BOOLEAN
      BY DEF Init
    <2>4. QED
      BY <2>2, <2>3 DEF Counters
  <1>5. QED
    BY <1>1, <1>2, <1>3, <1>4 DEF Types

\* The types hold in every reachable state.
LEMMA TypesHold == Spec => []Types
  BY TypesInit, TypesNext, PTL DEF Spec

\* Every reachable state has the declared shapes: the list of locations, the remembered
\* answers, the published nodes and what each handler is in the middle of.
THEOREM TypeCorrect == Spec => []TypeOK
  <1>1. Types => TypeOK
    BY ListFacts DEF Types, TypeOK, Configured, World, Counters, Node, Jobs, Looks, Stages, Job
  <1>2. QED
    BY <1>1, TypesHold, PTL

-----------------------------------------------------------------------------
(* Names.                                                                  *)

\* A name tells the id of its location, as long as no slug is cut.
LEMMA NameTellsId ==
    ASSUME Long = {}, NEW id \in Ids, NEW s \in Source, NEW other \in Ids, NEW o \in Source,
           NodeName(id, s) = NodeName(other, o)
    PROVE  id = other
  <1>1. Slug(id) = id /\ Slug(other) = other
    BY DEF Slug
  <1>2. Home(s) \in Countries /\ Home(o) \in Countries
    BY HomeIsCountry
  <1>3. /\ NodeName(id, s) \in {<<id>>, <<Home(s), id>>} \/ (NodeName(id, s) = <<Home(s)>> /\ id = <<Home(s), 1>>)
        /\ \/ NodeName(other, o) \in {<<other>>, <<Home(o), other>>}
           \/ NodeName(other, o) = <<Home(o)>> /\ other = <<Home(o), 1>>
    BY <1>1 DEF NodeName
  <1>4. id \notin Countries /\ other \notin Countries
    BY CountriesAreNames
  <1>5. QED
    BY <1>2, <1>3, <1>4

\* Two locations never publish a node under one name (sources.py, nodes_for_source),
\* for every place whose name is not cut to the 24 characters of a slug.
THEOREM NamesAreDistinct == ASSUME Long = {} PROVE Spec => []NamesDistinct
  <1> DEFINE Named == /\ NamesDistinct
                      /\ \A n \in catalog : n.id \in Ids
  <1>1. Init => Named
    BY DEF Init, NamesDistinct
  <1>2. Types /\ Named /\ [Next]_vars => Named'
    <2> SUFFICES ASSUME Types, Named, [Next]_vars PROVE Named'
      OBVIOUS
    <2>1. catalog' \subseteq catalog \/ catalog' = Plan(pool')
      BY DEF Next, Work, JobRead, JobWrite, Measure, LookUp, SaveAnswers, AlignLabels, Sync, BudgetSpent,
             CreateSource, EditSource, ToggleSource, InstallPack, UninstallPack, Import, Remeasure,
             PingSource, Scan, AddIps, DeleteSource, RemoveIp, Wake, TimePasses, Request, world, vars
    <2>2. CASE catalog' \subseteq catalog
      BY <2>2 DEF NamesDistinct
    <2>3. CASE catalog' = Plan(pool')
      <3>1. pool' \subseteq Addrs /\ sources \in Lists
        BY TypesNext DEF Types, World
      <3>2. \A n \in catalog' :
               \E id \in Configured : n.id = id /\ n.name = NodeName(id, sources[id])
        BY <2>3, <3>1, PlanType
      <3>3. \A id \in Configured : id \in Ids /\ sources[id] \in Source
        BY <3>1, ListFacts DEF Configured
      <3>4. \A m, n \in catalog' : m.name = n.name => m.id = n.id
        <4>1. SUFFICES ASSUME NEW m \in catalog', NEW n \in catalog', m.name = n.name PROVE m.id = n.id
          OBVIOUS
        <4>2. PICK i \in Configured : m.id = i /\ m.name = NodeName(i, sources[i])
          BY <3>2
        <4>3. PICK k \in Configured : n.id = k /\ n.name = NodeName(k, sources[k])
          BY <3>2
        <4>4. i \in Ids /\ sources[i] \in Source /\ k \in Ids /\ sources[k] \in Source
          BY <3>3
        <4>5. NodeName(i, sources[i]) = NodeName(k, sources[k])
          BY <4>1, <4>2, <4>3
        <4>6. i = k
          BY <4>4, <4>5, NameTellsId
        <4>7. QED
          BY <4>2, <4>3, <4>6
      <3>5. QED
        BY <3>2, <3>3, <3>4 DEF NamesDistinct
    <2>4. QED
      BY <2>1, <2>2, <2>3
  <1>3. Named => NamesDistinct
    OBVIOUS
  <1> HIDE DEF Named
  <1>4. QED
    BY <1>1, <1>2, <1>3, TypesHold, PTL DEF Spec

-----------------------------------------------------------------------------
(* What a job leaves behind, while nobody deletes single locations: then    *)
(* the event loop runs one job at a time, and nothing else writes the list. *)

MembersOf(all, p) == {id \in DOMAIN all : all[id].pack = p}
FreeIn(all, place) == {n \in 1..MaxSuffix : <<place, n>> \notin DOMAIN all}

\* Labels change, and none that is pinned.
Relabelled(new, all) ==
    /\ DOMAIN new = DOMAIN all
    /\ \A id \in DOMAIN all : /\ new[id].pack = all[id].pack
                              /\ ~all[id].autolabel => new[id] = all[id]

\* The list that a step is about to store over `all`.
Stores(step, new, all) ==
    \/ /\ step.do = "add" /\ HasRoom(step.offer.place, all)
       /\ new = With(all, FreshId(step.offer.place, all), NewSource(step.offer, step.pack))
    \/ step.do = "put" /\ new = With(all, step.id, step.source)
    \/ step.do = "drop" /\ new = Without(all, step.id)
    \/ step.do = "align" /\ Relabelled(new, all)

\* What is left of a job that changes no pack, of an installation and of a removal.
Harmless(todo) ==
    \A i \in 1..Len(todo) :
        \/ todo[i].do = "align"
        \/ todo[i].do = "add" /\ todo[i].pack = 0
        \/ /\ todo[i].do = "put" /\ todo[i].id \in Configured
           /\ todo[i].source.pack = sources[todo[i].id].pack

Installing(todo, p) ==
    /\ \A i \in 1..Len(todo) : todo[i].do = "add" /\ todo[i].pack = p /\ todo[i].offer.hosted
    /\ \A place \in Countries : Cardinality(FreeIn(sources, place)) >= Len(todo)
    /\ Cardinality(MembersOf(sources, p)) + Len(todo) = installed[p] * Len(Packs[p])

Removing(todo, p) ==
    /\ \A i \in 1..Len(todo) : todo[i].do = "drop"
    /\ \A i, j \in 1..Len(todo) : todo[i].id = todo[j].id => i = j
    /\ MembersOf(sources, p) = {todo[i].id : i \in 1..Len(todo)}
    /\ installed[p] = 0

\* The packs, but for one, are in the list whole.
WholeBut(p) ==
    \A q \in (1..Len(Packs)) \ {p} :
        Cardinality(MembersOf(sources, q)) = installed[q] * Len(Packs[q])

Underway(todo) ==
    \/ Harmless(todo) /\ WholeBut(0)
    \/ \E p \in 1..Len(Packs) : (Installing(todo, p) \/ Removing(todo, p)) /\ WholeBut(p)

Tally ==
    /\ \A t \in Threads : job[t] = None
    /\ \A c, d \in Callers : job[c] # None /\ job[d] # None => c = d
    /\ \A c \in Callers : job[c] # None =>
          /\ job[c].items = None \/ Stores(Head(job[c].todo), job[c].items, sources)
          /\ Underway(job[c].todo)
    /\ (\A c \in Callers : job[c] = None) => WholeBut(0)

\* A thread removes an address of the pool and rebuilds; it never measures.
Errands == \A t \in Threads : at[t] \in {"idle", "sync"}

Tallied == ~single => Tally /\ Errands

\* The steps of a job after its first.
LEMMA TailFacts ==
    ASSUME NEW S, NEW s \in Seq(S), s # <<>>
    PROVE  /\ Len(s) \in Nat \ {0} /\ Head(s) = s[1] /\ s[1] \in S /\ 1 \in 1..Len(s)
           /\ Tail(s) \in Seq(S) /\ Len(Tail(s)) = Len(s) - 1
           /\ \A i \in 1..Len(Tail(s)) : Tail(s)[i] = s[i + 1] /\ i + 1 \in 1..Len(s)
  OBVIOUS

\* The locations and the free spellings are finite sets.
LEMMA ListFinite ==
    ASSUME NEW all \in Lists
    PROVE  /\ \A p : IsFiniteSet(MembersOf(all, p)) /\ Cardinality(MembersOf(all, p)) \in Nat
           /\ \A place : IsFiniteSet(FreeIn(all, place)) /\ Cardinality(FreeIn(all, place)) \in Nat
  <1>1. \A p : MembersOf(all, p) \in SUBSET Ids
    BY ListFacts DEF MembersOf
  <1>2. IsFiniteSet(1..MaxSuffix)
    BY FS_Interval, BoundsAreNat
  <1>3. \A place : FreeIn(all, place) \in SUBSET (1..MaxSuffix)
    BY DEF FreeIn
  <1>4. \A place : IsFiniteSet(FreeIn(all, place))
    BY <1>2, <1>3, FS_Subset
  <1>5. \A p : IsFiniteSet(MembersOf(all, p))
    BY <1>1, IdsFinite
  <1>6. QED
    BY <1>4, <1>5, FS_CardinalityType

\* Where a spelling is free a location can be saved.
LEMMA RoomIsFree ==
    ASSUME NEW all \in Lists, NEW place \in Countries, Cardinality(FreeIn(all, place)) >= 1
    PROVE  HasRoom(place, all)
  <1>1. FreeIn(all, place) # {}
    BY FS_EmptySet
  <1>2. QED
    BY <1>1 DEF FreeIn, HasRoom

\* Saving a definition adds one location to its pack and takes one spelling.
LEMMA AddEffect ==
    ASSUME NEW all \in Lists, NEW o \in Offer, NEW pack \in 0..Len(Packs), HasRoom(o.place, all),
           NEW new, new = With(all, FreshId(o.place, all), NewSource(o, pack))
    PROVE  /\ DOMAIN all \subseteq DOMAIN new /\ \A id \in DOMAIN all : new[id] = all[id]
           /\ \A id \in DOMAIN new \ DOMAIN all : new[id].pack = pack
           /\ \A p : p # pack => MembersOf(new, p) = MembersOf(all, p)
           /\ Cardinality(MembersOf(new, pack)) = Cardinality(MembersOf(all, pack)) + 1
           /\ \A place : Cardinality(FreeIn(new, place)) >= Cardinality(FreeIn(all, place)) - 1
  <1> DEFINE id == FreshId(o.place, all)
             s == NewSource(o, pack)
  <1>1. id \in Ids \ DOMAIN all
    BY FreshIdFree DEF Offer
  <1>2. s.pack = pack
    BY NewSourceType
  <1>3. new = [i \in DOMAIN all \cup {id} |-> IF i = id THEN s ELSE all[i]]
    BY DEF With
  <1> HIDE DEF id, s
  <1>4. /\ DOMAIN new = DOMAIN all \cup {id} /\ new[id] = s
        /\ \A i \in DOMAIN all : new[i] = all[i]
    BY <1>1, <1>3
  <1>5. \A p : p # pack => MembersOf(new, p) = MembersOf(all, p)
    BY <1>1, <1>2, <1>4 DEF MembersOf
  <1>6. MembersOf(new, pack) = MembersOf(all, pack) \cup {id} /\ id \notin MembersOf(all, pack)
    BY <1>1, <1>2, <1>4 DEF MembersOf
  <1>7. Cardinality(MembersOf(new, pack)) = Cardinality(MembersOf(all, pack)) + 1
    BY <1>6, ListFinite, FS_AddElement
  <1>8. ASSUME NEW place
        PROVE  Cardinality(FreeIn(new, place)) >= Cardinality(FreeIn(all, place)) - 1
    <2> DEFINE A == FreeIn(all, place)
               B == FreeIn(new, place)
    <2>1. IsFiniteSet(A) /\ Cardinality(A) \in Nat
      BY ListFinite
    <2>2. IsFiniteSet(B) /\ Cardinality(B) \in Nat
      <3>1. B \in SUBSET A
        BY <1>4 DEF FreeIn
      <3> HIDE DEF A, B
      <3>2. QED
        BY <2>1, <3>1, FS_Subset, FS_CardinalityType
    <2>3. \E x : A \ {x} \subseteq B
      <3>1. CASE \E n : id = <<place, n>>
        <4>1. PICK n : id = <<place, n>>
          BY <3>1
        <4>2. A \ {n} \subseteq B
          BY <1>4, <4>1 DEF FreeIn
        <4>3. QED
          BY <4>2
      <3>2. CASE ~\E n : id = <<place, n>>
        <4>1. A \ {0} \subseteq B
          BY <1>4, <3>2 DEF FreeIn
        <4>2. QED
          BY <4>1
      <3>3. QED
        BY <3>1, <3>2
    <2> HIDE DEF A, B
    <2>4. PICK x : A \ {x} \subseteq B
      BY <2>3
    <2>5. IsFiniteSet(A \ {x}) /\ Cardinality(A \ {x}) \in {Cardinality(A) - 1, Cardinality(A)}
      BY <2>1, FS_RemoveElement
    <2>6. Cardinality(A \ {x}) <= Cardinality(B)
      BY <2>2, <2>4, FS_Subset
    <2>7. Cardinality(B) >= Cardinality(A) - 1
      BY <2>1, <2>2, <2>5, <2>6
    <2>8. QED
      BY <2>7 DEF A, B
  <1>9. QED
    BY <1>2, <1>4, <1>5, <1>7, <1>8

\* The locations a step adds belong to no pack, and the others to theirs as before.
SamePacks(new, all) ==
    /\ DOMAIN all \subseteq DOMAIN new
    /\ \A id \in DOMAIN all : new[id].pack = all[id].pack
    /\ \A id \in DOMAIN new \ DOMAIN all : new[id].pack = 0

\* Every step of a harmless job is like that.
LEMMA HarmlessStep ==
    ASSUME sources \in Lists, NEW todo \in Seq(Steps), todo # <<>>, Harmless(todo),
           NEW new, Stores(Head(todo), new, sources)
    PROVE  SamePacks(new, sources)
  <1> DEFINE step == Head(todo)
  <1>1. step \in Steps /\ step = todo[1] /\ 1 \in 1..Len(todo)
    BY TailFacts
  <1>2. \/ step.do = "align"
        \/ step.do = "add" /\ step.pack = 0
        \/ step.do = "put" /\ step.id \in Configured /\ step.source.pack = sources[step.id].pack
    BY <1>1 DEF Harmless
  <1>3. Stores(step, new, sources)
    OBVIOUS
  <1> HIDE DEF step
  <1>4. CASE step.do = "align"
    BY <1>3, <1>4 DEF Stores, Relabelled, SamePacks
  <1>5. CASE step.do = "add" /\ step.pack = 0
    <2>1. /\ HasRoom(step.offer.place, sources) /\ step.offer \in Offer /\ 0 \in 0..Len(Packs)
          /\ new = With(sources, FreshId(step.offer.place, sources), NewSource(step.offer, 0))
      BY <1>1, <1>3, <1>5, StepFacts DEF Stores
    <2>2. QED
      BY <2>1, AddEffect DEF SamePacks
  <1>6. CASE step.do = "put" /\ step.id \in Configured /\ step.source.pack = sources[step.id].pack
    <2>1. new = [i \in DOMAIN sources \cup {step.id} |-> IF i = step.id THEN step.source ELSE sources[i]]
      BY <1>3, <1>6 DEF Stores, With
    <2>2. step.id \in DOMAIN sources
      BY <1>6 DEF Configured
    <2>3. DOMAIN new = DOMAIN sources /\ \A id \in DOMAIN sources : new[id].pack = sources[id].pack
      BY <1>6, <2>1, <2>2
    <2>4. QED
      BY <2>3 DEF SamePacks
  <1>7. QED
    BY <1>2, <1>4, <1>5, <1>6

\* A pack has the members it had.
LEMMA SamePacksKeep ==
    ASSUME NEW all, NEW new, SamePacks(new, all), NEW p \in 1..Len(Packs)
    PROVE  MembersOf(new, p) = MembersOf(all, p)
  <1>1. p # 0
    OBVIOUS
  <1>2. QED
    BY <1>1 DEF SamePacks, MembersOf

\* What is left of a job after its first step, when that left the list as it is ...
LEMMA SkipKeeps ==
    ASSUME sources \in Lists, sources' = sources, installed' = installed,
           NEW todo \in Seq(Steps), todo # <<>>, Underway(todo), Skipped(Head(todo))
    PROVE  Underway(Tail(todo))' /\ WholeBut(0)'
  <1>1. /\ Head(todo) = todo[1] /\ todo[1] \in Steps /\ 1 \in 1..Len(todo) /\ Len(todo) >= 1
        /\ \A i \in 1..Len(Tail(todo)) : Tail(todo)[i] = todo[i + 1] /\ i + 1 \in 1..Len(todo)
    BY TailFacts
  <1>2. ASSUME NEW p \in 1..Len(Packs), Installing(todo, p)
        PROVE  FALSE
    <2>1. todo[1].do = "add" /\ todo[1].offer.hosted /\ todo[1].offer.place \in Countries
      BY <1>1, <1>2, StepFacts DEF Installing, Offer
    <2>2. Cardinality(FreeIn(sources, todo[1].offer.place)) >= 1
      <3>1. Cardinality(FreeIn(sources, todo[1].offer.place)) >= Len(todo)
        BY <1>2, <2>1 DEF Installing
      <3>2. Cardinality(FreeIn(sources, todo[1].offer.place)) \in Nat /\ Len(todo) \in Nat
        BY ListFinite
      <3>3. QED
        BY <1>1, <3>1, <3>2
    <2>3. HasRoom(todo[1].offer.place, sources)
      BY <2>1, <2>2, RoomIsFree
    <2>4. QED
      BY <1>1, <2>1, <2>3 DEF Skipped
  <1>3. ASSUME NEW p \in 1..Len(Packs), Removing(todo, p)
        PROVE  FALSE
    <2>1. todo[1].do = "drop" /\ todo[1].id \in DOMAIN sources
      BY <1>1, <1>3 DEF Removing, MembersOf
    <2>2. QED
      BY <1>1, <2>1 DEF Skipped, Configured
  <1>4. Harmless(todo) /\ WholeBut(0)
    BY <1>2, <1>3 DEF Underway
  <1>5. Harmless(Tail(todo))'
    BY <1>1, <1>4 DEF Harmless, Configured
  <1>6. WholeBut(0)'
    BY <1>4 DEF WholeBut
  <1>7. QED
    BY <1>5, <1>6 DEF Underway

\* ... and when it stored what it had to store.
LEMMA StoreKeeps ==
    ASSUME sources \in Lists, installed \in [1..Len(Packs) -> Nat], installed' = installed,
           NEW todo \in Seq(Steps), todo # <<>>, Underway(todo),
           sources' \in Lists, Stores(Head(todo), sources', sources)
    PROVE  Underway(Tail(todo))' /\ (Tail(todo) = <<>> => WholeBut(0)')
  <1> DEFINE rest == Tail(todo)
  <1>1. /\ Head(todo) = todo[1] /\ todo[1] \in Steps /\ 1 \in 1..Len(todo) /\ Len(todo) \in Nat \ {0}
        /\ rest \in Seq(Steps) /\ Len(rest) = Len(todo) - 1
        /\ \A i \in 1..Len(rest) : rest[i] = todo[i + 1] /\ i + 1 \in 1..Len(todo)
    BY TailFacts
  <1> HIDE DEF rest
  <1>a. rest = <<>> => Len(rest) = 0
    <2>1. Len(<<>>) = 0
      OBVIOUS
    <2>2. QED
      BY <2>1
  <1>2. CASE Harmless(todo) /\ WholeBut(0)
    <2>1. SamePacks(sources', sources)
      BY <1>2, HarmlessStep
    <2>2. Harmless(rest)'
      <3>1. \A i \in 1..Len(rest) :
                \/ rest[i].do = "align"
                \/ rest[i].do = "add" /\ rest[i].pack = 0
                \/ /\ rest[i].do = "put" /\ rest[i].id \in DOMAIN sources
                   /\ rest[i].source.pack = sources[rest[i].id].pack
        BY <1>1, <1>2 DEF Harmless, Configured
      <3>2. QED
        BY <2>1, <3>1 DEF Harmless, Configured, SamePacks
    <2>3. WholeBut(0)'
      BY <1>2, <2>1, SamePacksKeep DEF WholeBut
    <2>4. QED
      BY <2>2, <2>3 DEF Underway, rest
  <1>3. ASSUME NEW p \in 1..Len(Packs), Installing(todo, p), WholeBut(p)
        PROVE  Underway(rest)' /\ (rest = <<>> => WholeBut(0)')
    <2>1. todo[1].do = "add" /\ todo[1].pack = p /\ todo[1].offer \in Offer /\ p \in 0..Len(Packs)
      BY <1>1, <1>3, StepFacts DEF Installing
    <2>2. /\ HasRoom(todo[1].offer.place, sources)
          /\ sources' = With(sources, FreshId(todo[1].offer.place, sources), NewSource(todo[1].offer, p))
      BY <1>1, <2>1 DEF Stores
    <2>3. /\ \A q : q # p => MembersOf(sources', q) = MembersOf(sources, q)
          /\ Cardinality(MembersOf(sources', p)) = Cardinality(MembersOf(sources, p)) + 1
          /\ \A place : Cardinality(FreeIn(sources', place)) >= Cardinality(FreeIn(sources, place)) - 1
      BY <2>1, <2>2, AddEffect
    <2>4. WholeBut(p)'
      BY <1>3, <2>3 DEF WholeBut
    <2> DEFINE due == installed[p] * Len(Packs[p])
    <2>5. Cardinality(MembersOf(sources', p)) + Len(rest) = due
      <3>1. Cardinality(MembersOf(sources, p)) + Len(todo) = due /\ Cardinality(MembersOf(sources, p)) \in Nat
        BY <1>3, ListFinite DEF Installing
      <3> HIDE DEF due
      <3>2. QED
        BY <1>1, <2>3, <3>1
    <2>6. \A place \in Countries : Cardinality(FreeIn(sources', place)) >= Len(rest)
      <3>1. ASSUME NEW place \in Countries
            PROVE  Cardinality(FreeIn(sources', place)) >= Len(rest)
        <4>1. /\ Cardinality(FreeIn(sources', place)) \in Nat /\ Cardinality(FreeIn(sources, place)) \in Nat
              /\ Cardinality(FreeIn(sources, place)) >= Len(todo)
              /\ Cardinality(FreeIn(sources', place)) >= Cardinality(FreeIn(sources, place)) - 1
          BY <1>3, <2>3, ListFinite DEF Installing
        <4>2. QED
          BY <1>1, <4>1
      <3>2. QED
        BY <3>1
    <2>7. \A i \in 1..Len(rest) : rest[i].do = "add" /\ rest[i].pack = p /\ rest[i].offer.hosted
      BY <1>1, <1>3 DEF Installing
    <2>8. Installing(rest, p)'
      BY <2>5, <2>6, <2>7 DEF Installing
    <2>9. ASSUME rest = <<>> PROVE WholeBut(0)'
      <3>1. Cardinality(MembersOf(sources', p)) = due
        <4>1. Len(rest) = 0 /\ Cardinality(MembersOf(sources', p)) \in Nat
          BY <1>a, <2>9, ListFinite
        <4> HIDE DEF due
        <4>2. QED
          BY <2>5, <4>1
      <3>2. QED
        BY <2>4, <3>1 DEF WholeBut
    <2>10. QED
      BY <2>4, <2>8, <2>9 DEF Underway
  <1>4. ASSUME NEW p \in 1..Len(Packs), Removing(todo, p), WholeBut(p)
        PROVE  Underway(rest)' /\ (rest = <<>> => WholeBut(0)')
    <2> DEFINE id == todo[1].id
    <2>1. todo[1].do = "drop" /\ id \in MembersOf(sources, p)
      BY <1>1, <1>4 DEF Removing
    <2>2. sources' = [i \in DOMAIN sources \ {id} |-> sources[i]]
      BY <1>1, <2>1 DEF Stores, Without
    <2>3. \A q : MembersOf(sources', q) = MembersOf(sources, q) \ {id}
      <3> HIDE DEF id
      <3>1. QED
        BY <2>2 DEF MembersOf
    <2>4. \A q : q # p => MembersOf(sources', q) = MembersOf(sources, q)
      BY <2>1, <2>3 DEF MembersOf
    <2>5. WholeBut(p)'
      BY <1>4, <2>4 DEF WholeBut
    <2>6. MembersOf(sources', p) = {rest[i].id : i \in 1..Len(rest)}
      <3>1. MembersOf(sources', p) = {todo[i].id : i \in 1..Len(todo)} \ {id}
        BY <1>4, <2>3 DEF Removing
      <3>2. \A i \in 1..Len(todo) : todo[i].id # id <=> i # 1
        BY <1>1, <1>4 DEF Removing
      <3>3. \A i \in 1..Len(todo) : i # 1 => i - 1 \in 1..Len(rest) /\ rest[i - 1] = todo[i]
        BY <1>1
      <3>4. \A i \in 1..Len(rest) : i + 1 \in 1..Len(todo) /\ i + 1 # 1
        BY <1>1
      <3> HIDE DEF id
      <3>5. ASSUME NEW x \in MembersOf(sources', p) PROVE x \in {rest[i].id : i \in 1..Len(rest)}
        <4>1. PICK i \in 1..Len(todo) : x = todo[i].id /\ i # 1
          BY <3>1, <3>2
        <4>2. i - 1 \in 1..Len(rest) /\ x = rest[i - 1].id
          BY <3>3, <4>1
        <4>3. QED
          BY <4>2
      <3>6. ASSUME NEW x \in {rest[i].id : i \in 1..Len(rest)} PROVE x \in MembersOf(sources', p)
        <4>1. PICK i \in 1..Len(rest) : x = rest[i].id
          BY <3>6
        <4>2. i + 1 \in 1..Len(todo) /\ i + 1 # 1 /\ x = todo[i + 1].id
          BY <1>1, <3>4, <4>1
        <4>3. QED
          BY <3>1, <3>2, <4>2
      <3>7. QED
        BY <3>5, <3>6
    <2>7. Removing(rest, p)'
      <3>1. \A i \in 1..Len(rest) : rest[i].do = "drop"
        BY <1>1, <1>4 DEF Removing
      <3>2. \A i, j \in 1..Len(rest) : rest[i].id = rest[j].id => i = j
        BY <1>1, <1>4 DEF Removing
      <3>3. installed'[p] = 0
        BY <1>4 DEF Removing
      <3>4. QED
        BY <2>6, <3>1, <3>2, <3>3 DEF Removing
    <2>8. ASSUME rest = <<>> PROVE WholeBut(0)'
      <3>1. MembersOf(sources', p) = {}
        BY <1>a, <2>6, <2>8
      <3>2. Cardinality(MembersOf(sources', p)) = 0
        BY <3>1, FS_EmptySet
      <3>3. installed'[p] * Len(Packs[p]) = 0
        BY <1>4, PackFacts DEF Removing
      <3>4. QED
        BY <2>5, <3>2, <3>3 DEF WholeBut
    <2>9. QED
      BY <2>5, <2>7, <2>8 DEF Underway
  <1>5. QED
    BY <1>2, <1>3, <1>4 DEF Underway, rest

\* A request that finds the event loop free finds no job at all, and the packs whole.
LEMMA FreeLoop ==
    ASSUME Tally, NEW c \in Coroutines, LoopFree(c)
    PROVE  /\ \A d \in Callers : job[d] = None
           /\ WholeBut(0)
  <1>1. \A d \in Callers : job[d] = None
    BY DEF Tally, LoopFree, Callers
  <1>2. QED
    BY <1>1 DEF Tally

\* The job it begins is the only one.
LEMMA StartKeeps ==
    ASSUME Types, Tally, NEW c \in Coroutines, LoopFree(c),
           NEW todo \in Seq(Steps), todo # <<>>, NEW next \in {"geo", "sync", "idle"},
           at[c] # "look", Start(c, todo, next), UNCHANGED look, Underway(todo)'
    PROVE  Tally'
  <1>1. c \in Callers /\ c \notin Threads
    BY MonitorIsApart DEF Callers, Coroutines
  <1>2. \A d \in Callers : job[d] = None
    BY FreeLoop
  <1>3. /\ Jobs' /\ job'[c] = [todo |-> todo, items |-> None, next |-> next]
        /\ \A d \in Callers \ {c} : job'[d] = None
    BY <1>1, <1>2, StartTypes DEF Types
  <1>4. job'[c] # None /\ job'[c].items = None /\ job'[c].todo = todo
    <2>1. [todo |-> todo, items |-> None, next |-> next] \in Job
      BY DEF Job
    <2>2. QED
      BY <1>3, <2>1, NoneIsNoRecord
  <1>5. \A t \in Threads : t \in Callers /\ t # c
    BY <1>1 DEF Callers
  <1>6. QED
    BY <1>1, <1>3, <1>4, <1>5 DEF Tally

\* What a step that is not skipped has read is what it stores.
LEMMA ResultStored ==
    ASSUME sources \in Lists, NEW step \in Steps, ~Skipped(step)
    PROVE  Stores(step, Result(step, sources), sources)
  <1>1. CASE step.do = "add"
    BY <1>1 DEF Skipped, Result, Stores
  <1>2. CASE step.do = "put"
    BY <1>2 DEF Result, Stores
  <1>3. CASE step.do = "drop"
    BY <1>3 DEF Result, Stores
  <1>4. CASE step.do = "align"
    BY <1>4, AlignedType DEF Result, Stores, Relabelled
  <1>5. QED
    BY <1>1, <1>2, <1>3, <1>4, StepFacts

\* A job reads and writes the list step by step.
LEMMA JobKeeps ==
    ASSUME Types, Types', Tally, NEW c \in Callers, JobRead(c) \/ JobWrite(c)
    PROVE  Tally'
  <1>0. /\ sources \in Lists /\ sources' \in Lists /\ Jobs /\ Looks
        /\ installed \in [1..Len(Packs) -> Nat]
    BY DEF Types, Counters
  <1>1. /\ job[c] # None /\ job[c] \in Job /\ job[c].todo # <<>> /\ job[c].todo \in Seq(Steps)
        /\ Head(job[c].todo) \in Steps
    <2>1. job[c] # None /\ job[c] \in Job
      BY <1>0 DEF JobRead, JobWrite, Jobs
    <2>2. job[c].todo # <<>> /\ job[c].todo \in Seq(Steps)
      BY <1>0, <2>1 DEF Jobs, Job
    <2>3. QED
      BY <2>1, <2>2, TailFacts
  <1>2. /\ c \notin Threads /\ \A d \in Callers \ {c} : job[d] = None
        /\ Underway(job[c].todo)
        /\ job[c].items = None \/ Stores(Head(job[c].todo), job[c].items, sources)
        /\ installed' = installed /\ look' = look
    <2>1. installed' = installed /\ look' = look
      BY DEF JobRead, JobWrite, counts, history
    <2>2. QED
      BY <1>1, <2>1 DEF Tally
  <1>t. PICK todo \in Seq(Steps) : todo = job[c].todo
    BY <1>1
  <1>3. ASSUME Advance(c), Underway(Tail(todo))', Tail(todo) = <<>> => WholeBut(0)'
        PROVE  Tally'
    <2>1. /\ \A d \in Callers \ {c} : job'[d] = None
          /\ \/ Tail(todo) = <<>> /\ job'[c] = None
             \/ /\ Tail(todo) # <<>> /\ job'[c] # None
                /\ job'[c].todo = Tail(todo) /\ job'[c].items = None
      BY <1>0, <1>1, <1>t, <1>2, <1>3, AdvanceTypes
    <2>2. \A t \in Threads : t \in Callers /\ t # c
      BY <1>2 DEF Callers
    <2>3. QED
      BY <1>3, <2>1, <2>2 DEF Tally
  <1>4. CASE JobRead(c) /\ Skipped(Head(todo))
    <2>1. Advance(c) /\ sources' = sources
      BY <1>t, <1>4 DEF JobRead
    <2>2. Underway(Tail(todo))' /\ WholeBut(0)'
      BY <1>0, <1>1, <1>t, <1>2, <1>4, <2>1, SkipKeeps
    <2>3. QED
      BY <1>3, <2>1, <2>2
  <1>5. CASE JobRead(c) /\ ~Skipped(Head(todo))
    <2> DEFINE list == Result(Head(todo), sources)
               j == [job[c] EXCEPT !.items = list]
    <2>1. job' = [job EXCEPT ![c] = j] /\ sources' = sources
      BY <1>t, <1>5 DEF JobRead
    <2>2. Stores(Head(todo), list, sources)
      BY <1>0, <1>1, <1>t, <1>5, ResultStored
    <2>3. PICK l : l = list
      OBVIOUS
    <2> HIDE DEF list
    <2>4. j.todo = todo /\ j.items = l
      BY <1>1, <1>t, <2>3 DEF Job
    <2> HIDE DEF j
    <2>5. job'[c].todo = todo /\ job'[c].items = l /\ \A d \in Callers \ {c} : job'[d] = None
      BY <1>0, <1>2, <2>1, <2>4 DEF Jobs
    <2>6. Stores(Head(todo), l, sources)'
      BY <2>1, <2>2, <2>3 DEF Stores
    <2>7. Underway(todo)'
      <3>1. Harmless(todo) => Harmless(todo)'
        BY <2>1 DEF Harmless, Configured
      <3>2. \A p \in 1..Len(Packs) : Installing(todo, p) => Installing(todo, p)'
        BY <1>2, <2>1 DEF Installing
      <3>3. \A p \in 1..Len(Packs) : Removing(todo, p) => Removing(todo, p)'
        BY <1>2, <2>1 DEF Removing
      <3>4. \A p \in 0..Len(Packs) : WholeBut(p) => WholeBut(p)'
        BY <1>2, <2>1 DEF WholeBut
      <3>5. Len(Packs) \in Nat
        BY Definitions
      <3>6. QED
        BY <1>t, <1>2, <3>1, <3>2, <3>3, <3>4, <3>5 DEF Underway
    <2>8. job'[c] # None /\ \A t \in Threads : t \in Callers /\ t # c
      <3>1. c \in Callers /\ Jobs' /\ at'[c] = at[c] /\ at[c] = "job"
        BY <1>0, <1>1, <1>t, <1>5 DEF Types, Jobs, JobRead
      <3>2. QED
        BY <1>2, <3>1 DEF Jobs, Callers
    <2>9. QED
      BY <2>5, <2>6, <2>7, <2>8 DEF Tally
  <1>6. CASE JobWrite(c)
    <2>1. Advance(c) /\ sources' = job[c].items /\ job[c].items # None
      BY <1>6 DEF JobWrite
    <2>2. Stores(Head(todo), sources', sources)
      BY <1>t, <1>2, <2>1
    <2>3. Underway(Tail(todo))' /\ (Tail(todo) = <<>> => WholeBut(0)')
      BY <1>0, <1>1, <1>t, <1>2, <2>2, StoreKeeps
    <2>4. QED
      BY <1>3, <2>1, <2>3
  <1>7. QED
    BY <1>4, <1>5, <1>6

\* The jobs of the requests of the admin, each begun by a handler that found the loop free.
LEMMA RequestsKeep ==
    ASSUME Types, Tally, NEW h \in Handlers,
           CreateSource(h) \/ EditSource(h) \/ ToggleSource(h) \/ InstallPack(h)
              \/ UninstallPack(h) \/ Import(h)
    PROVE  Tally'
  <1>0. /\ h \in Coroutines /\ sources \in Lists /\ installed \in [1..Len(Packs) -> Nat]
        /\ Offers \subseteq Offer /\ 0 \in 0..Len(Packs)
    BY Definitions DEF Coroutines, Types, Counters
  <1>1. Request(h)
    BY DEF CreateSource, EditSource, ToggleSource, InstallPack, UninstallPack, Import
  <1>2. at[h] = "idle" /\ LoopFree(h) /\ sources' = sources /\ look' = look
    BY <1>1 DEF Request
  <1>3. WholeBut(0)
    BY <1>0, <1>2, FreeLoop
  <1>4. \A id \in Configured : id \in Ids /\ sources[id] \in Source
    BY <1>0, ListFacts DEF Configured
  <1>5. ASSUME NEW todo \in Seq(Steps), todo # <<>>, NEW next \in {"geo", "sync", "idle"},
               Start(h, todo, next), Underway(todo)'
        PROVE  Tally'
    BY <1>0, <1>2, <1>5, StartKeeps
  <1>6. ASSUME NEW todo \in Seq(Steps), todo # <<>>, NEW next \in {"geo", "sync", "idle"},
               Start(h, todo, next), Harmless(todo), UNCHANGED history
        PROVE  Tally'
    <2>1. Harmless(todo)' /\ WholeBut(0)'
      BY <1>2, <1>3, <1>6 DEF Harmless, WholeBut, Configured, history
    <2>2. Underway(todo)'
      BY <2>1 DEF Underway
    <2>3. QED
      BY <1>5, <1>6, <2>2
  <1>7. CASE CreateSource(h)
    <2>1. PICK o \in Offers : /\ o.hosted /\ HasRoom(o.place, sources)
                              /\ Request(h) /\ Start(h, <<Add(o, 0)>>, "geo")
                              /\ UNCHANGED history
      BY <1>7 DEF CreateSource
    <2>2. Add(o, 0) \in Steps /\ Add(o, 0).do = "add" /\ Add(o, 0).pack = 0
      BY <1>0, StepTypes DEF Add
    <2> DEFINE todo == <<Add(o, 0)>>
    <2>3. todo \in Seq(Steps) /\ todo # <<>> /\ Harmless(todo)
      BY <2>2 DEF Harmless
    <2> HIDE DEF todo
    <2>4. QED
      BY <1>6, <2>1, <2>3 DEF todo
  <1>8. ASSUME NEW id \in Configured, NEW s \in Source, s.pack = sources[id].pack,
               NEW next \in {"geo", "sync"}, Start(h, <<Put(id, s)>>, next), UNCHANGED history
        PROVE  Tally'
    <2>1. /\ Put(id, s) \in Steps /\ Put(id, s).do = "put" /\ Put(id, s).id = id
          /\ Put(id, s).source = s
      BY <1>4, StepTypes DEF Put
    <2> DEFINE todo == <<Put(id, s)>>
    <2>2. todo \in Seq(Steps) /\ todo # <<>> /\ Harmless(todo)
      BY <1>8, <2>1 DEF Harmless
    <2> HIDE DEF todo
    <2>3. QED
      BY <1>6, <1>8, <2>2 DEF todo
  <1>9. CASE EditSource(h)
    <2>1. PICK id \in Configured, place \in Countries :
              /\ Request(h) /\ Start(h, <<Put(id, Edited(sources[id], place))>>, "geo")
              /\ UNCHANGED history
      BY <1>9 DEF EditSource
    <2>2. PICK s : s = Edited(sources[id], place)
      OBVIOUS
    <2>3. s \in Source /\ s.pack = sources[id].pack
      BY <1>4, <2>2, EditedType
    <2>4. QED
      BY <1>8, <2>1, <2>2, <2>3
  <1>10. CASE ToggleSource(h)
    <2>1. PICK id \in Configured :
              /\ Request(h) /\ Start(h, <<Put(id, [sources[id] EXCEPT !.enabled = ~@])>>, "sync")
              /\ UNCHANGED history
      BY <1>10 DEF ToggleSource
    <2>2. PICK s : s = [sources[id] EXCEPT !.enabled = ~@]
      OBVIOUS
    <2>3. s \in Source /\ s.pack = sources[id].pack
      <3>1. sources[id].location \in Countries
        BY <1>4 DEF Source
      <3>2. QED
        BY <1>4, <2>2, <3>1, EditedType
    <2>4. QED
      BY <1>8, <2>1, <2>2, <2>3
  <1>11. CASE Import(h)
    <2>1. PICK o \in Entries, q \in Entries :
              /\ Request(h) /\ Start(h, ImportPlan(o, q), "geo")
              /\ UNCHANGED history
      BY <1>11 DEF Import
    <2>2. /\ Add(o, 0) \in Steps /\ Add(o, 0).do = "add" /\ Add(o, 0).pack = 0
          /\ Add(q, 0) \in Steps /\ Add(q, 0).do = "add" /\ Add(q, 0).pack = 0
      BY <1>0, StepTypes DEF Add, Entries
    <2>3. ImportPlan(o, q) \in Seq(Steps) /\ ImportPlan(o, q) # <<>> /\ Harmless(ImportPlan(o, q))
      BY <2>2 DEF Harmless, ImportPlan
    <2>4. QED
      BY <1>6, <2>1, <2>3
  <1>12. CASE InstallPack(h)
    <2>1. PICK p \in 1..Len(Packs), worker \in BOOLEAN :
              /\ HostsResolve(p, worker)
              /\ \A place \in Countries :
                    Cardinality({n \in 1..MaxSuffix : <<place, n>> \notin Configured}) >= Len(Packs[p])
              /\ Request(h) /\ Start(h, Installation(p, worker), "geo")
              /\ installed' = [installed EXCEPT ![p] = @ + 1]
              /\ UNCHANGED single
      BY <1>12 DEF InstallPack
    <2> DEFINE todo == Installation(p, worker)
               n == Len(Packs[p])
    <2>2. /\ todo \in Seq(Steps) /\ Len(todo) = n /\ todo # <<>> /\ n \in Nat
          /\ \A i \in 1..n : todo[i] = Add(Lent(Packs[p][i], worker), p)
      BY InstallationFacts, PackFacts
    <2>3. \A i \in 1..n : todo[i].do = "add" /\ todo[i].pack = p /\ todo[i].offer.hosted
      <3>1. \A o : Add(o, p).do = "add" /\ Add(o, p).pack = p /\ Add(o, p).offer = o
        BY DEF Add
      <3>2. \A i \in 1..n : Lent(Packs[p][i], worker).hosted
        BY <2>1 DEF HostsResolve
      <3> HIDE DEF n, todo
      <3>3. QED
        BY <2>2, <3>1, <3>2
    <2>4. \A place \in Countries : Cardinality(FreeIn(sources, place)) >= n
      BY <2>1 DEF FreeIn, Configured
    <2>5. Cardinality(MembersOf(sources, p)) = installed[p] * n
      BY <1>3 DEF WholeBut
    <2>6. installed'[p] = installed[p] + 1 /\ installed[p] \in Nat
      BY <1>0, <2>1
    <2>7. \A q \in (1..Len(Packs)) \ {p} : installed'[q] = installed[q]
      BY <1>0, <2>1
    <2> HIDE DEF n, todo
    <2>8. Cardinality(MembersOf(sources, p)) + n = installed'[p] * n
      <3>1. \A x \in Nat : (x + 1) * n = x * n + n
        BY <2>2
      <3>2. QED
        BY <2>2, <2>5, <2>6, <3>1
    <2>9. Installing(todo, p)'
      BY <1>2, <2>2, <2>3, <2>4, <2>8 DEF Installing, todo, n
    <2>10. WholeBut(p)'
      BY <1>2, <1>3, <2>7 DEF WholeBut
    <2>11. QED
      BY <1>5, <2>1, <2>2, <2>9, <2>10 DEF Underway, todo
  <1>13. CASE UninstallPack(h)
    <2>1. PICK p \in 1..Len(Packs) :
              /\ SetToSeq(Members(p)) # <<>>
              /\ Request(h) /\ Start(h, Removal(p), "idle")
              /\ installed' = [installed EXCEPT ![p] = 0]
              /\ UNCHANGED single
      BY <1>13 DEF UninstallPack, Removal
    <2>2. PICK todo \in Seq(Steps) : todo = Removal(p)
      BY <1>0, <2>1, RemovalFacts
    <2>3. PICK order, n : order = SetToSeq(Members(p)) /\ n = Cardinality(Members(p))
      OBVIOUS
    <2>4. /\ todo # <<>> /\ Len(todo) = n /\ n \in Nat
          /\ \A i \in 1..n : todo[i].do = "drop" /\ todo[i].id = order[i]
      <3>1. \A id : Drop(id).do = "drop" /\ Drop(id).id = id
        BY DEF Drop
      <3>2. /\ todo # <<>> /\ Len(todo) = n /\ n \in Nat
            /\ \A i \in 1..n : todo[i] = Drop(order[i])
        BY <1>0, <2>1, <2>2, <2>3, RemovalFacts
      <3>3. QED
        BY <3>1, <3>2
    <2>5. /\ order \in [1..n -> Members(p)] /\ IsInjective(order)
          /\ \A x \in Members(p) : \E i \in 1..n : order[i] = x
      <3>1. Members(p) \in SUBSET Ids
        BY <1>4 DEF Members
      <3>2. QED
        BY <2>3, <3>1, IdsFinite, SetToSeqFacts
    <2>6. \A i, j \in 1..n : order[i] = order[j] => i = j
      BY <2>5 DEF IsInjective
    <2>7. MembersOf(sources, p) = {todo[i].id : i \in 1..Len(todo)}
      <3>1. Members(p) = MembersOf(sources, p)
        BY DEF Members, MembersOf, Configured
      <3>2. QED
        BY <2>4, <2>5, <3>1
    <2>8. /\ installed'[p] = 0
          /\ \A q \in (1..Len(Packs)) \ {p} : installed'[q] = installed[q]
      BY <1>0, <2>1
    <2>9. Removing(todo, p)'
      BY <1>2, <2>4, <2>6, <2>7, <2>8 DEF Removing
    <2>10. WholeBut(p)'
      BY <1>2, <1>3, <2>8 DEF WholeBut
    <2>11. QED
      BY <1>5, <2>1, <2>2, <2>4, <2>9, <2>10 DEF Underway
  <1>14. QED
    BY <1>7, <1>9, <1>10, <1>11, <1>12, <1>13

\* Nobody else writes the list, starts a job or counts a pack.
LEMMA OthersKeep ==
    ASSUME Tally, UNCHANGED <<sources, job, installed>>
    PROVE  Tally'
  <1>1. ASSUME NEW p \in 0..Len(Packs), WholeBut(p) PROVE WholeBut(p)'
    BY <1>1 DEF WholeBut
  <1>2. Len(Packs) \in Nat
    BY Definitions
  <1>3. ASSUME NEW c \in Callers, job[c] # None, NEW todo, todo = job[c].todo, Underway(todo)
        PROVE  Underway(todo)'
    <2>1. Harmless(todo) => Harmless(todo)'
      BY DEF Harmless, Configured
    <2>2. \A p \in 1..Len(Packs) : Installing(todo, p) => Installing(todo, p)'
      BY DEF Installing
    <2>3. \A p \in 1..Len(Packs) : Removing(todo, p) => Removing(todo, p)'
      BY DEF Removing
    <2>4. QED
      BY <1>1, <1>2, <1>3, <2>1, <2>2, <2>3 DEF Underway
  <1>4. \A step, new : Stores(step, new, sources) => Stores(step, new, sources)'
    BY DEF Stores
  <1>5. ASSUME NEW c \in Callers, job[c] # None
        PROVE  /\ (job[c].items = None \/ Stores(Head(job[c].todo), job[c].items, sources))'
               /\ Underway(job[c].todo)'
    <2>1. PICK todo, items : todo = job[c].todo /\ items = job[c].items
      OBVIOUS
    <2>2. (items = None \/ Stores(Head(todo), items, sources)) /\ Underway(todo)
      BY <1>5, <2>1 DEF Tally
    <2>3. Underway(todo)'
      BY <1>3, <1>5, <2>1, <2>2
    <2>4. items = None \/ Stores(Head(todo), items, sources)'
      BY <1>4, <2>2
    <2>5. todo = job'[c].todo /\ items = job'[c].items
      BY <2>1
    <2>6. QED
      BY <2>3, <2>4, <2>5
  <1>6. QED
    BY <1>1, <1>2, <1>5 DEF Tally

\* A thread that deletes no location goes on rebuilding only.
LEMMA ErrandsNext ==
    ASSUME Types, Tally, Errands, [Next]_vars, ~single'
    PROVE  Errands'
  <1> SUFFICES ASSUME NEW t \in Threads PROVE at'[t] \in {"idle", "sync"}
    BY DEF Errands
  <1>0. /\ t \in Callers /\ t \notin Coroutines /\ job[t] = None /\ at[t] \in {"idle", "sync"}
        /\ at \in [Callers -> Stages]
    BY MonitorIsApart DEF Callers, Coroutines, Tally, Errands, Types, Jobs
  <1>1. ASSUME NEW c \in Callers, Work(c) \/ BudgetSpent(c) PROVE at'[t] \in {"idle", "sync"}
    <2>1. CASE c = t
      <3>1. Sync(c)
        BY <1>0, <1>1, <2>1
           DEF Work, BudgetSpent, JobRead, JobWrite, Measure, LookUp, SaveAnswers, AlignLabels
      <3>2. QED
        BY <1>0, <2>1, <3>1 DEF Sync
    <2>2. CASE c # t
      <3>1. at' = at \/ \E stage : at' = [at EXCEPT ![c] = stage]
        BY <1>1 DEF Work, BudgetSpent, JobRead, JobWrite, Measure, LookUp, SaveAnswers, AlignLabels,
                    Sync, Advance, Start
      <3>2. QED
        BY <1>0, <2>2, <3>1
    <2>3. QED
      BY <2>1, <2>2
  <1>2. ASSUME NEW h \in Handlers,
               \/ CreateSource(h) \/ EditSource(h) \/ ToggleSource(h) \/ InstallPack(h) \/ UninstallPack(h)
               \/ Import(h) \/ Remeasure(h) \/ PingSource(h) \/ Scan(h) \/ AddIps(h)
        PROVE  at'[t] \in {"idle", "sync"}
    <2>1. \E stage : at' = [at EXCEPT ![h] = stage]
      BY <1>2 DEF CreateSource, EditSource, ToggleSource, InstallPack, UninstallPack, Import, Remeasure,
                  PingSource, Scan, AddIps, Start
    <2>2. h # t
      BY <1>0 DEF Coroutines
    <2>3. QED
      BY <1>0, <2>1, <2>2
  <1>3. ASSUME NEW u \in Threads, DeleteSource(u) \/ RemoveIp(u) PROVE at'[t] \in {"idle", "sync"}
    BY <1>0, <1>3 DEF DeleteSource, RemoveIp
  <1>4. ASSUME Wake \/ TimePasses \/ UNCHANGED vars PROVE at'[t] \in {"idle", "sync"}
    <2>1. at' = at \/ at' = [at EXCEPT ![Monitor] = "geo"]
      BY <1>4 DEF Wake, TimePasses, vars
    <2>2. Monitor # t
      BY <1>0 DEF Coroutines
    <2>3. QED
      BY <1>0, <2>1, <2>2
  <1>5. QED
    BY <1>1, <1>2, <1>3, <1>4 DEF Next

\* Every action keeps the tally, as long as nobody deletes single locations.
LEMMA TalliedNext == Types /\ Tallied /\ [Next]_vars => Tallied'
  <1> SUFFICES ASSUME Types, Tallied, [Next]_vars, ~single' PROVE Tally' /\ Errands'
    BY DEF Tallied
  <1>0. Types'
    BY TypesNext
  <1>a. ~single /\ Tally /\ Errands
    <2>1. single' = single \/ single' = TRUE
      BY DEF Next, Work, JobRead, JobWrite, Measure, LookUp, SaveAnswers, AlignLabels, Sync, BudgetSpent,
             CreateSource, EditSource, ToggleSource, InstallPack, UninstallPack, Import, Remeasure,
             PingSource, Scan, AddIps, DeleteSource, RemoveIp, Wake, TimePasses, vars, counts, history
    <2>2. QED
      BY <2>1 DEF Tallied
  <1>1. ASSUME NEW t \in Threads, DeleteSource(t) PROVE Tally'
    BY <1>1 DEF DeleteSource
  <1>2. ASSUME NEW c \in Callers, JobRead(c) \/ JobWrite(c) PROVE Tally'
    BY <1>0, <1>a, <1>2, JobKeeps
  <1>3. ASSUME NEW h \in Handlers,
               CreateSource(h) \/ EditSource(h) \/ ToggleSource(h) \/ InstallPack(h)
                  \/ UninstallPack(h) \/ Import(h)
        PROVE  Tally'
    BY <1>a, <1>3, RequestsKeep
  <1>4. ASSUME NEW c \in Callers, AlignLabels(c) PROVE Tally'
    <2>1. /\ at[c] = "align" /\ LoopFree(c) /\ Start(c, <<Align>>, "sync")
          /\ UNCHANGED <<sources, look, installed>>
      BY <1>4 DEF AlignLabels, counts, history
    <2>2. c \in Coroutines
      BY <1>a, <2>1 DEF Errands, Callers
    <2>3. WholeBut(0)'
      BY <1>a, <2>1, <2>2, FreeLoop DEF WholeBut
    <2> DEFINE todo == <<Align>>
    <2>4. todo \in Seq(Steps) /\ todo # <<>> /\ Harmless(todo)'
      BY StepTypes DEF Align, Harmless
    <2> HIDE DEF todo
    <2>5. Underway(todo)'
      BY <2>3, <2>4 DEF Underway
    <2>6. QED
      BY <1>a, <2>1, <2>2, <2>4, <2>5, StartKeeps DEF todo
  <1>5. ASSUME UNCHANGED <<sources, job, installed>> PROVE Tally'
    BY <1>a, <1>5, OthersKeep
  <1>6. ASSUME NEW c \in Callers, Measure(c) \/ LookUp(c) \/ SaveAnswers(c) \/ Sync(c) \/ BudgetSpent(c)
        PROVE  UNCHANGED <<sources, job, installed>>
    BY <1>6 DEF Measure, LookUp, SaveAnswers, Sync, BudgetSpent, world, counts, history
  <1>7. ASSUME NEW h \in Handlers, Remeasure(h) \/ PingSource(h) \/ Scan(h) \/ AddIps(h)
        PROVE  UNCHANGED <<sources, job, installed>>
    BY <1>7 DEF Remeasure, PingSource, Scan, AddIps, Request, history
  <1>8. ASSUME NEW t \in Threads, RemoveIp(t)
        PROVE  UNCHANGED <<sources, job, installed>>
    BY <1>8 DEF RemoveIp, history
  <1>9. ASSUME Wake \/ TimePasses \/ UNCHANGED vars
        PROVE  UNCHANGED <<sources, job, installed>>
    BY <1>9 DEF Wake, TimePasses, vars, world, counts, history
  <1>10. Errands'
    BY <1>a, ErrandsNext
  <1>11. QED
    BY <1>1, <1>2, <1>3, <1>4, <1>5, <1>6, <1>7, <1>8, <1>9, <1>10 DEF Next, Work

\* No pack is installed, no job begun.
LEMMA TalliedInit == Init => Tallied
  <1> SUFFICES ASSUME Init PROVE Tally /\ Errands
    BY DEF Tallied
  <1>1. \A p \in 1..Len(Packs) : MembersOf(sources, p) = {}
    <2>1. CASE sources = <<>>
      BY <2>1 DEF MembersOf
    <2>2. ASSUME NEW o \in Stored, sources = With(<<>>, <<o.place, 1>>, NewSource(o, 0))
          PROVE  \A p \in 1..Len(Packs) : MembersOf(sources, p) = {}
      <3>1. NewSource(o, 0).pack = 0
        BY DEF NewSource
      <3>2. \A id \in DOMAIN sources : sources[id] = NewSource(o, 0)
        BY <2>2 DEF With
      <3>3. QED
        BY <3>1, <3>2 DEF MembersOf
    <2>3. QED
      BY <2>1, <2>2 DEF Init
  <1>2. WholeBut(0)
    <2>1. \A p \in 1..Len(Packs) : installed[p] * Len(Packs[p]) = 0
      BY PackFacts DEF Init
    <2>2. QED
      BY <1>1, <2>1, FS_EmptySet DEF WholeBut
  <1>3. QED
    BY <1>2 DEF Init, Tally, Errands, Callers

\* The tally holds in every reachable state.
LEMMA TalliedHolds == Spec => []Tallied
  BY TalliedInit, TalliedNext, TypesHold, PTL DEF Spec

\* Every pack is in the list as often as it was accepted since it was last removed, with
\* all of its locations, whenever nobody is in the middle of a change (packs.py, install
\* and uninstall), however many packs, places and requests there are.
THEOREM PacksAreWhole == Spec => []PackWhole
  <1>1. Tallied => PackWhole
    <2> SUFFICES ASSUME Tally, \A c \in Callers : job[c] = None, NEW p \in 1..Len(Packs)
                 PROVE  Cardinality(Members(p)) = installed[p] * Len(Packs[p])
      BY DEF Tallied, PackWhole
    <2>1. Members(p) = MembersOf(sources, p)
      BY DEF Members, MembersOf, Configured
    <2>2. p \in (1..Len(Packs)) \ {0}
      OBVIOUS
    <2>3. QED
      BY <2>1, <2>2 DEF Tally, WholeBut
  <1>2. QED
    BY <1>1, TalliedHolds, PTL

\* No alignment changes the country of a location that is pinned when the list is stored
\* (sources.py, align_labels; main.py, edge_save_source), however many locations,
\* measurements and edits there are: between its reading and its writing of the list no
\* other coroutine runs, and it passes over what it read as pinned.
THEOREM PinsAreKept == Spec => AlignKeepsPins
  <1>1. Types /\ Tallied /\ [Next]_vars =>
            [\A c \in Callers : (AligningNow(c) /\ sources' # sources /\ ~single) =>
                \A id \in Configured \cap DOMAIN sources' :
                   ~sources[id].autolabel => sources'[id].location = sources[id].location]_vars
    <2> SUFFICES ASSUME Types, Tallied, Next, NEW c \in Callers, AligningNow(c), sources' # sources, ~single,
                        NEW id \in Configured, id \in DOMAIN sources', ~sources[id].autolabel
                 PROVE  sources'[id].location = sources[id].location
      BY DEF vars
    <2>1. PICK d \in Callers : JobWrite(d)
      BY DEF Next, Work, JobRead, Measure, LookUp, SaveAnswers, AlignLabels, Sync, BudgetSpent,
             CreateSource, EditSource, ToggleSource, InstallPack, UninstallPack, Import, Remeasure,
             PingSource, Scan, AddIps, DeleteSource, RemoveIp, Wake, TimePasses, Request, world
    <2>2. c = d /\ sources' = job[c].items /\ Stores(Head(job[c].todo), sources', sources)
      BY <2>1 DEF JobWrite, AligningNow, Tallied, Tally
    <2>3. Head(job[c].todo).do = "align"
      BY DEF AligningNow, Align
    <2>4. Relabelled(sources', sources)
      BY <2>2, <2>3 DEF Stores
    <2>5. QED
      BY <2>4 DEF Relabelled, Configured
  <1>2. QED
    BY <1>1, TypesHold, TalliedHolds, PTL DEF Spec, AlignKeepsPins
=============================================================================
