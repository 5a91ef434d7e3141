------------------------------ MODULE Locations ------------------------------
(***************************************************************************)
(* The locations of the panel (the setting edge_sources), the packs and    *)
(* imports that create them, and the country each of them is labelled      *)
(* with: app/edge/sources.py, app/edge/packs.py, app/edge/geo.py and the   *)
(* handlers under /api/edge.                                               *)
(*                                                                         *)
(* All locations are one JSON value: every change reads the list and       *)
(* writes it back whole.  Coroutines do that without an await, so they do  *)
(* not interleave with one another; the handler that deletes a location is *)
(* a plain function and does it in a pool thread, between any two          *)
(* statements of theirs.  The answers of the geo databases are one JSON    *)
(* value too, read and written back by lookups that run in threads.        *)
(*                                                                         *)
(* Data abstraction.  An id is the slug of the place a location was        *)
(* created with and the suffix that made it unique.  `own` are the         *)
(* addresses of a location's ranges and of the IPs typed for it; caps and  *)
(* latencies are left out.  There is one provider, and three databases     *)
(* answer with one voice: CountryOf, or a failure.                         *)
(***************************************************************************)
EXTENDS Naturals, FiniteSets, SequencesExt

CONSTANTS
    Monitor,    \* the background task of app/cloudflare/monitor.py
    Handlers,   \* coroutines: save, toggle, ping, pack and import requests
    Threads,    \* pool threads, for DELETE of a location or of an address
    Countries, Addrs,
    CountryOf,  \* what the databases answer for an address (None: they do not agree)
    Offers,     \* the definitions an admin may type or paste
    Packs,      \* the ready-made packs: sequences of definitions
    Stored,     \* the definitions an earlier run of the service may have left
    Long,       \* places whose slug already fills the 24 characters a name may have
    Seeds,      \* the addresses a scan of the provider finds
    None, Failed,
    Limit,      \* new addresses one measurement may look up
    MaxSuffix,  \* bound: locations of one place
    MaxEdits,   \* bound: requests of the admin
    MaxFailures \* bound: failed lookups and failed scans

Ids == Countries \X (1..MaxSuffix)
Coroutines == {Monitor} \cup Handlers
Callers == Coroutines \cup Threads
Answers == Countries \cup {None, Failed}

Offer == [place : Countries, kind : {"ip", "domain"}, own : SUBSET Addrs,
          hosted : BOOLEAN]  \* hosted: the definition names its own Host/SNI
Source == [location : Countries, kind : {"ip", "domain"}, own : SUBSET Addrs,
           enabled : BOOLEAN, autolabel : BOOLEAN, pack : 0..Len(Packs)]

ASSUME MonitorIsApart == Monitor \notin Handlers \cup Threads /\ Handlers \cap Threads = {}
ASSUME NoAnswerIsNoCountry == None \notin Countries \cup Addrs /\ Failed \notin Countries /\ None # Failed
ASSUME Databases == CountryOf \in [Addrs -> Countries \cup {None}]
ASSUME Definitions ==
    /\ Offers \cup Stored \subseteq Offer /\ Seeds \subseteq Addrs
    /\ Packs \in Seq(Seq(Offer)) /\ \A p \in DOMAIN Packs : Packs[p] # <<>>
ASSUME CountriesAreNames == IsFiniteSet(Countries) /\ Countries \cap Ids = {}
ASSUME LongArePlaces == Long \subseteq Countries
ASSUME BoundsAreNat ==
    {Limit, MaxSuffix, MaxEdits, MaxFailures} \subseteq Nat
ASSUME PlacesHaveRoom == MaxSuffix > 0

VARIABLES
    sources,   \* settings edge_sources: the configured locations, by id
    answers,   \* settings edge_geo_cache: what is remembered of each address
    lookups,   \* settings: geo lookups are allowed (fixed here)
    pool,      \* cf_ips: the provider's clean addresses
    fetched,   \* _POOL_FETCH: the pool was fetched within the last TTL
    catalog,   \* the nodes the last rebuild published
    job,       \* the read-modify-writes a caller is in the middle of, or None
    at,        \* what a caller does next
    look,      \* a measurement in its thread: the copy it fills and what it has to ask
    edits, failures,
    installed, \* history: how often each pack was accepted since it was last removed
    single     \* history: somebody deleted a location by itself

vars == <<sources, answers, lookups, pool, fetched, catalog, job, at, look, edits, failures, installed, single>>
world == <<lookups, pool, fetched, catalog>>
history == <<installed, single>>
counts == <<edits, failures, history>>

-----------------------------------------------------------------------------
(* What the code computes from the settings.                               *)

Configured == DOMAIN sources
With(all, id, s) == [i \in DOMAIN all \cup {id} |-> IF i = id THEN s ELSE all[i]]
Without(all, id) == [i \in DOMAIN all \ {id} |-> all[i]]

\* normalize_source: the first spelling of the place that is not taken
FreshId(place, all) ==
    <<place, CHOOSE n \in 1..MaxSuffix : /\ <<place, n>> \notin DOMAIN all
                                         /\ \A k \in 1..(n - 1) : <<place, k>> \in DOMAIN all>>
HasRoom(place, all) == \E n \in 1..MaxSuffix : <<place, n>> \notin DOMAIN all

NewSource(o, pack) ==
    [location |-> o.place, kind |-> o.kind, own |-> o.own,
     enabled |-> TRUE, autolabel |-> TRUE, pack |-> pack]

\* geo.majority over the remembered answers; a tie is not a country
Votes(as, c) == Cardinality({a \in as : answers[a] = c})
Majority(as) ==
    LET winners == {c \in Countries : /\ Votes(as, c) > 0
                                      /\ \A d \in Countries \ {c} : Votes(as, d) < Votes(as, c)}
    IN IF winners = {} THEN None ELSE CHOOSE c \in winners : TRUE
\* location_country
Measured(s) == IF s.kind = "ip" THEN Majority(s.own) ELSE None
Home(s) == IF Measured(s) = None THEN s.location ELSE Measured(s)

\* _ordered_ips, then the half of _measured_location that drops what answers elsewhere
Candidates(s, known) == IF s.own = {} THEN known ELSE s.own
Published(s, known) ==
    LET all == Candidates(s, known)
        kept == {a \in all : answers[a] \in {Home(s), None, Failed}}
    IN IF kept = {} THEN all ELSE kept

\* _slug cuts what it returns to 24 characters; an id keeps the suffix that was
\* appended to it afterwards, the names built from the id lose it
Slug(id) == IF id[1] \in Long THEN <<id[1], 1>> ELSE id
\* Mutant: the name is made of the country alone.
NodeNameOfCountry(id, s) == IF s.kind = "domain" THEN <<id>> ELSE <<Home(s)>>
\* nodes_for_source: a location that was relabelled keeps its id in its nodes' names
NodeName(id, s) ==
    IF s.kind = "domain" THEN <<Slug(id)>>
    ELSE IF Slug(id) = <<Home(s), 1>> THEN <<Home(s)>> ELSE <<Home(s), Slug(id)>>
NodesOf(id, s, known) ==
    [id : {id}, name : {NodeName(id, s)}, country : {IF s.kind = "ip" THEN Home(s) ELSE s.location},
     server : IF s.kind = "ip" THEN Published(s, known) ELSE {None}]
EnabledIn(all) == {id \in DOMAIN all : all[id].enabled}
Plan(known) == UNION {NodesOf(id, sources[id], known) : id \in EnabledIn(sources)}

\* Mutant: a pinned location is aligned like the others.
RelabelAny(s) == IF s.kind = "ip" /\ s.enabled /\ Measured(s) # None
                 THEN [s EXCEPT !.location = Measured(s)] ELSE s
\* align_labels: a guessed country yields to the measured one
Relabel(s) ==
    IF /\ s.kind = "ip" /\ s.enabled /\ s.autolabel
       /\ Measured(s) # None
    THEN [s EXCEPT !.location = Measured(s)] ELSE s
Aligned(all) == IF lookups THEN [id \in DOMAIN all |-> Relabel(all[id])] ELSE all

-----------------------------------------------------------------------------
(* Read-modify-writes.  A job is a sequence of them; each reads the list   *)
(* (items), then writes it.                                                *)

Add(o, pack) == [do |-> "add", offer |-> o, pack |-> pack]
Put(id, s) == [do |-> "put", id |-> id, source |-> s]
Drop(id) == [do |-> "drop", id |-> id]
Align == [do |-> "align"]

\* The event loop is held by the coroutine whose job is under way.
LoopFree(c) == c \in Coroutines => \A d \in Coroutines : job[d] = None

Start(c, todo, next) ==
    /\ job' = [job EXCEPT ![c] = [todo |-> todo, items |-> None, next |-> next]]
    /\ at' = [at EXCEPT ![c] = "job"]

\* What one save_source(), delete_source() or align_labels() will write over `all`
Result(step, all) ==
    CASE step.do = "add" -> With(all, FreshId(step.offer.place, all), NewSource(step.offer, step.pack))
      [] step.do = "put" -> With(all, step.id, step.source)
      [] step.do = "drop" -> Without(all, step.id)
      [] step.do = "align" -> Aligned(all)

\* save_source() refuses a definition without a host, and the loops over a pack's
\* or an import's definitions go on with the next one
\* (a full MaxSuffix counts as a refusal); nothing is written where nothing changes.
Skipped(step) ==
    CASE step.do = "add" -> ~(step.offer.hosted /\ HasRoom(step.offer.place, sources))
      [] step.do = "put" -> FALSE
      [] step.do = "drop" -> step.id \notin Configured
      [] step.do = "align" -> Aligned(sources) = sources

\* One of them is over: go on with the rest of the job, or with what follows it.
Advance(c) ==
    LET rest == Tail(job[c].todo) IN
    IF rest = <<>>
    THEN job' = [job EXCEPT ![c] = None] /\ at' = [at EXCEPT ![c] = job[c].next]
    ELSE job' = [job EXCEPT ![c] = [@ EXCEPT !.todo = rest, !.items = None]] /\ UNCHANGED at

JobRead(c) ==
    /\ job[c] # None /\ job[c].items = None
    /\ IF Skipped(Head(job[c].todo)) THEN Advance(c)
       ELSE /\ job' = [job EXCEPT ![c] = [@ EXCEPT !.items = Result(Head(job[c].todo), sources)]]
            /\ UNCHANGED at
    /\ UNCHANGED <<sources, answers, world, look, counts>>

\* A dropped location takes its nodes along.
JobWrite(c) ==
    /\ job[c] # None /\ job[c].items # None
    /\ sources' = job[c].items
    /\ catalog' = IF Head(job[c].todo).do = "drop"
                  THEN {n \in catalog : n.id # Head(job[c].todo).id} ELSE catalog
    /\ Advance(c)
    /\ UNCHANGED <<answers, lookups, pool, fetched, look, counts>>

-----------------------------------------------------------------------------
(* Requests.                                                               *)

Request(c) ==
    /\ at[c] = "idle" /\ job[c] = None /\ LoopFree(c)
    /\ edits < MaxEdits /\ edits' = edits + 1
    /\ UNCHANGED <<sources, answers, lookups, pool, fetched, catalog, look, failures>>

\* POST /api/edge/sources without an id
CreateSource(h) ==
    \E o \in Offers :
       /\ o.hosted /\ HasRoom(o.place, sources)
       /\ Request(h) /\ Start(h, <<Add(o, 0)>>, "geo")
       /\ UNCHANGED history

\* ... and with one: a country the admin changes by hand pins the location
Edited(s, place) == [s EXCEPT !.location = place, !.autolabel = @ /\ place = s.location]
EditSource(h) ==
    \E id \in Configured, place \in Countries :
       /\ Request(h) /\ Start(h, <<Put(id, Edited(sources[id], place))>>, "geo")
       /\ UNCHANGED history

\* toggle: no measurement, the catalog is rebuilt at once
ToggleSource(h) ==
    \E id \in Configured :
       /\ Request(h) /\ Start(h, <<Put(id, [sources[id] EXCEPT !.enabled = ~@])>>, "sync")
       /\ UNCHANGED history

\* Mutant: no definition is looked at before the first one is saved.
HostsResolveLater(p, worker) == p \in 1..Len(Packs) /\ worker \in BOOLEAN
\* packs.install: every host is resolved first; `worker` is the address the
\* panel would lend to definitions without one of their own
Lent(o, worker) == [o EXCEPT !.hosted = @ \/ worker]
Installation(p, worker) == [i \in 1..Len(Packs[p]) |-> Add(Lent(Packs[p][i], worker), p)]
HostsResolve(p, worker) == \A i \in 1..Len(Packs[p]) : Lent(Packs[p][i], worker).hosted
InstallPack(h) ==
    \E p \in 1..Len(Packs), worker \in BOOLEAN :
       /\ HostsResolve(p, worker)
       /\ \A place \in Countries :
             Cardinality({n \in 1..MaxSuffix : <<place, n>> \notin Configured}) >= Len(Packs[p])
       /\ Request(h) /\ Start(h, Installation(p, worker), "geo")
       /\ installed' = [installed EXCEPT ![p] = @ + 1]
       /\ UNCHANGED single

\* packs.uninstall: what belongs to the pack is listed first; no rebuild follows
Members(p) == {id \in Configured : sources[id].pack = p}
UninstallPack(h) ==
    \E p \in 1..Len(Packs) :
       LET members == SetToSeq(Members(p)) IN
       /\ members # <<>>
       /\ Request(h) /\ Start(h, [i \in DOMAIN members |-> Drop(members[i])], "idle")
       /\ installed' = [installed EXCEPT ![p] = 0]
       /\ UNCHANGED single

\* packs.import_plan: every entry that could be read is a clean domain of its own;
\* the same place may come up twice, on two ports
Entries == {o \in Offers : o.kind = "domain"}
ImportPlan(o, q) == <<Add(o, 0), Add(q, 0)>>
Import(h) ==
    \E o, q \in Entries :
       /\ Request(h) /\ Start(h, ImportPlan(o, q), "geo")
       /\ UNCHANGED history

\* POST /api/edge/geo measures what there is, .../ping of a location too
Remeasure(h) == /\ Request(h)
                /\ at' = [at EXCEPT ![h] = "geo"]
                /\ UNCHANGED <<job, history>>
PingSource(h) == Configured # {} /\ Remeasure(h)

\* POST /api/edge/scan fills the pool and measures; POST /api/edge/ips adds an
\* address and rebuilds.  Both probe the pool in between, which changes latencies only.
Found == Seeds  \* fetch() and sample(): the list of the provider, or its own seed
Scan(h) ==
    /\ at[h] = "idle" /\ LoopFree(h) /\ edits < MaxEdits /\ edits' = edits + 1
    /\ pool' = pool \cup Found
    /\ at' = [at EXCEPT ![h] = "geo"]
    /\ UNCHANGED <<sources, answers, lookups, fetched, catalog, job, look, failures, history>>
AddIps(h) ==
    \E a \in Addrs \ pool :
       /\ at[h] = "idle" /\ LoopFree(h) /\ edits < MaxEdits /\ edits' = edits + 1
       /\ pool' = pool \cup {a}
       /\ at' = [at EXCEPT ![h] = "sync"]
       /\ UNCHANGED <<sources, answers, lookups, fetched, catalog, job, look, failures, history>>

\* DELETE of a location, and of an address of the pool: plain functions
DeleteSource(t) ==
    \E id \in Configured :
       /\ Request(t) /\ Start(t, <<Drop(id)>>, "sync")
       /\ single' = TRUE /\ UNCHANGED installed
RemoveIp(t) ==
    \E a \in pool :
       /\ at[t] = "idle" /\ edits < MaxEdits /\ edits' = edits + 1
       /\ pool' = pool \ {a}
       /\ at' = [at EXCEPT ![t] = "sync"]
       /\ UNCHANGED <<sources, answers, lookups, fetched, catalog, job, look, failures, history>>

-----------------------------------------------------------------------------
(* A measurement (measure_async, then geo.resolve in a thread), the         *)
(* alignment it is made for, and the rebuild.                              *)

\* _country_addresses: what the enabled locations decide their country from
Deciding == UNION {sources[id].own : id \in {i \in EnabledIn(sources) : sources[i].kind = "ip"}}
Unknown == {a \in Deciding : answers[a] = None}

Measure(c) ==
    /\ at[c] = "geo" /\ LoopFree(c)
    /\ \E todo \in SUBSET Unknown :
          /\ Cardinality(todo) = (IF Cardinality(Unknown) < Limit THEN Cardinality(Unknown) ELSE Limit)
          /\ IF lookups /\ todo # {}
             THEN /\ look' = [look EXCEPT ![c] = [copy |-> answers, todo |-> todo, asked |-> FALSE]]
                  /\ at' = [at EXCEPT ![c] = "look"]
             ELSE at' = [at EXCEPT ![c] = "align"] /\ UNCHANGED look
    /\ UNCHANGED <<sources, answers, world, job, counts>>

LookUp(c) ==
    /\ at[c] = "look"
    /\ \E a \in look[c].todo, fails \in BOOLEAN :
          /\ failures' = IF fails THEN failures + 1 ELSE failures
          /\ fails => failures < MaxFailures
          /\ look' = [look EXCEPT ![c] =
                        [copy |-> [@.copy EXCEPT ![a] = IF fails \/ CountryOf[a] = None THEN Failed
                                                        ELSE CountryOf[a]],
                         todo |-> @.todo \ {a}, asked |-> TRUE]]
    /\ UNCHANGED <<sources, answers, world, job, at, edits, history>>

\* Mutant: the finished measurement is not put away.
SaveAnswersOnly(c) ==
    /\ at[c] = "look" /\ look[c].todo = {}
    /\ answers' = look[c].copy
    /\ at' = [at EXCEPT ![c] = "align"]
    /\ UNCHANGED <<sources, world, job, look, counts>>
\* the copy is stored whole, when everything was asked or the time was spent
SaveAnswers(c) ==
    /\ at[c] = "look" /\ look[c].todo = {}
    /\ answers' = look[c].copy
    /\ look' = [look EXCEPT ![c] = None]
    /\ at' = [at EXCEPT ![c] = "align"]
    /\ UNCHANGED <<sources, world, job, counts>>
BudgetSpent(c) ==
    /\ at[c] = "look" /\ look[c].todo # {} /\ look[c].asked
    /\ failures < MaxFailures /\ failures' = failures + 1
    /\ look' = [look EXCEPT ![c].todo = {}]
    /\ UNCHANGED <<sources, answers, world, job, at, edits, history>>

AlignLabels(c) ==
    /\ at[c] = "align" /\ LoopFree(c)
    /\ Start(c, <<Align>>, "sync")
    /\ UNCHANGED <<sources, answers, world, look, counts>>

\* sync(): an empty pool is fetched once per TTL, then the plan is published
EnsurePool ==
    IF pool = {} /\ ~fetched /\ EnabledIn(sources) # {}
    THEN /\ fetched' = TRUE
         /\ \/ pool' = Found /\ UNCHANGED failures
            \/ failures < MaxFailures /\ failures' = failures + 1 /\ UNCHANGED pool
    ELSE UNCHANGED <<pool, fetched, failures>>
Sync(c) ==
    /\ at[c] = "sync" /\ LoopFree(c)
    /\ EnsurePool
    /\ catalog' = Plan(pool')
    /\ at' = [at EXCEPT ![c] = "idle"]
    /\ UNCHANGED <<sources, answers, lookups, job, look, edits, history>>

Wake == /\ at[Monitor] = "idle" /\ LoopFree(Monitor)
        /\ at' = [at EXCEPT ![Monitor] = "geo"]
        /\ UNCHANGED <<sources, answers, world, job, look, counts>>

\* Mutant: a failed lookup is never due again.
TimePassesForPools ==
    /\ fetched /\ fetched' = FALSE
    /\ UNCHANGED <<sources, answers, lookups, pool, catalog, job, at, look, counts>>
\* RETRY_AFTER and POOL_FETCH_TTL: a failed lookup and an empty pool are due again.
Retried == [a \in Addrs |-> IF answers[a] = Failed THEN None ELSE answers[a]]
TimePasses == /\ fetched \/ answers # Retried
              /\ fetched' = FALSE /\ answers' = Retried
              /\ UNCHANGED <<sources, lookups, pool, catalog, job, at, look, counts>>

-----------------------------------------------------------------------------
Init ==
    /\ sources \in {<<>>} \cup {With(<<>>, <<o.place, 1>>, NewSource(o, 0)) : o \in Stored}
    /\ answers = [a \in Addrs |-> None] /\ lookups \in BOOLEAN
    /\ pool = {} /\ fetched = FALSE /\ catalog = {}
    /\ job = [c \in Callers |-> None] /\ at = [c \in Callers |-> "idle"]
    /\ look = [c \in Callers |-> None]
    /\ edits = 0 /\ failures = 0 /\ installed = [p \in 1..Len(Packs) |-> 0] /\ single = FALSE

Work(c) == JobRead(c) \/ JobWrite(c) \/ Measure(c) \/ LookUp(c)
           \/ SaveAnswers(c) \/ AlignLabels(c) \/ Sync(c)

Next ==
    \/ \E c \in Callers : Work(c) \/ BudgetSpent(c)
    \/ \E h \in Handlers : \/ CreateSource(h) \/ EditSource(h) \/ ToggleSource(h)
                           \/ InstallPack(h) \/ UninstallPack(h) \/ Import(h) \/ Remeasure(h) \/ PingSource(h)
                           \/ Scan(h) \/ AddIps(h)
    \/ \E t \in Threads : DeleteSource(t) \/ RemoveIp(t)
    \/ Wake \/ TimePasses

Spec == Init /\ [][Next]_vars

(* The loop and the threads run what is ready, the monitor never ends and  *)
(* time passes.  Nothing is assumed of the admin.                          *)
Fairness == /\ \A c \in Callers : WF_vars(Work(c))
            /\ WF_vars(Wake) /\ WF_vars(TimePasses)
FairSpec == Spec /\ Fairness

-----------------------------------------------------------------------------
Steps == [do : {"add"}, offer : Offer, pack : 0..Len(Packs)]
         \cup [do : {"put"}, id : Ids, source : Source]
         \cup [do : {"drop"}, id : Ids] \cup [do : {"align"}]
Lists == UNION {[S -> Source] : S \in SUBSET Ids}
Job == [todo : Seq(Steps), items : {None} \cup Lists, next : {"geo", "sync", "idle"}]
Look == [copy : [Addrs -> Answers], todo : SUBSET Addrs, asked : BOOLEAN]

ASSUME NoneIsNoRecord == None \notin Job /\ None \notin Look

\* The list, the remembered answers and the published nodes have the shapes the
\* code gives them, whoever writes them.
TypeOK ==
    /\ Configured \subseteq Ids /\ \A id \in Configured : sources[id] \in Source
    /\ answers \in [Addrs -> Answers] /\ lookups \in BOOLEAN
    /\ pool \subseteq Addrs /\ fetched \in BOOLEAN
    /\ \A n \in catalog : n.id \in Ids /\ n.country \in Countries /\ n.server \in Addrs \cup {None}
    /\ \A c \in Callers : /\ at[c] \in {"idle", "job", "geo", "look", "align", "sync"}
                          /\ (job[c] = None) = (at[c] # "job")
                          /\ (look[c] = None) = (at[c] # "look")
                          /\ look[c] # None => look[c] \in Look
                          /\ job[c] # None => job[c].next \in {"geo", "sync", "idle"}
    /\ edits \in 0..MaxEdits /\ failures \in 0..MaxFailures
    /\ installed \in [1..Len(Packs) -> Nat] /\ single \in BOOLEAN

\* Two locations never publish a node under the same name, however many of them
\* were measured to lie in one country: a rebuild stores nodes by name, so one
\* location would silently overwrite the other's (sources.py, nodes_for_source:
\* "must not publish the same node names").
NamesDistinct == \A m, n \in catalog : m.name = n.name => m.id = n.id

\* A pack is installed whole or not at all: a missing Host/SNI refuses it before
\* the first location is saved (packs.py, install).  Counted while nobody is in
\* the middle of a change and nobody deleted single locations.
PackWhole ==
    (~single /\ \A c \in Callers : job[c] = None) =>
        \A p \in 1..Len(Packs) :
           Cardinality(Members(p)) = installed[p] * Len(Packs[p])

\* The alignment that follows a measurement of several seconds never overwrites the
\* country of a location that is pinned by then (main.py, edge_save_source).  Said of
\* histories in which nobody deleted single locations: the thread that deletes one
\* stores a whole list it read earlier, and with that list the labels of that time.
AligningNow(c) == job[c] # None /\ job[c].items # None /\ Head(job[c].todo) = Align
AlignKeepsPins ==
    [][\A c \in Callers : (AligningNow(c) /\ sources' # sources /\ ~single) =>
          \A id \in Configured \cap DOMAIN sources' :
             ~sources[id].autolabel => sources'[id].location = sources[id].location]_vars

\* What the databases really answer decides the label of every enabled location that
\* is not pinned, and the nodes carry the same country, once the admin rests: failed
\* lookups, passes cut short, measurements that overwrite each other's answers and
\* an empty pool delay it only (geo.py, resolve; main.py, _edge_geo).
Truth(as) ==
    LET votes(c) == Cardinality({a \in as : CountryOf[a] = c})
        winners == {c \in Countries : votes(c) > 0 /\ \A d \in Countries \ {c} : votes(d) < votes(c)}
    IN IF winners = {} THEN None ELSE CHOOSE c \in winners : TRUE
Agrees(id) ==
    LET s == sources[id] IN
    /\ \E n \in catalog : n.id = id
    /\ \A n \in catalog : n.id = id /\ s.autolabel => n.country = s.location
    /\ (lookups /\ s.kind = "ip" /\ s.autolabel /\ Truth(s.own) # None) => s.location = Truth(s.own)
FlagsAgree == <>[](\A id \in EnabledIn(sources) : Agrees(id))

=============================================================================
