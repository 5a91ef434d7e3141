---------------------------- MODULE Subscription ----------------------------
(***************************************************************************)
(* GET /sub/{token}: what a user is handed (app/subscriptions/generator.py *)
(* and transports.py, scope.py, obfuscation.py, subscription() and         *)
(* _portal_data() of app/main.py).  The handler is a plain function: it    *)
(* runs in a pool thread and reads users, nodes and settings in statements *)
(* of their own, while admins, pings and supervisors write them.           *)
(*                                                                         *)
(* Data abstraction.  One profile stands for all that no decision tells    *)
(* apart (Table).  A link is its node, its profile and the address it      *)
(* dials; an address is the host and the listener its port leads to.       *)
(* A node's name is a number, in the order of the names.                   *)
(***************************************************************************)
EXTENDS Integers, FiniteSets, SequencesExt

CONSTANTS
    Nodes,          \* rows of the node catalog, numbered by name
    Origin,         \* the row of origin_node_name(), of kind railway
    Location,       \* country of each node ("" for the origin)
    Countries,      \* the countries a scope may name
    Caps,           \* values of max_configs (0: no cap)
    Pings,          \* measured latencies (negative: the probe failed)
    Requests,       \* the requests: ?target=, ?node= and ?scope=
    Users,          \* users rows to start from
    Catalogs,       \* nodes tables to start from
    Null,           \* Python's None, SQL's NULL
    MaxChanges      \* bound: changes of anything a request reads

ASSUME OriginIsANode == Origin \in Nodes /\ Nodes \subseteq Nat /\ IsFiniteSet(Nodes)
ASSUME OriginHasNoCountry == Location \in [Nodes -> Countries \cup {""}] /\ Location[Origin] = ""
ASSUME CapsAreNat == Caps \subseteq Nat /\ MaxChanges \in Nat
ASSUME PingsAreInt == Pings \subseteq Int /\ Null \notin Int

\* The catalog of profiles, in the order of available_profiles().
Table == <<
    [id |-> "vless-ws",      protocol |-> "vless",  group |-> "edge"],
    [id |-> "trojan-ws",     protocol |-> "trojan", group |-> "edge"],
    [id |-> "hysteria2",     protocol |-> "hy2",    group |-> "hy2"],
    [id |-> "vless-reality", protocol |-> "vless",  group |-> "direct"],
    [id |-> "trojan-grpc",   protocol |-> "trojan", group |-> "direct"],
    [id |-> "anytls",        protocol |-> "anytls", group |-> "core"] >>

Profiles == ToSet(Table)
Ids == {p.id : p \in Profiles}
PROTOCOLS == {"vless", "trojan", "anytls"}
EdgeIds == {p.id : p \in {q \in Profiles : q.group = "edge"}}
DirectIds == {p.id : p \in {q \in Profiles : q.group = "direct"}}
Forwardable == DirectIds \cup {"anytls"}   \* the raw TCP listeners

VARIABLES
    user,       \* the users row: is_active, protocol, node_scope, max_configs
    nodes,      \* the nodes table: enabled, latency_ms
    platform,   \* "vps" owns its ports, "railway" forwards one by one
    forwarded,  \* listeners with a Railway TCP proxy in the stored mapping
    switch,     \* settings: Hysteria2 saved, advanced transport on, AnyTLS on
    served,     \* transports._served_profiles, set by the Xray supervisor
    published,  \* cores._published, set by the second engines' supervisor
    fetch,      \* the request being answered
    seen,       \* history: profiles served at some moment of the request
    quiet,      \* history: nothing changed since the request began
    changes

settingsVars == <<user, nodes, platform, forwarded, switch, served, published>>
subscriptionVars == <<settingsVars, fetch, seen, quiet, changes>>

Scopes == [mode : {"all", "multi", "origin"}, countries : {{}}]
          \cup [mode : {"country"}, countries : SUBSET Countries \ {{}}]
User == [active : BOOLEAN, protocols : SUBSET PROTOCOLS, scope : Scopes, cap : Caps]
Row == [enabled : BOOLEAN, latency : Pings \cup {Null}]
Targets == Ids \cup PROTOCOLS \cup {"auto", "singbox", "clash", "xray"}
Request == [target : Targets, node : Nodes \cup {Null}, scope : Scopes \cup {Null}]
Switches == {"hysteria", "obfuscation", "anytls"}

ASSUME RowsAreTyped == Users \subseteq User /\ Catalogs \subseteq [Nodes -> Row]
ASSUME RequestsAreTyped == Requests \subseteq Request

(***************************************************************************)
(* ORDER BY and the list comprehension, by what they return: rank decides  *)
(* the place, so that both are one idea and can be reasoned about.         *)
(***************************************************************************)
\* The elements of S, each in the place that the number of those before it gives.
Ranked(S, before) ==
    [i \in 1..Cardinality(S) |-> CHOOSE n \in S : Cardinality(before[n]) = i - 1]

\* What belongs to T, in the order of s.
Only(T, s) ==
    LET places == {i \in DOMAIN s : s[i] \in T}
        at == Ranked(places, [i \in places |-> {j \in places : j < i}])
    IN [k \in DOMAIN at |-> s[at[k]]]

(***************************************************************************)
(* scope.py and active_nodes().                                            *)
(***************************************************************************)
Matches(n, scope) ==
    \/ scope.mode = "all"
    \/ scope.mode = "multi" /\ n # Origin
    \/ scope.mode = "origin" /\ n = Origin
    \/ scope.mode = "country" /\ Location[n] \in scope.countries

Failed(n) == nodes[n].latency # Null /\ nodes[n].latency < 0

\* The ORDER BY of active_nodes(): measured by ping, unmeasured, failed; the origin
\* first among equals, then by name.
SortKey(n) == << IF nodes[n].latency = Null THEN 1 ELSE IF Failed(n) THEN 2 ELSE 0,
                 IF nodes[n].latency = Null THEN 0 ELSE nodes[n].latency,
                 IF n = Origin THEN 0 ELSE 1,
                 n >>
Sooner(m, n) ==
    LET mine == SortKey(m)
        other == SortKey(n)
    IN \E i \in 1..4 : mine[i] < other[i] /\ \A j \in 1..(i - 1) : mine[j] = other[j]

Slice(scope) == {n \in Nodes : nodes[n].enabled /\ Matches(n, scope)}
ActiveNodes(scope) ==
    LET rows == Ranked(Slice(scope), [n \in Slice(scope) |-> {m \in Slice(scope) : Sooner(m, n)}])
        keep == Only({n \in Nodes : ~Failed(n) \/ n = Origin}, rows)
    IN IF keep # <<>> THEN keep ELSE SubSeq(rows, 1, IF rows = <<>> THEN 0 ELSE 1)

(***************************************************************************)
(* transports.py, obfuscation.py and cores/service.py: what is available.  *)
(***************************************************************************)
Proxy(listener) == [host |-> listener, port |-> listener]
Own(listener) == [host |-> "self", port |-> listener]

\* direct_endpoint(): the proxy made for Reality, or the machine's own address.
DirectEndpoint ==
    IF "vless-reality" \in forwarded THEN Proxy("vless-reality")
    ELSE IF platform = "vps" THEN Own("vless-reality") ELSE Null

\* obfuscation.public_endpoint(): an advanced transport has a port of its own.
PublicEndpoint(listener) ==
    IF DirectEndpoint = Null THEN Null
    ELSE IF listener \in forwarded THEN Proxy(listener)
    ELSE IF platform = "railway" THEN Null ELSE Own(listener)

\* cores.host() and cores.reachable().
CoreHost == IF DirectEndpoint = Null THEN "" ELSE DirectEndpoint.host
Reachable(listener) == platform = "vps" \/ listener \in forwarded

\* Mutant: what the engines really serve is not consulted.
AvailableUnserved(p) ==
    \/ p.group = "edge"
    \/ p.group = "hy2" /\ "hysteria" \in switch
    \/ p.id = "vless-reality" /\ DirectEndpoint # Null
    \/ p.id = "trojan-grpc" /\ "obfuscation" \in switch /\ PublicEndpoint(p.id) # Null
    \/ p.group = "core" /\ "anytls" \in switch /\ Reachable(p.id)

\* The conditions of available_profiles() and cores.is_published().
Available(p) ==
    /\ AvailableUnserved(p)
    /\ p.group = "core" => published = Null \/ p.id \in published
    /\ served = Null \/ p.id \in served \/ p.group \in {"hy2", "core"}

\* parse_protocols(): an empty or one-token list means all of them.
UserProtocols(u) == IF Cardinality(u.protocols) < 2 THEN PROTOCOLS ELSE u.protocols

\* available_profiles(protocols): the shared Hysteria2 node is exempt from the filter.
AvailableProfiles(protocols) ==
    Only({p \in Profiles : Available(p) /\ (p.protocol \in protocols \/ p.group = "hy2")}, Table)

\* normalize_target() and profiles_for(); Null is their ValueError.
ProfilesFor(target, protocols) ==
    IF target \in Ids
    THEN LET exact == CHOOSE p \in Profiles : p.id = target
         IN IF Available(exact) /\ exact.protocol \in protocols THEN <<exact>> ELSE Null
    ELSE IF target \in PROTOCOLS
    THEN IF target \in protocols
         THEN Only({p \in Profiles : p.protocol = target}, AvailableProfiles(protocols)) ELSE Null
    ELSE AvailableProfiles(protocols)

\* extra_groups: what is not tied to the list of nodes.
Extras == {"hy2", "core"}
OfGroup(groups) == {p \in Profiles : p.group \in groups}
PerNode == Profiles \ OfGroup(Extras)

Product(ns, ps) ==
    [i \in 1..(Len(ns) * Len(ps)) |->
        [node |-> ns[((i - 1) \div Len(ps)) + 1], profile |-> ps[((i - 1) % Len(ps)) + 1]]]

\* Mutants: the extras are on every node as well; the cap is taken before the extras; the
\* hosted node ignores the scope.
EntryPairsEverywhere(u, ns, ps, extras) ==
    LET pairs == Product(ns, ps)
        all == pairs \o (IF extras THEN Product(<<Origin>>, Only(OfGroup({"hy2"}), ps))
                         ELSE <<>>)
    IN IF u.cap = 0 \/ u.cap > Len(all) THEN all ELSE SubSeq(all, 1, u.cap)
EntryPairsCappedEarly(u, ns, ps, extras) ==
    LET pairs == Product(ns, Only(PerNode, ps))
        shared == Product(<<Origin>>, Only(OfGroup({"hy2"}), ps))
        hosted == IF Matches(Origin, u.scope)
                  THEN Product(<<Origin>>, Only(OfGroup({"core"}), ps)) ELSE <<>>
    IN (IF u.cap = 0 \/ u.cap > Len(pairs) THEN pairs ELSE SubSeq(pairs, 1, u.cap))
       \o (IF extras THEN shared \o hosted ELSE <<>>)
EntryPairsUnscoped(u, ns, ps, extras) ==
    LET pairs == Product(ns, Only(PerNode, ps))
        shared == Product(<<Origin>>, Only(OfGroup(Extras), ps))
        all == pairs \o (IF extras THEN shared ELSE <<>>)
    IN IF u.cap = 0 \/ u.cap > Len(all) THEN all ELSE SubSeq(all, 1, u.cap)

\* entry_pairs(): node-major, then the shared endpoint, then the hosted protocols on
\* the origin when the user's scope admits it; the cap is taken last.
EntryPairs(u, ns, ps, extras) ==
    LET pairs == Product(ns, Only(PerNode, ps))
        shared == Product(<<Origin>>, Only(OfGroup({"hy2"}), ps))
        hosted == IF Matches(Origin, u.scope)
                  THEN Product(<<Origin>>, Only(OfGroup({"core"}), ps)) ELSE <<>>
        all == pairs \o (IF extras THEN shared \o hosted ELSE <<>>)
    IN IF u.cap = 0 \/ u.cap > Len(all) THEN all ELSE SubSeq(all, 1, u.cap)

\* node_address(): where the client is sent.  The endpoint of an advanced transport was
\* resolved with the list of profiles, the others are read entry by entry.  core_node()
\* has put the engines' host, there or not, in the place of the node's.
Edge == [host |-> "edge", port |-> "edge"]
NodeAddress(p) ==
    LET endpoint == IF p.id = "trojan-grpc" THEN fetch.endpoint ELSE DirectEndpoint IN
    CASE p.group = "core" -> [host |-> CoreHost, port |-> p.id]
      [] p.group = "direct" -> IF endpoint = Null THEN Edge ELSE endpoint
      [] p.group = "hy2" -> IF "hysteria" \in switch THEN Proxy("hy2") ELSE [Edge EXCEPT !.host = ""]
      [] p.group = "edge" -> Edge

(***************************************************************************)
(* Types and the initial state: a panel started on any stored settings.    *)
(***************************************************************************)
Addresses == [host : {"self"} \cup Forwardable, port : Forwardable]
Link == [node : Nodes, profile : Profiles,
         host : {"self", "", "edge", "hy2"} \cup Forwardable,
         port : {"edge", "hy2"} \cup Forwardable]
Pair == [node : Nodes, profile : Profiles]
Fetch == [pc : {"idle", "nodes", "profiles", "pairs", "links"},
          target : Targets, node : Nodes \cup {Null}, scope : Scopes \cup {Null}, user : User,
          nodes : Seq(Nodes), profiles : Seq(Profiles), endpoint : Addresses \cup {Null},
          pairs : Seq(Pair), status : {0, 200, 400, 403, 404}, links : Seq(Link)]

TypeOK ==
    /\ user \in User
    /\ nodes \in [Nodes -> Row]
    /\ platform \in {"vps", "railway"}
    /\ forwarded \subseteq Forwardable
    /\ switch \subseteq Switches
    /\ served \in (SUBSET Ids) \cup {Null}
    /\ published \in (SUBSET {"anytls"}) \cup {Null}
    /\ fetch \in Fetch
    /\ Len(fetch.links) <= Cardinality(Nodes) * Cardinality(Profiles)
    /\ seen \subseteq Ids
    /\ quiet \in BOOLEAN
    /\ changes \in 0..MaxChanges

Resting == [pc |-> "idle", target |-> "auto", node |-> Null, scope |-> Null,
         user |-> user, nodes |-> <<>>, profiles |-> <<>>, endpoint |-> Null,
         pairs |-> <<>>, status |-> 0, links |-> <<>>]

SubscriptionInit ==
    /\ user \in Users
    /\ nodes \in Catalogs
    /\ platform \in {"vps", "railway"}
    /\ forwarded \in IF platform = "railway" THEN SUBSET Forwardable ELSE {{}}
    /\ switch \in SUBSET Switches
    /\ served = Null /\ published = Null
    /\ fetch = Resting
    /\ seen = {} /\ quiet = TRUE /\ changes = 0

(***************************************************************************)
(* What admins and supervisors change meanwhile.                           *)
(***************************************************************************)
\* What the engines answer for and the admin left switched on.
Standing ==
    (IF served = Null THEN EdgeIds \cup DirectIds ELSE served)
    \cup (IF "hysteria" \in switch THEN {"hysteria2"} ELSE {})
    \cup ((IF published = Null THEN {"anytls"} ELSE published) \cap switch)

Change ==
    /\ changes < MaxChanges
    /\ changes' = changes + 1
    /\ quiet' = FALSE
    /\ UNCHANGED <<platform, fetch>>

Record == seen' = seen \cup Standing'

\* PUT /api/users, one column or one key of the metadata at a time.
EditUser ==
    /\ Change
    /\ \/ user' = [user EXCEPT !.active = ~@]
       \/ \E scope \in Scopes : user' = [user EXCEPT !.scope = scope]
       \/ \E cap \in Caps : user' = [user EXCEPT !.cap = cap]
       \/ \E wanted \in SUBSET PROTOCOLS : user' = [user EXCEPT !.protocols = wanted]
    /\ UNCHANGED <<nodes, forwarded, switch, served, published>>
    /\ Record

\* The ping loop and the catalog's switches.
EditNode ==
    /\ Change
    /\ \E n \in Nodes : \/ \E latency \in Pings : nodes' = [nodes EXCEPT ![n].latency = latency]
                        \/ nodes' = [nodes EXCEPT ![n].enabled = ~@]
    /\ UNCHANGED <<user, forwarded, switch, served, published>>
    /\ Record

\* The cards of Hysteria2, of the advanced transports and of the second engines.
Toggle ==
    /\ Change
    /\ \E s \in Switches : switch' = (switch \cup {s}) \ (switch \cap {s})
    /\ UNCHANGED <<user, nodes, forwarded, served, published>>
    /\ Record

\* ports.merge(): proxies are learnt and never forgotten.
LearnPort ==
    /\ Change
    /\ platform = "railway"
    /\ \E listener \in Forwardable : forwarded' = forwarded \cup {listener}
    /\ UNCHANGED <<user, nodes, switch, served, published>>
    /\ Record

\* transports.set_served(): the inbounds of the accepted rung, or none at all.
Serve ==
    /\ Change
    /\ served' \in {EdgeIds \cup direct : direct \in SUBSET DirectIds} \cup {{}}
    /\ UNCHANGED <<user, nodes, forwarded, switch, published>>
    /\ Record

\* cores.service._refresh(): the hosted protocols that listen.
Publish ==
    /\ Change
    /\ published' \in SUBSET ({"anytls"} \cap switch)
    /\ UNCHANGED <<user, nodes, forwarded, switch, served>>
    /\ Record

(***************************************************************************)
(* subscription(): one step per group of statements that decide together.  *)
(***************************************************************************)
Working == UNCHANGED <<settingsVars, quiet, changes>>
Answer(status, links) ==
    [pc |-> "idle", target |-> fetch.target, node |-> fetch.node, scope |-> fetch.scope,
     user |-> fetch.user, nodes |-> <<>>, profiles |-> <<>>, endpoint |-> Null,
     pairs |-> <<>>, status |-> status, links |-> links]

\* get_by_token() and allowed() on the row it returned.
Begin(request) ==
    /\ fetch.pc = "idle"
    /\ fetch' = [Resting EXCEPT !.pc = IF user.active THEN "nodes" ELSE "idle",
                             !.status = IF user.active THEN 0 ELSE 403,
                             !.target = request.target, !.node = request.node,
                             !.scope = request.scope]
    /\ seen' = Standing
    /\ quiet' = TRUE
    /\ UNCHANGED <<settingsVars, changes>>

Wanted == IF fetch.scope = Null THEN fetch.user.scope ELSE fetch.scope

\* _sub_nodes(): the slice of the catalog, then ?node=.
ReadNodes ==
    /\ fetch.pc = "nodes"
    /\ LET found == Only({n \in Nodes : fetch.node \in {Null, n}}, ActiveNodes(Wanted))
       IN fetch' = IF found = <<>> THEN Answer(404, <<>>)
                   ELSE [fetch EXCEPT !.pc = "profiles", !.nodes = found]
    /\ Working /\ UNCHANGED seen

\* render(): what the target asks for and this deployment has.
ReadProfiles ==
    /\ fetch.pc = "profiles"
    /\ LET found == ProfilesFor(fetch.target, UserProtocols(fetch.user))
       IN fetch' = IF found = Null \/ (found = <<>> /\ fetch.target \notin {"xray", "singbox"})
                   THEN Answer(400, <<>>)
                   ELSE [fetch EXCEPT !.pc = "pairs", !.profiles = found,
                                      !.endpoint = PublicEndpoint("trojan-grpc")]
    /\ Working /\ UNCHANGED seen

\* entry_pairs(), and the extras Xray cannot express.
Compose ==
    /\ fetch.pc = "pairs"
    /\ LET pairs == EntryPairs(fetch.user, fetch.nodes, fetch.profiles, fetch.node = Null)
           kept == IF fetch.target = "xray"
                   THEN Only({e \in Pair : e.profile \in PerNode}, pairs) ELSE pairs
       IN fetch' = IF kept = <<>> /\ fetch.target = "clash" THEN Answer(400, <<>>)
                   ELSE [fetch EXCEPT !.pc = "links", !.pairs = kept]
    /\ Working /\ UNCHANGED seen

\* The share links: each entry reads its address; a line link of a Hysteria2 endpoint
\* that was switched off meanwhile raises.
Render ==
    /\ fetch.pc = "links"
    /\ LET gone == /\ "hysteria" \notin switch
                   /\ fetch.target \notin {"xray", "singbox", "clash"}
                   /\ \E e \in ToSet(fetch.pairs) : e.profile.group = "hy2"
           links == [i \in DOMAIN fetch.pairs |->
                        LET to == NodeAddress(fetch.pairs[i].profile)
                        IN [node |-> fetch.pairs[i].node, profile |-> fetch.pairs[i].profile,
                            host |-> to.host, port |-> to.port]]
       IN fetch' = IF gone THEN Answer(400, <<>>) ELSE Answer(200, links)
    /\ Working /\ UNCHANGED seen

SubscriptionNext ==
    \/ EditUser \/ EditNode \/ Toggle \/ LearnPort \/ Serve \/ Publish
    \/ \E request \in Requests : Begin(request)
    \/ ReadNodes \/ ReadProfiles \/ Compose \/ Render

SubscriptionSpec == SubscriptionInit /\ [][SubscriptionNext]_subscriptionVars

(***************************************************************************)
(* What a subscription promises.                                           *)
(***************************************************************************)
Answered == fetch.pc = "idle" /\ fetch.status = 200
Delivered == ToSet(fetch.links)

\* The part of the requested slice that no failed probe rules out.
Publishable == {n \in Nodes : nodes[n].enabled /\ Matches(n, Wanted) /\ (n = Origin \/ ~Failed(n))}

\* "A link is never published for a listener that does not exist": whatever changes
\* while a request is answered, every entry was served at some moment of it.
OnlyPublished == Answered => \A l \in Delivered : l.profile.id \in seen

\* "Only my own server" and "only the US edge" hold for every entry: the node entries
\* follow the scope of the request, the hosted protocols the scope of the user.
ScopeHonoured ==
    Answered => \A l \in Delivered :
        /\ l.profile.group \in {"edge", "direct"} => Matches(l.node, Wanted)
        /\ l.profile.group = "core" => Matches(Origin, fetch.user.scope)

\* No later entry should come sooner, and a dead clean IP is there only when its
\* slice of the catalog has nothing else.
InOrder ==
    LET entries == {i \in DOMAIN fetch.links : fetch.links[i].profile \in PerNode}
    IN /\ \A i, j \in entries : i < j => ~Sooner(fetch.links[j].node, fetch.links[i].node)
       /\ \A i \in entries : Failed(fetch.links[i].node) /\ fetch.links[i].node # Origin
                            => Publishable = {}

\* What the whole of a subscription should contain, said without the pipeline.
Due ==
    LET mine == {p \in Profiles : Available(p) /\ p.protocol \in UserProtocols(fetch.user)}
    IN {e \in Publishable \X mine : e[2].group \in {"edge", "direct"}}
       \cup {<<Origin, p>> : p \in {q \in mine : q.group = "core" /\ Matches(Origin, fetch.user.scope)}}
       \cup {<<Origin, p>> : p \in {q \in Profiles : q.group = "hy2" /\ Available(q)}}

UpToCap ==
    LET given == {<<l.node, l.profile>> : l \in Delivered}
        size == Cardinality(Due)
    IN /\ given \subseteq Due
       /\ Cardinality(given) = Len(fetch.links)
       /\ Len(fetch.links) = IF fetch.user.cap = 0 \/ size < fetch.user.cap THEN size ELSE fetch.user.cap

\* "Measured nodes come first, fastest ping first; failed Cloudflare IPs are dropped",
\* and the smart link carries every protocol on every node, each exactly once,
\* shortened by a cap to exactly that many entries, for all formats alike: the five
\* steps between the catalog and the links agree on it, in every format.
FastestFirstAndWhole ==
    Answered /\ quiet =>
        /\ InOrder
        /\ fetch.target = "auto" /\ fetch.node = Null /\ Publishable # {} => UpToCap
=============================================================================
