---------------------------- MODULE RequestProofs ----------------------------
(***************************************************************************)
(* Proofs about what a caller of the panel meets: ClientAddress, Limiter,  *)
(* Account and Subscription.  For every network, every route through it    *)
(* and every header a caller writes, the address the limiter keys on is    *)
(* the nearest host this deployment does not trust; the memory of a        *)
(* limiter stays within its cap; calls that overlap their check add no     *)
(* more than one try each to a caller's limit; signing out everywhere ends *)
(* exactly the sessions there were; and for every catalog, scope and cap a *)
(* subscription holds nothing that was not served, nothing outside its     *)
(* scope and, undisturbed, all that is due in its order.                   *)
(***************************************************************************)
EXTENDS Limiter, Subscription, Integers, SequenceTheorems, FiniteSetTheorems, WellFoundedInduction, TLAPS

(***************************************************************************)
(* The last of a set of positions.                                         *)
(***************************************************************************)

\* LastOf(S) is defined: a set of positions has a greatest.
LEMMA HasLast ==
    ASSUME NEW n \in Nat, NEW S \in SUBSET (1..n), S # {}
    PROVE  LastOf(S) \in S /\ \A j \in S : j <= LastOf(S)
  <1> DEFINE Less == {ss \in Nat \X Nat : ss[1] < ss[2]}
             Left == {k \in Nat : k <= n /\ n - k \in S}
  <1>1. IsWellFoundedOn(Less, Nat)
    BY NatLessThanWellFounded DEF OpToRel
  <1>2. Left \subseteq Nat /\ Left # {}
    <2>1. PICK i \in S : TRUE
      OBVIOUS
    <2>2. n - i \in Left
      BY <2>1
    <2>3. QED
      BY <2>2
  <1>3. PICK k \in Left : \A m \in Left : ~(<<m, k>> \in Less)
    <2> HIDE DEF Less, Left
    <2>1. QED
      BY <1>1, <1>2, WFMin
  <1>4. n - k \in S /\ \A j \in S : j <= n - k
    <2>1. SUFFICES ASSUME NEW j \in S, j > n - k PROVE FALSE
      OBVIOUS
    <2>2. n - j \in Left /\ <<n - j, k>> \in Less
      BY <2>1
    <2>3. QED
      BY <1>3, <2>2
  <1>5. QED
    BY <1>4 DEF LastOf

\* A position is the last when it is in the set and nothing after it is.
LEMMA IsLast ==
    ASSUME NEW n \in Nat, NEW S \in SUBSET (1..n), NEW i \in S, \A j \in S : j <= i
    PROVE  LastOf(S) = i
  <1>1. S # {} /\ \A j \in S : j \in Int
    OBVIOUS
  <1>2. LastOf(S) \in S /\ \A j \in S : j <= LastOf(S)
    BY <1>1, HasLast
  <1> DEFINE last == LastOf(S)
  <1>3. last \in Int /\ i \in Int /\ last <= i /\ i <= last
    BY <1>1, <1>2
  <1> HIDE DEF last
  <1>4. last = i
    BY <1>3
  <1>5. QED
    BY <1>4 DEF last

(***************************************************************************)
(* What the chain holds, and where it is cut.                              *)
(***************************************************************************)

\* A real route: one or more hosts, from a caller, through hosts that are none.
Route == {route \in Seq(Hosts) : route # <<>> /\ route[1] \in Callers}

\* The forwarded chain is what the caller wrote, then the route up to the peer.
LEMMA Chain ==
    ASSUME NEW route \in Route, NEW claim \in Seq(Hosts)
    PROVE  /\ claim \o Before(route) \in Seq(Hosts)
           /\ Len(claim \o Before(route)) = Len(claim) + Len(route) - 1
           /\ \A i \in 1..(Len(route) - 1) : (claim \o Before(route))[Len(claim) + i] = route[i]
  <1>1. Len(route) \in Nat /\ Len(route) >= 1 /\ \A i \in 1..Len(route) : route[i] \in Hosts
    BY DEF Route
  <1>2. /\ Before(route) \in Seq(Hosts) /\ Len(Before(route)) = Len(route) - 1
        /\ \A i \in 1..(Len(route) - 1) : Before(route)[i] = route[i]
    <2>1. \A i \in 1..(Len(route) - 1) : route[i] \in Hosts
      BY <1>1
    <2>2. Len(route) - 1 \in Int
      BY <1>1
    <2> DEFINE n == Len(route) - 1
    <2>3. n \in Int /\ 1 \in Int /\ \A i \in 1..n : route[i] \in Hosts
      BY <2>1, <2>2
    <2> HIDE DEF n
    <2>4. /\ SubSeq(route, 1, n) \in Seq(Hosts)
          /\ Len(SubSeq(route, 1, n)) = IF 1 <= n THEN n - 1 + 1 ELSE 0
          /\ \A i \in 1 .. n - 1 + 1 : SubSeq(route, 1, n)[i] = route[1 + i - 1]
      BY <2>3, SubSeqProperties
    <2>5. n - 1 + 1 = n /\ \A i \in 1..n : 1 + i - 1 = i
      BY <2>3
    <2>6. n >= 0 /\ n = Len(route) - 1
      BY <1>1 DEF n
    <2>7. Len(SubSeq(route, 1, n)) = n /\ \A i \in 1..n : SubSeq(route, 1, n)[i] = route[i]
      BY <2>3, <2>4, <2>5, <2>6
    <2>8. QED
      BY <2>4, <2>7 DEF n, Before
  <1>3. /\ claim \o Before(route) \in Seq(Hosts)
        /\ Len(claim \o Before(route)) = Len(claim) + Len(Before(route))
        /\ \A i \in 1 .. Len(claim) + Len(Before(route)) :
              (claim \o Before(route))[i] = IF i <= Len(claim) THEN claim[i] ELSE Before(route)[i - Len(claim)]
    BY <1>2, ConcatProperties
  <1>4. QED
    BY <1>1, <1>2, <1>3, SMTT(20)

\* Behind a trusted peer, the first hop from the right that is not ours is the last
\* host of the route that is not ours.
LEMMA SameHop ==
    ASSUME NEW route \in Route, NEW claim \in Seq(Hosts), NEW networks,
           networks \cap Callers = {}, route[Len(route)] \in networks
    PROVE  LET chain == claim \o Before(route)
           IN  /\ Outside(chain, networks) # {}
               /\ chain[LastOf(Outside(chain, networks))] = route[LastOf(Outside(route, networks))]
  <1> DEFINE chain == claim \o Before(route)
             k == Len(claim)
  <1>1. Len(route) \in Nat /\ k \in Nat /\ 1 \in Outside(route, networks)
    BY DEF Route, Outside
  <1>2. chain \in Seq(Hosts) /\ Len(chain) = k + Len(route) - 1
        /\ \A i \in 1..(Len(route) - 1) : chain[k + i] = route[i]
    BY Chain
  <1> HIDE DEF chain
  <1>3. Outside(route, networks) \in SUBSET (1..(Len(route) - 1)) /\ Outside(chain, networks) \in SUBSET (1..Len(chain))
    BY <1>1, <1>2 DEF Outside, Route
  <1>4. PICK last \in Outside(route, networks) :
           last = LastOf(Outside(route, networks)) /\ \A j \in Outside(route, networks) : j <= last
    <2>1. Len(route) - 1 \in Nat
      BY <1>1, <1>3
    <2>2. QED
      BY <1>1, <1>3, <2>1, HasLast
  <1>5. k + last \in Outside(chain, networks)
    <2>1. last \in 1..(Len(route) - 1) /\ route[last] \notin networks
      BY <1>3, <1>4 DEF Outside
    <2>2. chain[k + last] = route[last] /\ k + last \in 1..Len(chain)
      BY <1>1, <1>2, <2>1
    <2>3. DOMAIN chain = 1..Len(chain)
      BY <1>2
    <2>4. QED
      BY <2>1, <2>2, <2>3 DEF Outside
  <1>6. \A j \in Outside(chain, networks) : j <= k + last
    <2>1. SUFFICES ASSUME NEW j \in Outside(chain, networks), j > k + last PROVE FALSE
      BY <1>1, <1>3, <1>4
    <2>2. j - k \in 1..(Len(route) - 1) /\ chain[k + (j - k)] = route[j - k]
      <3>1. j \in 1..Len(chain) /\ last \in 1..(Len(route) - 1)
        BY <1>3, <1>4
      <3>2. j - k \in 1..(Len(route) - 1)
        BY <1>1, <1>2, <2>1, <3>1
      <3>3. QED
        BY <1>2, <3>2
    <2>3. j - k \in Outside(route, networks)
      <3>1. j \in 1..Len(chain) /\ k + (j - k) = j /\ chain[j] \notin networks
        BY <1>1, <1>3 DEF Outside
      <3>2. DOMAIN route = 1..Len(route) /\ j - k \in 1..Len(route)
        BY <1>1, <2>2 DEF Route
      <3>3. QED
        BY <2>2, <3>1, <3>2 DEF Outside
    <2>4. QED
      BY <1>1, <1>3, <1>4, <2>1, <2>3
  <1>7. LastOf(Outside(chain, networks)) = k + last
    <2>1. Len(chain) \in Nat
      BY <1>2
    <2>2. QED
      BY <1>3, <1>5, <1>6, <2>1, IsLast
  <1>8. QED
    BY <1>2, <1>3, <1>4, <1>5, <1>7 DEF chain

(***************************************************************************)
(* The address.                                                            *)
(***************************************************************************)

\* Whose request is this (clientip.resolve): for every route, whatever the caller
\* wrote into X-Forwarded-For and CF-Connecting-IP and whichever ranges the operator
\* added, the answer is the nearest host the deployment does not trust, and depends
\* on neither header.
THEOREM ResolveIsNearest ==
    ASSUME NEW route \in Route, NEW claim \in Seq(Hosts), NEW cf,
           NEW added \in SUBSET (Relays \cup Edges), NEW believed \in BOOLEAN
    PROVE  resolve(Arrives(route, claim, cf), added, believed) = Nearest(route, added, believed)
  <1> DEFINE request == Arrives(route, claim, cf)
             networks == trusted_networks(added)
             peer == route[Len(route)]
  <1>1. Len(route) \in Nat /\ Len(route) >= 1 /\ peer \in Hosts
    BY DEF Route
  <1>2. request.peer = peer /\ request.forwarded = claim \o Before(route)
        /\ request.cf = IF peer \in Edges /\ Len(route) > 1 THEN route[Len(route) - 1] ELSE cf
    BY DEF Arrives
  <1>3. networks \cap Callers = {}
    BY HostsAreApart DEF trusted_networks
  <1> HIDE DEF request, networks
  <1>4. CASE ~believed
    BY <1>2, <1>4 DEF resolve, Nearest, networks, request
  <1>5. CASE believed /\ peer \in Edges
    <2>1. Len(route) > 1 /\ route[Len(route) - 1] \in Hosts
      <3>1. Len(route) # 1
        BY <1>5, HostsAreApart DEF Route
      <3>2. Len(route) > 1 /\ Len(route) - 1 \in 1..Len(route)
        <4> DEFINE n == Len(route)
        <4>1. n \in Nat /\ n >= 1 /\ n # 1
          BY <1>1, <3>1
        <4> HIDE DEF n
        <4>2. n > 1 /\ n - 1 \in 1..n
          BY <4>1
        <4>3. QED
          BY <4>2 DEF n
      <3>3. route \in Seq(Hosts)
        BY DEF Route
      <3>4. QED
        BY <3>2, <3>3
    <2>2. request.peer \in Edges /\ request.cf = route[Len(route) - 1] /\ request.cf # None
      BY <1>2, <1>5, <2>1, HostsAreApart
    <2>3. resolve(request, added, believed) = request.cf
      BY <1>5, <2>2 DEF resolve
    <2>4. Nearest(route, added, believed) = route[Len(route) - 1]
      BY <1>5, <2>1 DEF Nearest
    <2>5. QED
      BY <2>2, <2>3, <2>4 DEF request
  <1>6. CASE believed /\ peer \notin Edges
    <2>1. Nearest(route, added, believed) = route[LastOf(Outside(route, networks))]
      BY <1>6 DEF Nearest, networks
    <2>2. CASE peer \in networks
      <3>1. /\ Outside(request.forwarded, networks) # {}
            /\ request.forwarded[LastOf(Outside(request.forwarded, networks))]
                 = route[LastOf(Outside(route, networks))]
        BY <1>2, <1>3, <2>2, SameHop
      <3>2. resolve(request, added, believed) = request.forwarded[LastOf(Outside(request.forwarded, networks))]
        <4>1. request.forwarded # <<>>
          BY <3>1 DEF Outside
        <4>2. request.peer \in networks /\ request.peer \notin Edges /\ believed
          BY <1>2, <1>6, <2>2
        <4>3. QED
          BY <3>1, <4>1, <4>2 DEF resolve, networks
      <3>3. QED
        BY <2>1, <3>1, <3>2 DEF request
    <2>3. CASE peer \notin networks
      <3>1. resolve(request, added, believed) = peer
        BY <1>2, <1>6, <2>3 DEF resolve, networks
      <3>2. Outside(route, networks) \in SUBSET (1..Len(route)) /\ Len(route) \in Outside(route, networks)
        BY <1>1, <2>3 DEF Outside, Route
      <3>3. LastOf(Outside(route, networks)) = Len(route)
        <4>1. \A j \in Outside(route, networks) : j <= Len(route)
          BY <1>1, <3>2
        <4>2. QED
          BY <1>1, <3>2, <4>1, IsLast
      <3>4. QED
        BY <2>1, <3>1, <3>3 DEF request
    <2>4. QED
      BY <2>2, <2>3
  <1>7. QED
    BY <1>4, <1>5, <1>6 DEF request

(***************************************************************************)
(* The limiter.                                                            *)
(***************************************************************************)

\* What the handlers hold, as far as the address goes.
Held == [from : Callers \cup {None}, via : Routes \cup {<<>>},
         key : Hosts \cup {None}, near : Hosts \cup {None}, fresh : BOOLEAN]

\* The rule is a rule, and a call is keyed on the nearest host.
IInv ==
    /\ trust \in BOOLEAN /\ extra \in SUBSET (Relays \cup Edges)
    /\ calls \in [Handlers -> Held]
    /\ \A h \in Handlers : calls[h].key = calls[h].near

\* A caller and the hosts after it are a real route.
LEMMA RouteOf ==
    ASSUME NEW from \in Callers, NEW via \in Routes
    PROVE  <<from>> \o via \in Route
  <1>1. via \in Seq(Hosts) /\ from \in Hosts
    BY RoutesStayOutside DEF Hosts
  <1>2. /\ <<from>> \o via \in Seq(Hosts)
        /\ Len(<<from>> \o via) = 1 + Len(via)
        /\ (<<from>> \o via)[1] = from
    BY <1>1
  <1> DEFINE route == <<from>> \o via
  <1>3. route \in Seq(Hosts) /\ Len(route) = 1 + Len(via) /\ route[1] = from
    BY <1>2
  <1> HIDE DEF route
  <1>4. Len(via) \in Nat
    BY <1>1
  <1>5. Len(route) # 0
    BY <1>3, <1>4
  <1>6. route # <<>>
    BY <1>5
  <1>7. QED
    BY <1>3, <1>6 DEF Route, route

\* The nearest host is one.
LEMMA NearestIsHost ==
    ASSUME NEW route \in Route, NEW added \in SUBSET (Relays \cup Edges), NEW believed \in BOOLEAN
    PROVE  Nearest(route, added, believed) \in Hosts
  <1> DEFINE outside == Outside(route, trusted_networks(added))
  <1>1. route \in Seq(Hosts) /\ Len(route) \in Nat /\ Len(route) >= 1 /\ route[Len(route)] \in Hosts
    BY DEF Route
  <1>2. 1 \in outside /\ outside \in SUBSET (1..Len(route))
    BY HostsAreApart DEF Route, Outside, trusted_networks
  <1> HIDE DEF outside
  <1>3. LastOf(outside) \in outside
    BY <1>1, <1>2, HasLast
  <1>4. route[LastOf(outside)] \in Hosts
    <2>1. LastOf(outside) \in 1..Len(route)
      BY <1>2, <1>3
    <2>2. QED
      BY <1>1, <2>1
  <1>5. Len(route) > 1 => route[Len(route) - 1] \in Hosts
    BY <1>1
  <1>6. QED
    BY <1>1, <1>4, <1>5 DEF Nearest, outside

\* What each step keeps.
LEMMA Keyed == IInv /\ [Next]_vars => IInv'
  <1> SUFFICES ASSUME IInv, [Next]_vars PROVE IInv'
    OBVIOUS
  <1> USE DEF IInv
  <1>1. Idle \in Held /\ Idle.key = Idle.near
    BY DEF Idle, Held
  <1>2. ASSUME NEW h \in Handlers, Free(h), UNCHANGED rule PROVE IInv'
    BY <1>1, <1>2 DEF Free, rule
  <1>3. ASSUME NEW h \in Handlers, Arrive(h) PROVE IInv'
    <2>1. PICK from \in Callers, via \in Routes, claim \in Claims :
            calls' = calls \/ calls' = [calls EXCEPT ![h] =
                [from |-> from, via |-> via,
                 key |-> resolve(Arrives(<<from>> \o via, claim, None), extra, trust),
                 near |-> Nearest(<<from>> \o via, extra, trust), fresh |-> TRUE]]
      BY <1>3 DEF Arrive
    <2> DEFINE route == <<from>> \o via
               key == resolve(Arrives(route, claim, None), extra, trust)
               near == Nearest(route, extra, trust)
               new == [from |-> from, via |-> via, key |-> key, near |-> near, fresh |-> TRUE]
    <2>2. key = near /\ near \in Hosts
      <3>1. route \in Route /\ claim \in Seq(Hosts)
        BY RouteOf, ClaimsAreChains
      <3> HIDE DEF route
      <3>2. QED
        BY <3>1, ResolveIsNearest, NearestIsHost
    <2>3. calls' = calls \/ calls' = [calls EXCEPT ![h] = new]
      BY <2>1
    <2> HIDE DEF key, near, route
    <2>4. new \in Held /\ new.key = new.near
      BY <2>2 DEF Held
    <2> HIDE DEF new
    <2>5. UNCHANGED rule
      BY <1>3 DEF Arrive
    <2>6. QED
      BY <2>3, <2>4, <2>5 DEF rule
  <1>4. ASSUME SaveClientIp PROVE IInv'
    <2>1. trust' \in BOOLEAN /\ extra' \in SUBSET (Relays \cup Edges)
          /\ calls' = [h \in Handlers |-> [calls[h] EXCEPT !.fresh = calls[h] = Idle]]
      BY <1>4 DEF SaveClientIp
    <2>2. ASSUME NEW h \in Handlers
          PROVE  calls'[h] \in Held /\ calls'[h].key = calls[h].key /\ calls'[h].near = calls[h].near
      <3> DEFINE call == calls[h]
                 fresh == calls[h] = Idle
      <3>1. call \in Held /\ fresh \in BOOLEAN
        OBVIOUS
      <3> HIDE DEF call, fresh
      <3>2. LET new == [call EXCEPT !.fresh = fresh]
            IN  new \in Held /\ new.key = call.key /\ new.near = call.near
        BY <3>1 DEF Held
      <3>3. QED
        BY <2>1, <3>2 DEF call, fresh
    <2>3. QED
      BY <2>1, <2>2
  <1>5. ASSUME Restart PROVE IInv'
    BY <1>1, <1>5 DEF Restart, rule
  <1>6. ASSUME UNCHANGED <<rule, calls>> PROVE IInv'
    BY <1>6 DEF rule
  <1>7. QED
    BY <1>2, <1>3, <1>4, <1>5, <1>6 DEF Next, vars, Counts, LoginAccepted, FeedbackUnknown, Tick

\* The key a handler counts under is the nearest host the deployment does not trust
\* (main.py, _client_ip), at every moment, for any number of handlers, whatever the
\* callers claim and however often the admin changes the rule meanwhile.
THEOREM KeyStaysNearest == Spec => []KeyIsNearest
  <1>1. Init => IInv
    BY DEF Init, IInv, Idle, Held
  <1>2. IInv => KeyIsNearest
    BY DEF IInv, KeyIsNearest
  <1>3. QED
    BY <1>1, <1>2, Keyed, PTL DEF Spec
-----------------------------------------------------------------------------
(***************************************************************************)
(* The list of a key: tries in the order of time, none later than n.       *)
(***************************************************************************)
Tries(times, n) ==
    /\ times \in Seq(Nat)
    /\ \A i, j \in 1..Len(times) : i <= j => times[i] <= times[j]
    /\ \A i \in 1..Len(times) : times[i] <= n

Gone(times, n) == {i \in 1..Len(times) : n - times[i] >= Window}

\* What _prune leaves of the list at moment n.
RecentAt(times, n) == SubSeq(times, Cardinality(Gone(times, n)) + 1, Len(times))

\* Pruning drops the first m tries: exactly those that left the window.
PrunedBy(times, n, m) ==
    /\ m \in 0..Len(times)
    /\ \A i \in 1..Len(times) : n - times[i] >= Window <=> i <= m
    /\ RecentAt(times, n) \in Seq(Nat)
    /\ Len(RecentAt(times, n)) = Len(times) - m
    /\ \A i \in 1..(Len(times) - m) : RecentAt(times, n)[i] = times[m + i]

\* The c newest tries are there, and none of them is older than t.
Covers(times, c, t) == c > 0 => c <= Len(times) /\ times[Len(times) - c + 1] >= t

\* Both limits allow at least one.
\* The bounds are at least one.
LEMMA Limits == /\ Limit \in Nat /\ Limit >= 1 /\ MaxKeys \in Nat /\ MaxKeys >= 1
                /\ Window \in Nat /\ Window >= 1
  BY LimitsAreNat

\* What is kept of a list of tries are those within the window.
LEMMA RecentIsRecentAt ==
    ASSUME NEW times, times \in Seq(Nat)
    PROVE  Recent(times) = RecentAt(times, now)
  <1>1. DOMAIN times = 1..Len(times)
    OBVIOUS
  <1>2. QED
    BY <1>1 DEF Recent, RecentAt, Gone

\* Those that left the window stand first.
LEMMA GoneFirst ==
    ASSUME NEW n \in Nat, NEW times, Tries(times, n)
    PROVE  /\ Cardinality(Gone(times, n)) \in 0..Len(times)
           /\ Gone(times, n) = 1..Cardinality(Gone(times, n))
  <1> DEFINE gone == Gone(times, n)
             len == Len(times)
  <1>1. len \in Nat /\ gone \in SUBSET (1..len) /\ \A i \in 1..len : times[i] \in Nat
    BY DEF Tries, Gone
  <1>2. CASE gone = {}
    <2>1. Cardinality(gone) = 0
      BY <1>2, FS_EmptySet
    <2>2. QED
      BY <1>1, <1>2, <2>1
  <1>3. CASE gone # {}
    <2>1. PICK last \in gone : \A j \in gone : j <= last
      BY <1>1, <1>3, HasLast
    <2>2. last \in 1..len /\ n - times[last] >= Window
      BY <1>1, <2>1 DEF Gone
    <2>3. ASSUME NEW j \in 1..last PROVE j \in gone
      <3>1. j \in 1..len /\ times[j] <= times[last]
        BY <1>1, <2>2 DEF Tries
      <3>2. n - times[j] >= Window
        BY <1>1, <2>2, <3>1, Limits
      <3>3. QED
        BY <3>1, <3>2 DEF Gone
    <2>4. gone = 1..last
      <3>1. \A j \in gone : j \in 1..last
        BY <1>1, <2>1, <2>2
      <3>2. QED
        BY <2>3, <3>1
    <2>5. last \in Nat /\ 1 <= last /\ Cardinality(1..last) = last
      <3>1. last \in Nat /\ 1 <= last
        BY <2>2
      <3>2. Cardinality(1..last) = IF 1 > last THEN 0 ELSE last - 1 + 1
        BY <3>1, FS_Interval
      <3>3. QED
        BY <3>1, <3>2
    <2>6. QED
      BY <1>1, <2>2, <2>4, <2>5
  <1>4. QED
    BY <1>2, <1>3

\* Pruning keeps the order of a list and leaves only tries within the window.
LEMMA Pruned ==
    ASSUME NEW n \in Nat, NEW times, Tries(times, n)
    PROVE  \E m : PrunedBy(times, n, m)
  <1> DEFINE m == Cardinality(Gone(times, n))
             len == Len(times)
             recent == SubSeq(times, m + 1, len)
  <1>1. m \in 0..len /\ Gone(times, n) = 1..m /\ len \in Nat /\ times \in Seq(Nat)
    BY GoneFirst DEF Tries
  <1> HIDE DEF m
  <1>2. \A i \in 1..len : n - times[i] >= Window <=> i <= m
    <2>1. ASSUME NEW i \in 1..len PROVE i \in Gone(times, n) <=> n - times[i] >= Window
      BY DEF Gone
    <2>2. QED
      BY <1>1, <2>1
  <1>3. /\ recent \in Seq(Nat)
        /\ Len(recent) = len - m
        /\ \A i \in 1..(len - m) : recent[i] = times[m + i]
    <2> HIDE DEF len
    <2>1. m + 1 \in Int /\ len \in Int /\ \A i \in (m + 1)..len : times[i] \in Nat
      BY <1>1 DEF len
    <2>2. /\ recent \in Seq(Nat)
          /\ Len(recent) = IF m + 1 <= len THEN len - (m + 1) + 1 ELSE 0
          /\ \A i \in 1 .. len - (m + 1) + 1 : recent[i] = times[m + 1 + i - 1]
      BY <2>1, SubSeqProperties
    <2>3. len - (m + 1) + 1 = len - m /\ \A i \in 1..(len - m) : m + 1 + i - 1 = m + i
      BY <1>1
    <2>4. Len(recent) = len - m
      BY <1>1, <2>2
    <2>5. QED
      BY <2>2, <2>3, <2>4
  <1>4. RecentAt(times, n) = recent
    BY DEF RecentAt, m
  <1>5. PrunedBy(times, n, m)
    BY <1>1, <1>2, <1>3, <1>4 DEF PrunedBy
  <1>6. QED
    BY <1>5

\* ... and of every key of a map.
\* What is left is a list of tries again, and no longer.
LEMMA PrunedTries ==
    ASSUME NEW n \in Nat, NEW times, Tries(times, n)
    PROVE  Tries(RecentAt(times, n), n) /\ Len(RecentAt(times, n)) <= Len(times)
  <1>1. PICK m : PrunedBy(times, n, m)
    BY Pruned
  <1> DEFINE recent == RecentAt(times, n)
             len == Len(times)
  <1>2. len \in Nat
    BY DEF Tries
  <1>3. /\ \A i, j \in 1..len : i <= j => times[i] <= times[j]
        /\ \A i \in 1..len : times[i] <= n
    BY DEF Tries
  <1>4. recent \in Seq(Nat) /\ Len(recent) = len - m /\ \A i \in 1..(len - m) : recent[i] = times[m + i]
        /\ m \in 0..len
    BY <1>1 DEF PrunedBy
  <1> HIDE DEF recent, len
  <1>5. \A i \in 1..(len - m) : m + i \in 1..len
    BY <1>2, <1>4 DEF len
  <1>6. \A i, j \in 1..(len - m) : i <= j => recent[i] <= recent[j]
    <2>1. SUFFICES ASSUME NEW i \in 1..(len - m), NEW j \in 1..(len - m), i <= j
                   PROVE  recent[i] <= recent[j]
      OBVIOUS
    <2>2. m + i \in 1..len /\ m + j \in 1..len /\ m + i <= m + j
      BY <1>2, <1>4, <1>5, <2>1
    <2>3. times[m + i] <= times[m + j]
      BY <1>3, <2>2
    <2>4. QED
      BY <1>4, <2>3
  <1>7. \A i \in 1..(len - m) : recent[i] <= n
    BY <1>3, <1>4, <1>5
  <1>8. len - m <= len
    BY <1>2, <1>4 DEF len
  <1>9. QED
    BY <1>4, <1>6, <1>7, <1>8 DEF Tries, recent, len

\* A try that is made now goes to the end.
LEMMA AddedTries ==
    ASSUME NEW n \in Nat, NEW times, Tries(times, n)
    PROVE  /\ Tries(Append(times, n), n)
           /\ Len(Append(times, n)) = Len(times) + 1
  <1> DEFINE more == Append(times, n)
             len == Len(times)
  <1>1. times \in Seq(Nat) /\ len \in Nat
    BY DEF Tries
  <1>2. /\ more \in Seq(Nat) /\ Len(more) = len + 1
        /\ \A i \in 1..len : more[i] = times[i]
        /\ more[len + 1] = n
    BY <1>1, AppendProperties
  <1>3. /\ \A i, j \in 1..len : i <= j => times[i] <= times[j]
        /\ \A i \in 1..len : times[i] <= n
    BY DEF Tries
  <1> HIDE DEF more, len
  <1>4. \A i \in 1..(len + 1) : i \in 1..len \/ i = len + 1
    BY <1>1
  <1>5. \A i \in 1..(len + 1) : more[i] <= n
    BY <1>2, <1>3, <1>4
  <1>6. ASSUME NEW i \in 1..(len + 1), NEW j \in 1..(len + 1), i <= j PROVE more[i] <= more[j]
    <2>1. CASE j = len + 1
      BY <1>2, <1>5, <2>1
    <2>2. CASE j \in 1..len
      <3>1. i \in 1..len
        BY <1>1, <1>6, <2>2
      <3>2. QED
        BY <1>2, <1>3, <1>6, <2>2, <3>1
    <2>3. QED
      BY <1>4, <2>1, <2>2
  <1>7. QED
    BY <1>2, <1>5, <1>6 DEF Tries, more, len

\* A key that is not in the map has no tries.
\* The empty list is one of tries.
LEMMA NoTries ==
    ASSUME NEW n \in Nat
    PROVE  /\ Tries(<<>>, n) /\ Len(<<>>) = 0
           /\ RecentAt(<<>>, n) = <<>>
  <1>1. Tries(<<>>, n) /\ Len(<<>>) = 0
    BY DEF Tries
  <1>2. PICK m : PrunedBy(<<>>, n, m)
    BY <1>1, Pruned
  <1>3. RecentAt(<<>>, n) \in Seq(Nat) /\ Len(RecentAt(<<>>, n)) = 0
    BY <1>1, <1>2 DEF PrunedBy
  <1>4. QED
    BY <1>1, <1>3, EmptySeq

\* The window moves on: a list is never pruned to more than before.
LEMMA LaterIsShorter ==
    ASSUME NEW n \in Nat, NEW times, Tries(times, n)
    PROVE  Tries(times, n + 1) /\ Len(RecentAt(times, n + 1)) <= Len(RecentAt(times, n))
  <1> DEFINE len == Len(times)
  <1>1. len \in Nat /\ \A i \in 1..len : times[i] \in Nat
    BY DEF Tries
  <1>2. Tries(times, n + 1)
    BY DEF Tries
  <1>a. PICK m : PrunedBy(times, n, m)
    BY Pruned
  <1>b. PICK k : PrunedBy(times, n + 1, k)
    BY <1>2, Pruned, n + 1 \in Nat
  <1>3. /\ m \in 0..Len(times)
        /\ \A i \in 1..Len(times) : n - times[i] >= Window <=> i <= m
        /\ Len(RecentAt(times, n)) = Len(times) - m
    BY <1>a DEF PrunedBy
  <1>4. /\ k \in 0..Len(times)
        /\ \A i \in 1..Len(times) : (n + 1) - times[i] >= Window <=> i <= k
        /\ Len(RecentAt(times, n + 1)) = Len(times) - k
    BY <1>b DEF PrunedBy
  <1> HIDE DEF len
  <1>5. m <= k
    <2>1. SUFFICES ASSUME m > k PROVE FALSE
      BY <1>1, <1>3, <1>4 DEF len
    <2>2. m \in 1..len /\ m \in 1..Len(times)
      BY <1>1, <1>3, <1>4, <2>1 DEF len
    <2>3. n - times[m] >= Window /\ times[m] \in Nat
      BY <1>1, <1>3, <2>2
    <2>4. (n + 1) - times[m] >= Window
      BY <2>3, Limits
    <2>5. m <= k
      BY <1>4, <2>2, <2>4
    <2>6. QED
      BY <1>1, <1>3, <1>4, <2>1, <2>5
  <1>6. QED
    BY <1>1, <1>2, <1>3, <1>4, <1>5 DEF len

(***************************************************************************)
(* How many of the newest tries a list covers.                             *)
(***************************************************************************)
LEMMA CoversFewer ==
    ASSUME NEW n \in Nat, NEW times, Tries(times, n), NEW t \in Int,
           NEW c \in Nat, NEW d \in Nat, d <= c, Covers(times, c, t)
    PROVE  Covers(times, d, t)
  <1> DEFINE len == Len(times)
  <1>1. len \in Nat /\ \A i \in 1..len : times[i] \in Nat
    BY DEF Tries
  <1>2. \A i, j \in 1..len : i <= j => times[i] <= times[j]
    BY DEF Tries
  <1>3. c > 0 => c <= len /\ times[len - c + 1] >= t
    BY DEF Covers
  <1> HIDE DEF len
  <1>4. ASSUME d > 0 PROVE d <= len /\ times[len - d + 1] >= t
    <2>1. c > 0 /\ c <= len /\ d <= len /\ times[len - c + 1] >= t
      BY <1>1, <1>3, <1>4
    <2>2. len - c + 1 \in 1..len /\ len - d + 1 \in 1..len /\ len - c + 1 <= len - d + 1
      BY <1>1, <1>4, <2>1
    <2>3. times[len - c + 1] <= times[len - d + 1]
      BY <1>2, <2>2
    <2>4. times[len - c + 1] \in Nat /\ times[len - d + 1] \in Nat
      BY <1>1, <2>2
    <2>5. QED
      BY <2>1, <2>3, <2>4
  <1>5. QED
    BY <1>4 DEF Covers, len

\* Pruned tries are still covered by what they were covered by.
LEMMA CoversRecent ==
    ASSUME NEW n \in Nat, NEW times, Tries(times, n), NEW t \in Int, n - t < Window,
           NEW c \in Nat, Covers(times, c, t)
    PROVE  Covers(RecentAt(times, n), c, t)
  <1> DEFINE len == Len(times)
             recent == RecentAt(times, n)
  <1>1. len \in Nat /\ \A i \in 1..len : times[i] \in Nat
    BY DEF Tries
  <1>a. PICK m : PrunedBy(times, n, m)
    BY Pruned
  <1>2. /\ m \in 0..len
        /\ \A i \in 1..len : n - times[i] >= Window <=> i <= m
        /\ Len(recent) = len - m
        /\ \A i \in 1..(len - m) : recent[i] = times[m + i]
    BY <1>a DEF PrunedBy
  <1>3. c > 0 => c <= len /\ times[len - c + 1] >= t
    BY DEF Covers
  <1> HIDE DEF len, recent
  <1>4. ASSUME c > 0 PROVE c <= len - m /\ recent[len - m - c + 1] >= t
    <2>1. len - c + 1 \in 1..len /\ times[len - c + 1] \in Nat /\ times[len - c + 1] >= t
      BY <1>1, <1>3, <1>4
    <2>2. ~(n - times[len - c + 1] >= Window)
      BY <2>1, Limits
    <2>3. ~(len - c + 1 <= m)
      BY <1>2, <2>1, <2>2
    <2>4. c <= len - m /\ len - m - c + 1 \in 1..(len - m) /\ m + (len - m - c + 1) = len - c + 1
      BY <1>1, <1>2, <1>4, <2>3
    <2>5. QED
      BY <1>2, <2>1, <2>4
  <1>5. QED
    BY <1>2, <1>4 DEF Covers, recent

\* ... and so is one more try.
LEMMA CoversAdded ==
    ASSUME NEW n \in Nat, NEW times, Tries(times, n), NEW t \in Int, t <= n,
           NEW c \in Nat, NEW d \in Nat, d <= c + 1, Covers(times, c, t)
    PROVE  Covers(Append(times, n), d, t)
  <1> DEFINE len == Len(times)
             more == Append(times, n)
  <1>1. len \in Nat /\ times \in Seq(Nat)
    BY DEF Tries
  <1>2. /\ Len(more) = len + 1
        /\ \A i \in 1..len : more[i] = times[i]
        /\ more[len + 1] = n
    BY <1>1, AppendProperties
  <1>3. ASSUME d > 1 PROVE d - 1 <= len /\ times[len - (d - 1) + 1] >= t
    <2>1. d - 1 \in Nat /\ d - 1 <= c /\ d - 1 > 0
      BY <1>3
    <2>2. Covers(times, d - 1, t)
      BY <2>1, CoversFewer
    <2>3. QED
      BY <2>1, <2>2 DEF Covers
  <1> HIDE DEF len, more
  <1>4. ASSUME d > 1 PROVE d <= len + 1 /\ more[len + 1 - d + 1] >= t
    <2>1. len - (d - 1) + 1 = len + 1 - d + 1 /\ len + 1 - d + 1 \in 1..len
      BY <1>1, <1>3, <1>4
    <2>2. QED
      BY <1>1, <1>2, <1>3, <1>4, <2>1
  <1>5. ASSUME d = 1 PROVE d <= len + 1 /\ more[len + 1 - d + 1] >= t
    <2>1. len + 1 - d + 1 = len + 1
      BY <1>1, <1>5
    <2>2. QED
      BY <1>1, <1>2, <1>5, <2>1
  <1>6. QED
    <2>1. d > 0 => d > 1 \/ d = 1
      OBVIOUS
    <2>2. d > 0 => d <= len + 1 /\ more[len + 1 - d + 1] >= t
      BY <1>4, <1>5, <2>1
    <2> HIDE DEF more
    <2>3. Covers(more, d, t)
      <3>1. Len(more) = len + 1
        BY <1>2
      <3>2. d > 0 => d <= Len(more) /\ more[Len(more) - d + 1] >= t
        BY ONLY <1>1, <2>2, <3>1, d \in Nat
      <3>3. QED
        BY ONLY <3>2 DEF Covers
    <2>4. QED
      BY <2>3 DEF more
-----------------------------------------------------------------------------
(***************************************************************************)
(* What the steps do to the lists.                                         *)
(***************************************************************************)
Lists == /\ now \in Nat
         /\ hits \in [Hosts -> Seq(Nat)]
         /\ \A k \in Hosts : Tries(hits[k], now)

\* What a call that is counted does to the lists and to the tries remembered.
Added(h, kept) ==
    /\ hits' = [k \in Hosts |->
          IF k = calls[h].key THEN Append(Recent(IF k \in kept THEN hits[k] ELSE <<>>), now)
          ELSE IF k \in kept THEN hits[k] ELSE <<>>]
    /\ failed' = {f \in failed : f.key \in kept \/ f.key \notin Keys}
                   \cup (IF calls[h].fresh THEN {Try(calls[h])} ELSE {})

\* A counted call adds one try at most.
\* A counted call sweeps the map and adds its try.
LEMMA CountsAdds ==
    ASSUME NEW h \in Handlers, Counts(h)
    PROVE  /\ \E kept \in Swept : Added(h, kept)
           /\ Waiting(h) /\ Free(h) /\ UNCHANGED <<rule, now>>
  BY DEF Counts, fail, Added

\* ... which is to sweep, prune and append.
LEMMA AddedTo ==
    ASSUME Lists, NEW h \in Handlers, NEW kept, Added(h, kept), NEW k \in Hosts
    PROVE  /\ k = calls[h].key /\ k \in kept => hits'[k] = Append(RecentAt(hits[k], now), now)
           /\ k = calls[h].key /\ k \notin kept => hits'[k] = Append(<<>>, now)
           /\ k # calls[h].key /\ k \in kept => hits'[k] = hits[k]
           /\ k # calls[h].key /\ k \notin kept => hits'[k] = <<>>
  <1>1. hits[k] \in Seq(Nat) /\ Recent(hits[k]) = RecentAt(hits[k], now)
    BY RecentIsRecentAt DEF Lists
  <1>2. Recent(<<>>) = <<>>
    <2>1. <<>> \in Seq(Nat)
      OBVIOUS
    <2>2. Recent(<<>>) = RecentAt(<<>>, now)
      BY <2>1, RecentIsRecentAt
    <2>3. RecentAt(<<>>, now) = <<>>
      BY NoTries DEF Lists
    <2>4. QED
      BY <2>2, <2>3
  <1>3. QED
    BY <1>1, <1>2 DEF Added

\* A call that arrives prunes the list of its own key, and waits only below the limit.
LEMMA ArriveEffect ==
    ASSUME IInv, Lists, NEW h \in Handlers, Arrive(h)
    PROVE  /\ ~Waiting(h) /\ UNCHANGED <<rule, now, failed>>
           /\ \E from \in Callers, via \in Routes, key \in Hosts :
                /\ key = Nearest(<<from>> \o via, extra, trust)
                /\ hits' = [hits EXCEPT ![key] = RecentAt(hits[key], now)]
                /\ \/ calls' = calls
                   \/ /\ ~(Len(RecentAt(hits[key], now)) >= Limit)
                      /\ calls' = [calls EXCEPT ![h] =
                            [from |-> from, via |-> via, key |-> key, near |-> key, fresh |-> TRUE]]
  <1>1. PICK from \in Callers, via \in Routes, claim \in Claims :
          LET route == <<from>> \o via
              key == resolve(Arrives(route, claim, None), extra, trust)
          IN  /\ hits' = [hits EXCEPT ![key] = Recent(@)]
              /\ calls' = IF Blocked(key) THEN calls
                          ELSE [calls EXCEPT ![h] =
                                  [from |-> from, via |-> via, key |-> key,
                                   near |-> Nearest(route, extra, trust), fresh |-> TRUE]]
    BY DEF Arrive
  <1> DEFINE route == <<from>> \o via
             key == Nearest(route, extra, trust)
  <1>2. resolve(Arrives(route, claim, None), extra, trust) = key /\ key \in Hosts
    <2>1. route \in Route /\ claim \in Seq(Hosts)
      BY RouteOf, ClaimsAreChains
    <2> HIDE DEF route
    <2>2. QED
      BY <2>1, ResolveIsNearest, NearestIsHost DEF IInv
  <1>3. /\ hits' = [hits EXCEPT ![key] = Recent(@)]
        /\ calls' = IF Blocked(key) THEN calls
                    ELSE [calls EXCEPT ![h] =
                            [from |-> from, via |-> via, key |-> key, near |-> key, fresh |-> TRUE]]
    BY <1>1, <1>2
  <1> HIDE DEF key, route
  <1>4. hits[key] \in Seq(Nat) /\ Recent(hits[key]) = RecentAt(hits[key], now)
    BY <1>2, RecentIsRecentAt DEF Lists
  <1>5. /\ hits' = [hits EXCEPT ![key] = RecentAt(hits[key], now)]
        /\ Blocked(key) <=> Len(RecentAt(hits[key], now)) >= Limit
    BY <1>2, <1>3, <1>4 DEF Lists, Blocked
  <1>6. key = Nearest(<<from>> \o via, extra, trust)
    BY DEF key, route
  <1>7. ~Waiting(h) /\ UNCHANGED <<rule, now, failed>>
    BY DEF Arrive
  <1>8. calls' = calls \/ ( /\ ~(Len(RecentAt(hits[key], now)) >= Limit)
                            /\ calls' = [calls EXCEPT ![h] =
                                 [from |-> from, via |-> via, key |-> key, near |-> key, fresh |-> TRUE]])
    BY <1>3, <1>5
  <1>9. QED
    BY <1>2, <1>5, <1>6, <1>7, <1>8

\* Every action keeps the lists of tries in time order and within the present.
LEMMA ListsNext == IInv /\ Lists /\ [Next]_vars => Lists'
  <1> SUFFICES ASSUME IInv, Lists, [Next]_vars PROVE Lists'
    OBVIOUS
  <1>0. now \in Nat /\ \A k \in Hosts : Tries(hits[k], now)
    BY DEF Lists
  <1>1. ASSUME now' = now, hits' = [k \in Hosts |-> hits'[k]], \A k \in Hosts : Tries(hits'[k], now)
        PROVE  Lists'
    <2>1. \A k \in Hosts : hits'[k] \in Seq(Nat)
      BY <1>1 DEF Tries
    <2>2. hits' \in [Hosts -> Seq(Nat)]
      BY <1>1, <2>1
    <2>3. QED
      BY <1>0, <1>1, <2>2 DEF Lists
  <1>2. ASSUME NEW h \in Handlers, Arrive(h) PROVE Lists'
    <2>1. PICK key \in Hosts : hits' = [hits EXCEPT ![key] = RecentAt(hits[key], now)]
      BY <1>2, ArriveEffect
    <2>2. /\ hits' = [k \in Hosts |-> hits'[k]]
          /\ \A k \in Hosts : hits'[k] = IF k = key THEN RecentAt(hits[k], now) ELSE hits[k]
      BY <2>1 DEF Lists
    <2>3. \A k \in Hosts : Tries(RecentAt(hits[k], now), now)
      BY <1>0, PrunedTries
    <2>4. QED
      BY <1>0, <1>1, <1>2, <2>2, <2>3 DEF Arrive
  <1>3. ASSUME NEW h \in Handlers, Counts(h) PROVE Lists'
    <2>1. PICK kept \in Swept : Added(h, kept)
      BY <1>3, CountsAdds
    <2>2. hits' = [k \in Hosts |-> hits'[k]] /\ now' = now
      BY <1>3, <2>1 DEF Added, Counts
    <2>3. ASSUME NEW k \in Hosts PROVE Tries(hits'[k], now)
      <3>1. /\ Tries(Append(RecentAt(hits[k], now), now), now)
            /\ Tries(<<>>, now) /\ Tries(Append(<<>>, now), now)
        BY <1>0, PrunedTries, AddedTries, NoTries
      <3>2. QED
        BY <1>0, <2>1, <3>1, AddedTo
    <2>4. QED
      BY <1>1, <2>2, <2>3
  <1>4. ASSUME NEW h \in Handlers, LoginAccepted(h) PROVE Lists'
    <2>1. hits' = [hits EXCEPT ![calls[h].key] = <<>>] /\ now' = now
      BY <1>4 DEF LoginAccepted
    <2>2. /\ hits' = [k \in Hosts |-> hits'[k]]
          /\ \A k \in Hosts : hits'[k] = IF k = calls[h].key THEN <<>> ELSE hits[k]
      BY <2>1 DEF Lists
    <2>3. QED
      BY <1>0, <1>1, <2>1, <2>2, NoTries
  <1>5. ASSUME Restart PROVE Lists'
    <2>1. hits' = [k \in Hosts |-> <<>>] /\ now' = now
      BY <1>5 DEF Restart
    <2>2. hits' = [k \in Hosts |-> hits'[k]] /\ \A k \in Hosts : hits'[k] = <<>>
      BY <2>1
    <2>3. QED
      BY <1>0, <1>1, <2>1, <2>2, NoTries
  <1>6. ASSUME Tick PROVE Lists'
    BY <1>0, <1>6, LaterIsShorter DEF Tick, Lists
  <1>7. ASSUME UNCHANGED <<hits, now>> PROVE Lists'
    BY <1>7 DEF Lists
  <1>8. QED
    BY <1>2, <1>3, <1>4, <1>5, <1>6, <1>7 DEF Next, vars, FeedbackUnknown, SaveClientIp

(***************************************************************************)
(* The map of keys is bounded: a try adds one key to those a sweep left.   *)
(***************************************************************************)
FewKeys == IsFiniteSet(Keys) /\ Cardinality(Keys) <= MaxKeys + 1

\* A sweep leaves at most MAX_KEYS keys, all of them keys that were there.
LEMMA SweepBounds ==
    ASSUME FewKeys, NEW kept \in Swept
    PROVE  kept \subseteq Keys /\ IsFiniteSet(kept) /\ Cardinality(kept) <= MaxKeys
  <1>1. Live \subseteq Keys /\ IsFiniteSet(Live) /\ Cardinality(Live) \in Nat
    <2>1. Live \subseteq Keys
      BY DEF Live
    <2>2. QED
      BY <2>1, FS_Subset, FS_CardinalityType DEF FewKeys
  <1>2. CASE Cardinality(Keys) <= MaxKeys
    BY <1>2 DEF Swept, FewKeys
  <1>3. CASE ~(Cardinality(Keys) <= MaxKeys)
    <2>1. /\ kept \in SUBSET Live
          /\ Cardinality(kept) = IF Cardinality(Live) > MaxKeys THEN MaxKeys ELSE Cardinality(Live)
      BY <1>3 DEF Swept
    <2>2. IsFiniteSet(kept)
      BY <1>1, <2>1, FS_Subset
    <2>3. Cardinality(kept) <= MaxKeys
      BY <1>1, <2>1, Limits
    <2>4. QED
      BY <1>1, <2>1, <2>2, <2>3
  <1>4. QED
    BY <1>2, <1>3

\* Fewer keys than few are few.
LEMMA KeysShrink == ASSUME FewKeys, Keys' \subseteq Keys PROVE FewKeys'
  <1> DEFINE later == Keys'
  <1>1. later \in SUBSET Keys
    OBVIOUS
  <1> HIDE DEF later
  <1>2. /\ IsFiniteSet(later) /\ Cardinality(later) <= Cardinality(Keys)
        /\ Cardinality(later) \in Nat /\ Cardinality(Keys) \in Nat
    BY <1>1, FS_Subset, FS_CardinalityType DEF FewKeys
  <1>3. IsFiniteSet(later) /\ Cardinality(later) <= MaxKeys + 1
    BY <1>2, Limits DEF FewKeys
  <1>4. QED
    BY <1>3 DEF FewKeys, later

\* Every action keeps the map within its cap.
LEMMA FewKeysNext == IInv /\ Lists /\ FewKeys /\ [Next]_vars => FewKeys'
  <1> SUFFICES ASSUME IInv, Lists, FewKeys, [Next]_vars PROVE FewKeys'
    OBVIOUS
  <1>1. ASSUME NEW h \in Handlers, Arrive(h) PROVE FewKeys'
    <2>1. PICK key \in Hosts : hits' = [hits EXCEPT ![key] = RecentAt(hits[key], now)]
      BY <1>1, ArriveEffect
    <2>2. ASSUME NEW k \in Keys' PROVE k \in Keys
      <3>1. k \in Hosts /\ hits'[k] # <<>>
        BY DEF Keys
      <3>2. hits'[k] = IF k = key THEN RecentAt(hits[k], now) ELSE hits[k]
        BY <2>1, <3>1 DEF Lists
      <3>3. RecentAt(<<>>, now) = <<>>
        BY NoTries DEF Lists
      <3>4. hits[k] # <<>>
        BY <3>1, <3>2, <3>3
      <3>5. QED
        BY <3>1, <3>4 DEF Keys
    <2>3. QED
      BY <2>2, KeysShrink
  <1>2. ASSUME NEW h \in Handlers, Counts(h) PROVE FewKeys'
    <2>1. PICK kept \in Swept : Added(h, kept)
      BY <1>2, CountsAdds
    <2>2. IsFiniteSet(kept) /\ Cardinality(kept) <= MaxKeys /\ Cardinality(kept) \in Nat
      BY SweepBounds, FS_CardinalityType
    <2> DEFINE later == Keys'
               more == kept \cup {calls[h].key}
    <2>3. later \in SUBSET more
      <3>1. ASSUME NEW k \in Keys' PROVE k \in kept \/ k = calls[h].key
        BY <2>1, <3>1, AddedTo DEF Keys
      <3>2. QED
        BY <3>1
    <2>4. IsFiniteSet(more) /\ Cardinality(more) <= MaxKeys + 1 /\ Cardinality(more) \in Nat
      <3>1. /\ IsFiniteSet(more)
            /\ Cardinality(more) = IF calls[h].key \in kept THEN Cardinality(kept) ELSE Cardinality(kept) + 1
        BY <2>2, FS_AddElement
      <3>2. QED
        BY <2>2, <3>1, Limits
    <2> HIDE DEF later, more
    <2>5. IsFiniteSet(later) /\ Cardinality(later) <= Cardinality(more) /\ Cardinality(later) \in Nat
      BY <2>3, <2>4, FS_Subset, FS_CardinalityType
    <2>6. Cardinality(later) <= MaxKeys + 1
      BY <2>4, <2>5, Limits
    <2>7. QED
      BY <2>5, <2>6 DEF FewKeys, later
  <1>3. ASSUME NEW h \in Handlers, LoginAccepted(h) PROVE FewKeys'
    <2>1. Keys' \subseteq Keys
      BY <1>3 DEF LoginAccepted, Keys, Lists
    <2>2. QED
      BY <2>1, KeysShrink
  <1>4. ASSUME Restart PROVE FewKeys'
    <2>1. Keys' \subseteq Keys
      BY <1>4 DEF Restart, Keys
    <2>2. QED
      BY <2>1, KeysShrink
  <1>5. ASSUME UNCHANGED hits PROVE FewKeys'
    BY <1>5 DEF FewKeys, Keys
  <1>6. QED
    BY <1>1, <1>2, <1>3, <1>4, <1>5 DEF Next, vars, FeedbackUnknown, SaveClientIp, Tick

\* The map is empty at first.
LEMMA ListsInit == Init => Lists /\ FewKeys
  <1> SUFFICES ASSUME Init PROVE Lists /\ FewKeys
    OBVIOUS
  <1>1. now = 0 /\ hits = [k \in Hosts |-> <<>>] /\ <<>> \in Seq(Nat)
    BY DEF Init
  <1>2. Keys = {}
    BY <1>1 DEF Keys
  <1>3. IsFiniteSet(Keys) /\ Cardinality(Keys) = 0
    BY <1>2, FS_EmptySet
  <1>4. Tries(<<>>, 0)
    BY NoTries
  <1>5. QED
    BY <1>1, <1>3, <1>4, Limits DEF Lists, FewKeys

\* The memory of a limiter stays within its cap and one key more (LoginThrottle._sweep,
\* "bounded on purpose"), for every cap, whoever calls and however often.
THEOREM MapStaysBounded == Spec => []MapBounded
  <1>1. Init => IInv
    BY DEF Init, IInv, Idle, Held
  <1>2. FewKeys => MapBounded
    BY DEF FewKeys, MapBounded
  <1>3. QED
    BY <1>1, <1>2, ListsInit, Keyed, ListsNext, FewKeysNext, PTL DEF Spec
-----------------------------------------------------------------------------
(***************************************************************************)
(* How many tries a caller gets.  The tries a key remembers and the calls  *)
(* that wait under it share the limit: a call begins to wait only below    *)
(* it, so the handlers are all that can come on top.                       *)
(***************************************************************************)
WaitingUnder(k) == {h \in Handlers : Waiting(h) /\ calls[h].key = k}

Share == \A k \in Hosts :
    Len(RecentAt(hits[k], now)) + Cardinality(WaitingUnder(k)) <= Limit - 1 + Cardinality(Handlers)

\* A set of handlers has a size.
\* A set of handlers has a size, and its parts are smaller.
LEMMA SomeHandlers ==
    ASSUME NEW S \in SUBSET Handlers
    PROVE  /\ IsFiniteSet(S) /\ Cardinality(S) \in Nat /\ Cardinality(Handlers) \in Nat
           /\ Cardinality(S) <= Cardinality(Handlers)
           /\ \A T \in SUBSET S : Cardinality(T) \in Nat /\ Cardinality(T) <= Cardinality(S)
           /\ \A h \in S : Cardinality(S \ {h}) = Cardinality(S) - 1
  <1>1. IsFiniteSet(S) /\ Cardinality(S) <= Cardinality(Handlers)
    BY HandlersAreFinite, FS_Subset
  <1>2. Cardinality(S) \in Nat /\ Cardinality(Handlers) \in Nat
    BY <1>1, HandlersAreFinite, FS_CardinalityType
  <1>3. ASSUME NEW T \in SUBSET S PROVE Cardinality(T) \in Nat /\ Cardinality(T) <= Cardinality(S)
    BY <1>1, FS_Subset, FS_CardinalityType
  <1>4. ASSUME NEW h \in S PROVE Cardinality(S \ {h}) = Cardinality(S) - 1
    BY <1>1, FS_RemoveElement
  <1>5. QED
    BY <1>1, <1>2, <1>3, <1>4

\* A handler that is done waits under no key.
LEMMA Freed ==
    ASSUME IInv, NEW h \in Handlers, Free(h), NEW k
    PROVE  WaitingUnder(k)' = WaitingUnder(k) \ {h}
  <1>1. calls'[h] = Idle /\ \A j \in Handlers \ {h} : calls'[j] = calls[j]
    BY DEF Free, IInv
  <1>2. QED
    BY <1>1 DEF WaitingUnder, Waiting

\* What is within the window is no longer than the list.
\* Pruning a pruned list leaves no more.
LEMMA RecentLen ==
    ASSUME Lists, NEW k \in Hosts
    PROVE  /\ Tries(RecentAt(hits[k], now), now)
           /\ Len(RecentAt(hits[k], now)) \in Nat
           /\ Len(RecentAt(RecentAt(hits[k], now), now)) \in Nat
           /\ Len(RecentAt(RecentAt(hits[k], now), now)) <= Len(RecentAt(hits[k], now))
  <1>1. now \in Nat /\ Tries(hits[k], now)
    BY DEF Lists
  <1>2. Tries(RecentAt(hits[k], now), now)
    BY <1>1, PrunedTries
  <1>3. /\ Tries(RecentAt(RecentAt(hits[k], now), now), now)
        /\ Len(RecentAt(RecentAt(hits[k], now), now)) <= Len(RecentAt(hits[k], now))
    BY <1>1, <1>2, PrunedTries
  <1>4. QED
    BY <1>2, <1>3 DEF Tries

\* One more try is one more.
LEMMA RecentOfAdded ==
    ASSUME NEW n \in Nat, NEW times, Tries(times, n)
    PROVE  /\ Len(RecentAt(Append(times, n), n)) \in Nat
           /\ Len(RecentAt(Append(times, n), n)) <= Len(times) + 1
  <1>1. Tries(Append(times, n), n) /\ Len(Append(times, n)) = Len(times) + 1
    BY AddedTries
  <1>2. /\ Tries(RecentAt(Append(times, n), n), n)
        /\ Len(RecentAt(Append(times, n), n)) <= Len(Append(times, n))
    BY <1>1, PrunedTries
  <1>3. QED
    BY <1>1, <1>2 DEF Tries

\* Every action keeps each try to a handler that passed its check.
\* Every action keeps the tries of a caller, with the calls that wait, within the limit and the other handlers.
LEMMA ShareNext == IInv /\ Lists /\ Share /\ [Next]_vars => Share'
  <1> SUFFICES ASSUME IInv, Lists, Share, [Next]_vars, NEW k \in Hosts
               PROVE  (Len(RecentAt(hits[k], now)) + Cardinality(WaitingUnder(k))
                          <= Limit - 1 + Cardinality(Handlers))'
    BY DEF Share
  <1> DEFINE tries == Len(RecentAt(hits[k], now))
             waiting == WaitingUnder(k)
             later == WaitingUnder(k)'
             all == Cardinality(Handlers)
  <1>0. now \in Nat /\ Tries(hits[k], now) /\ tries \in Nat /\ Len(<<>>) = 0
    BY RecentLen, NoTries DEF Lists
  <1>a. waiting \in SUBSET Handlers /\ later \in SUBSET Handlers
    BY DEF WaitingUnder
  <1>b. /\ Cardinality(waiting) \in Nat /\ Cardinality(later) \in Nat /\ all \in Nat
        /\ Cardinality(waiting) <= all /\ Cardinality(later) <= all
        /\ tries + Cardinality(waiting) <= Limit - 1 + all
    BY <1>a, SomeHandlers DEF Share
  <1>c. later \subseteq waiting => Cardinality(later) <= Cardinality(waiting)
    BY <1>a, SomeHandlers
  <1>d. ASSUME Len(RecentAt(hits'[k], now')) \in Nat, Len(RecentAt(hits'[k], now')) <= tries,
               later \subseteq waiting
        PROVE  Len(RecentAt(hits'[k], now')) + Cardinality(later) <= Limit - 1 + all
    BY <1>0, <1>b, <1>c, <1>d, Limits
  <1>e. ASSUME Len(RecentAt(hits'[k], now')) = 0
        PROVE  Len(RecentAt(hits'[k], now')) + Cardinality(later) <= Limit - 1 + all
    BY <1>b, <1>e, Limits
  <1> DEFINE Goal == Len(RecentAt(hits'[k], now')) + Cardinality(later) <= Limit - 1 + all
  <1>1. ASSUME NEW h \in Handlers, Arrive(h) PROVE Goal
    <2>1. PICK from \in Callers, via \in Routes, key \in Hosts :
             /\ key = Nearest(<<from>> \o via, extra, trust)
             /\ hits' = [hits EXCEPT ![key] = RecentAt(hits[key], now)]
             /\ \/ calls' = calls
                \/ /\ ~(Len(RecentAt(hits[key], now)) >= Limit)
                   /\ calls' = [calls EXCEPT ![h] =
                         [from |-> from, via |-> via, key |-> key, near |-> key, fresh |-> TRUE]]
      BY <1>1, ArriveEffect
    <2>2. now' = now /\ hits'[k] = IF k = key THEN RecentAt(hits[k], now) ELSE hits[k]
      BY <1>1, <2>1 DEF Arrive, Lists
    <2>3. Len(RecentAt(hits'[k], now')) \in Nat /\ Len(RecentAt(hits'[k], now')) <= tries
      BY <1>0, <2>2, RecentLen
    <2>4. CASE calls' = calls
      <3>1. later = waiting
        BY <2>4 DEF WaitingUnder, Waiting
      <3>2. QED
        BY <1>d, <2>3, <3>1
    <2>5. CASE calls' # calls
      <3>1. /\ calls'[h].key = key /\ \A j \in Handlers \ {h} : calls'[j] = calls[j]
            /\ ~(Len(RecentAt(hits[key], now)) >= Limit)
        BY <2>1, <2>5 DEF IInv
      <3>2. CASE k = key
        <4>1. ~(tries >= Limit)
          BY <3>1, <3>2
        <4>2. QED
          BY <1>0, <1>b, <2>3, <4>1, Limits
      <3>3. CASE k # key
        <4>1. later \subseteq waiting
          BY <3>1, <3>3 DEF WaitingUnder, Waiting
        <4>2. QED
          BY <1>d, <2>3, <4>1
      <3>4. QED
        BY <3>2, <3>3
    <2>6. QED
      BY <2>4, <2>5
  <1>2. ASSUME NEW h \in Handlers, Counts(h) PROVE Goal
    <2>1. PICK kept \in Swept : Added(h, kept)
      BY <1>2, CountsAdds
    <2>2. now' = now /\ later = waiting \ {h} /\ Waiting(h)
      BY <1>2, CountsAdds, Freed
    <2>3. CASE k = calls[h].key
      <3>1. h \in waiting
        BY <2>2, <2>3 DEF WaitingUnder
      <3>2. Cardinality(later) = Cardinality(waiting) - 1
        BY <1>a, <2>2, <3>1, SomeHandlers
      <3>3. Len(RecentAt(hits'[k], now')) \in Nat /\ Len(RecentAt(hits'[k], now')) <= tries + 1
        <4>1. CASE k \in kept
          <5>1. hits'[k] = Append(RecentAt(hits[k], now), now)
            BY <2>1, <2>3, <4>1, AddedTo
          <5>2. QED
            BY <1>0, <2>2, <5>1, RecentLen, RecentOfAdded
        <4>2. CASE k \notin kept
          <5>1. hits'[k] = Append(<<>>, now)
            BY <2>1, <2>3, <4>2, AddedTo
          <5>2. Len(RecentAt(hits'[k], now')) \in Nat /\ Len(RecentAt(hits'[k], now')) <= 0 + 1
            BY <1>0, <2>2, <5>1, NoTries, RecentOfAdded
          <5>3. QED
            BY <1>0, <5>2
        <4>3. QED
          BY <4>1, <4>2
      <3> HIDE DEF tries, waiting, later, all
      <3>4. QED
        BY <1>0, <1>b, <3>2, <3>3, Limits
    <2>4. CASE k # calls[h].key
      <3>1. hits'[k] = hits[k] \/ hits'[k] = <<>>
        BY <2>1, <2>4, AddedTo
      <3>2. CASE hits'[k] = hits[k]
        BY <1>0, <1>d, <2>2, <3>2
      <3>3. CASE hits'[k] = <<>>
        BY <1>0, <1>e, <2>2, <3>3, NoTries
      <3>4. QED
        BY <3>1, <3>2, <3>3
    <2>5. QED
      BY <2>3, <2>4
  <1>3. ASSUME NEW h \in Handlers, LoginAccepted(h) PROVE Goal
    <2>1. now' = now /\ later = waiting \ {h} /\ (hits'[k] = hits[k] \/ hits'[k] = <<>>)
      BY <1>3, Freed DEF LoginAccepted, Lists
    <2>2. CASE hits'[k] = hits[k]
      BY <1>0, <1>d, <2>1, <2>2
    <2>3. CASE hits'[k] = <<>>
      BY <1>0, <1>e, <2>1, <2>3, NoTries
    <2>4. QED
      BY <2>1, <2>2, <2>3
  <1>4. ASSUME NEW h \in Handlers, FeedbackUnknown(h) PROVE Goal
    <2>1. UNCHANGED <<hits, now>> /\ later = waiting \ {h}
      BY <1>4, Freed DEF FeedbackUnknown
    <2>2. QED
      BY <1>0, <1>d, <2>1
  <1>5. ASSUME SaveClientIp PROVE Goal
    <2>1. UNCHANGED <<hits, now>>
      BY <1>5 DEF SaveClientIp
    <2>2. ASSUME NEW h \in Handlers, Waiting(h)' PROVE Waiting(h) /\ calls'[h].key = calls[h].key
      <3> DEFINE call == calls[h]
                 fresh == calls[h] = Idle
      <3>1. calls'[h] = [call EXCEPT !.fresh = fresh] /\ call \in Held
        BY <1>5 DEF SaveClientIp, IInv
      <3>2. Idle.fresh = TRUE /\ Idle \in Held
        BY DEF Idle, Held
      <3>3. fresh => calls'[h] = Idle
        <4>1. SUFFICES ASSUME fresh PROVE calls'[h] = Idle
          OBVIOUS
        <4>2. calls'[h] = [Idle EXCEPT !.fresh = TRUE]
          BY <3>1, <4>1
        <4>3. QED
          BY <4>2 DEF Idle
      <3> HIDE DEF call, fresh
      <3>4. calls'[h].key = call.key
        BY <3>1 DEF Held
      <3>5. QED
        BY <2>2, <3>3, <3>4 DEF Waiting, call, fresh
    <2>3. later \subseteq waiting
      BY <2>2 DEF WaitingUnder
    <2>4. QED
      BY <1>0, <1>d, <2>1, <2>3
  <1>6. ASSUME Restart PROVE Goal
    <2>1. hits'[k] = <<>> /\ now' = now
      BY <1>6 DEF Restart
    <2>2. QED
      BY <1>0, <1>e, <2>1, NoTries
  <1>7. ASSUME Tick PROVE Goal
    <2>1. hits'[k] = hits[k] /\ now' = now + 1 /\ later = waiting
      BY <1>7 DEF Tick, WaitingUnder, Waiting
    <2>2. Tries(hits[k], now + 1) /\ Len(RecentAt(hits[k], now + 1)) <= tries
      BY <1>0, LaterIsShorter
    <2>3. Len(RecentAt(hits[k], now + 1)) \in Nat
      <3>1. now + 1 \in Nat
        BY <1>0
      <3>2. Tries(RecentAt(hits[k], now + 1), now + 1)
        BY <2>2, <3>1, PrunedTries
      <3>3. QED
        BY <3>2 DEF Tries
    <2>4. QED
      BY <1>d, <2>1, <2>2, <2>3
  <1>8. ASSUME UNCHANGED vars PROVE Goal
    <2>1. UNCHANGED <<hits, now>> /\ later = waiting
      BY <1>8 DEF vars, WaitingUnder, Waiting
    <2>2. QED
      BY <1>0, <1>d, <2>1
  <1>9. Goal
    BY <1>1, <1>2, <1>3, <1>4, <1>5, <1>6, <1>7, <1>8 DEF Next
  <1>10. QED
    BY <1>9

(***************************************************************************)
(* The tries remembered of a caller are among the newest of its key: the   *)
(* list of the key covers them, whatever moment they are counted from.     *)
(***************************************************************************)
FailedSince(k, t) == {f \in failed : f.key = k /\ f.at >= t}

Counted == \A k \in Hosts, t \in Int :
    now - t < Window => Covers(hits[k], Cardinality(FailedSince(k, t)), t)

\* A try, and a call that the rule still fits, is keyed on the nearest host.
OnNearest(call) == /\ call.from \in Callers /\ call.via \in Routes
                /\ call.key = Nearest(<<call.from>> \o call.via, extra, trust)

Known ==
    /\ IsFiniteSet(failed)
    /\ \A f \in failed : OnNearest(f) /\ f.at \in Nat /\ f.at <= now /\ now - f.at < Window
    /\ \A h \in Handlers : Waiting(h) /\ calls[h].fresh => OnNearest(calls[h])

\* Every action keeps the record of the calls that passed.
\* Every action keeps the tries remembered within the window and keyed on the nearest host.
LEMMA KnownNext == IInv /\ Lists /\ Known /\ [Next]_vars => Known'
  <1> SUFFICES ASSUME IInv, Lists, Known, [Next]_vars PROVE Known'
    OBVIOUS
  <1>0. now \in Nat
    BY DEF Lists
  <1>1. ASSUME UNCHANGED rule, now' = now, failed' \subseteq failed,
               \A h \in Handlers : calls'[h] = calls[h] \/ calls'[h] = Idle
        PROVE  Known'
    <2>1. IsFiniteSet(failed')
      BY <1>1, FS_Subset DEF Known
    <2>2. \A h \in Handlers : (Waiting(h) /\ calls[h].fresh)' => calls'[h] = calls[h]
      BY <1>1 DEF Waiting
    <2>3. QED
      BY <1>1, <2>1, <2>2 DEF Known, OnNearest, rule, Waiting
  <1>2. ASSUME NEW h \in Handlers, Free(h) PROVE \A j \in Handlers : calls'[j] = calls[j] \/ calls'[j] = Idle
    BY <1>2 DEF Free, IInv
  <1>3. ASSUME NEW h \in Handlers, Arrive(h) PROVE Known'
    <2>1. PICK from \in Callers, via \in Routes, key \in Hosts :
             /\ key = Nearest(<<from>> \o via, extra, trust)
             /\ hits' = [hits EXCEPT ![key] = RecentAt(hits[key], now)]
             /\ \/ calls' = calls
                \/ /\ ~(Len(RecentAt(hits[key], now)) >= Limit)
                   /\ calls' = [calls EXCEPT ![h] =
                         [from |-> from, via |-> via, key |-> key, near |-> key, fresh |-> TRUE]]
      BY <1>3, ArriveEffect
    <2>2. UNCHANGED <<rule, now, failed>>
      BY <1>3 DEF Arrive
    <2>3. ASSUME NEW j \in Handlers PROVE calls'[j] = calls[j] \/ OnNearest(calls'[j])
      <3> DEFINE new == [from |-> from, via |-> via, key |-> key, near |-> key, fresh |-> TRUE]
      <3>1. new.from = from /\ new.via = via /\ new.key = key
        OBVIOUS
      <3>2. calls'[j] = calls[j] \/ calls'[j] = new
        BY <2>1 DEF IInv
      <3> HIDE DEF new
      <3>3. QED
        BY <2>1, <3>1, <3>2 DEF OnNearest
    <2>4. QED
      BY <2>2, <2>3 DEF Known, OnNearest, Waiting, rule
  <1>4. ASSUME NEW h \in Handlers, Counts(h) PROVE Known'
    <2>1. PICK kept \in Swept : Added(h, kept)
      BY <1>4, CountsAdds
    <2>2. Waiting(h) /\ Free(h) /\ UNCHANGED <<rule, now>>
      BY <1>4, CountsAdds
    <2> DEFINE old == {f \in failed : f.key \in kept \/ f.key \notin Keys}
               try == Try(calls[h])
    <2>3. failed' \subseteq failed \cup (IF calls[h].fresh THEN {try} ELSE {})
      BY <2>1 DEF Added
    <2>4. IsFiniteSet(failed')
      <3>1. failed' \subseteq failed \cup {try}
        BY <2>3
      <3>2. IsFiniteSet(failed \cup {try})
        BY FS_AddElement DEF Known
      <3>3. QED
        BY <3>1, <3>2, FS_Subset
    <2>5. calls[h].fresh => OnNearest(try) /\ try.at = now
      BY <2>2 DEF Known, OnNearest, Try
    <2>6. now - now < Window /\ now <= now
      BY <1>0, Limits
    <2> HIDE DEF try
    <2>7. \A f \in failed' : OnNearest(f) /\ f.at \in Nat /\ f.at <= now /\ now - f.at < Window
      BY <1>0, <2>3, <2>5, <2>6 DEF Known
    <2>8. \A j \in Handlers : (Waiting(j) /\ calls[j].fresh)' => calls'[j] = calls[j]
      BY <1>2, <2>2 DEF Waiting
    <2>9. QED
      BY <2>2, <2>4, <2>7, <2>8 DEF Known, OnNearest, rule, Waiting
  <1>5. ASSUME NEW h \in Handlers, LoginAccepted(h) \/ FeedbackUnknown(h) PROVE Known'
    <2>1. UNCHANGED rule /\ now' = now /\ failed' \subseteq failed /\ Free(h)
      BY <1>5 DEF LoginAccepted, FeedbackUnknown
    <2>2. QED
      BY <1>1, <1>2, <2>1
  <1>6. ASSUME SaveClientIp PROVE Known'
    <2>1. failed' = {} /\ calls' = [h \in Handlers |-> [calls[h] EXCEPT !.fresh = calls[h] = Idle]]
      BY <1>6 DEF SaveClientIp
    <2>2. ASSUME NEW h \in Handlers, calls'[h].fresh PROVE calls'[h] = Idle
      <3> DEFINE fresh == calls[h] = Idle
      <3>1. calls'[h] = [calls[h] EXCEPT !.fresh = fresh] /\ calls[h] \in Held
        BY <2>1 DEF IInv
      <3>2. calls'[h].fresh = fresh
        <4> HIDE DEF fresh
        <4>1. QED
          BY <3>1 DEF Held
      <3>3. fresh
        BY <2>2, <3>2
      <3>4. calls'[h] = [Idle EXCEPT !.fresh = TRUE]
        BY <3>1, <3>3
      <3>5. QED
        BY <3>4 DEF Idle
    <2>3. IsFiniteSet(failed')
      BY <2>1, FS_EmptySet
    <2>4. QED
      BY <2>1, <2>2, <2>3 DEF Known, Waiting
  <1>7. ASSUME Restart PROVE Known'
    <2>1. UNCHANGED rule /\ now' = now /\ failed' = {} /\ \A h \in Handlers : calls'[h] = Idle
      BY <1>7 DEF Restart
    <2>2. QED
      BY <1>1, <2>1
  <1>8. ASSUME Tick PROVE Known'
    <2>1. UNCHANGED <<rule, calls>> /\ now' = now + 1 /\ failed' = {f \in failed : now' - f.at < Window}
      BY <1>8 DEF Tick
    <2>2. IsFiniteSet(failed')
      BY <2>1, FS_Subset DEF Known
    <2>3. \A f \in failed' : f \in failed /\ f.at <= now' /\ now' - f.at < Window
      BY <1>0, <2>1 DEF Known
    <2>4. QED
      BY <2>1, <2>2, <2>3 DEF Known, OnNearest, rule, Waiting
  <1>9. ASSUME UNCHANGED vars PROVE Known'
    BY <1>9 DEF vars, rule, Known, OnNearest, Waiting
  <1>10. QED
    BY <1>3, <1>4, <1>5, <1>6, <1>7, <1>8, <1>9 DEF Next

\* The calls counted within a window are finitely many.
\* The tries remembered since a moment are finitely many.
LEMMA SinceFinite ==
    ASSUME Known, NEW k, NEW t
    PROVE  /\ IsFiniteSet(FailedSince(k, t)) /\ Cardinality(FailedSince(k, t)) \in Nat
           /\ \A S \in SUBSET FailedSince(k, t) :
                Cardinality(S) \in Nat /\ Cardinality(S) <= Cardinality(FailedSince(k, t))
  <1>1. FailedSince(k, t) \in SUBSET failed
    BY DEF FailedSince
  <1>2. IsFiniteSet(FailedSince(k, t))
    BY <1>1, FS_Subset DEF Known
  <1>3. QED
    BY <1>2, FS_Subset, FS_CardinalityType

\* A key without a list has no try remembered.
LEMMA NoneRemembered ==
    ASSUME Known, Counted, NEW k \in Hosts, hits[k] = <<>>, NEW t \in Int, now - t < Window
    PROVE  FailedSince(k, t) = {}
  <1>1. Covers(<<>>, Cardinality(FailedSince(k, t)), t) /\ Len(<<>>) = 0
    BY DEF Counted
  <1>2. Cardinality(FailedSince(k, t)) = 0
    BY <1>1, SinceFinite DEF Covers
  <1>3. QED
    BY <1>2, SinceFinite, FS_EmptySet

\* Every action keeps the tries of a caller within the limit and the calls that overlap.
\* Every action keeps as many tries on the lists as are remembered.
LEMMA CountedNext == IInv /\ Lists /\ Known /\ Known' /\ Counted /\ [Next]_vars => Counted'
  <1> SUFFICES ASSUME IInv, Lists, Known, Known', Counted, [Next]_vars,
                      NEW k \in Hosts, NEW t \in Int, now' - t < Window
               PROVE  Covers(hits'[k], Cardinality(FailedSince(k, t)'), t)
    BY DEF Counted
  <1> DEFINE since == FailedSince(k, t)
             later == FailedSince(k, t)'
             Goal == Covers(hits'[k], Cardinality(later), t)
  <1>0. now \in Nat /\ Tries(hits[k], now)
    BY DEF Lists
  <1>a. Cardinality(since) \in Nat /\ IsFiniteSet(since)
    BY SinceFinite
  <1>b. ASSUME now - t < Window PROVE Covers(hits[k], Cardinality(since), t)
    BY <1>b DEF Counted
  <1>c. ASSUME later = {} PROVE Goal
    <2>1. Cardinality(later) = 0
      BY <1>c, FS_EmptySet
    <2>2. QED
      BY <2>1 DEF Covers
  <1>d. ASSUME hits'[k] = hits[k], later \subseteq since, now - t < Window PROVE Goal
    <2>1. Cardinality(later) \in Nat /\ Cardinality(later) <= Cardinality(since)
      BY <1>d, SinceFinite
    <2> HIDE DEF later, since
    <2>2. Covers(hits[k], Cardinality(later), t)
      BY <1>0, <1>a, <1>b, <1>d, <2>1, CoversFewer
    <2>3. QED
      BY <1>d, <2>2
  <1>1. ASSUME NEW h \in Handlers, Arrive(h) PROVE Goal
    <2>1. PICK key \in Hosts : hits' = [hits EXCEPT ![key] = RecentAt(hits[key], now)]
      BY <1>1, ArriveEffect
    <2>2. now' = now /\ failed' = failed
      BY <1>1 DEF Arrive
    <2>3. hits'[k] = RecentAt(hits[k], now) \/ hits'[k] = hits[k]
      BY <2>1 DEF Lists
    <2>4. later = since /\ now - t < Window
      BY <2>2 DEF FailedSince
    <2>5. CASE hits'[k] = hits[k]
      BY <1>d, <2>4, <2>5
    <2>6. CASE hits'[k] = RecentAt(hits[k], now)
      <3>1. Covers(hits[k], Cardinality(since), t)
        BY <1>b, <2>4
      <3> HIDE DEF since
      <3>2. Covers(RecentAt(hits[k], now), Cardinality(since), t)
        BY <1>0, <1>a, <2>4, <3>1, CoversRecent
      <3>3. QED
        BY <2>4, <2>6, <3>2
    <2>7. QED
      BY <2>3, <2>5, <2>6
  <1>2. ASSUME NEW h \in Handlers, Counts(h) PROVE Goal
    <2>1. PICK kept \in Swept : Added(h, kept)
      BY <1>2, CountsAdds
    <2>2. now' = now /\ now - t < Window
      BY <1>2 DEF Counts
    <2> DEFINE try == Try(calls[h])
    <2>3. /\ failed' \subseteq {f \in failed : f.key \in kept \/ f.key \notin Keys} \cup {try}
          /\ try.key = calls[h].key
      BY <2>1 DEF Added, Try
    <2> HIDE DEF try
    <2>4. k \notin Keys => since = {}
      BY <2>2, NoneRemembered DEF Keys
    <2>5. k \in kept => later \subseteq since \cup {try}
      BY <2>3 DEF FailedSince
    <2>6. k \notin kept => later \subseteq {try}
      BY <2>3, <2>4 DEF FailedSince
    <2>7. k # calls[h].key => try \notin later
      BY <2>3 DEF FailedSince
    <2>8. CASE k # calls[h].key /\ k \in kept
      <3>1. hits'[k] = hits[k]
        BY <2>1, <2>8, AddedTo
      <3>2. QED
        BY <1>d, <2>2, <2>5, <2>7, <2>8, <3>1
    <2>9. CASE k # calls[h].key /\ k \notin kept
      BY <1>c, <2>6, <2>7, <2>9
    <2>10. CASE k = calls[h].key /\ t > now
      <3>1. \A f \in failed' : f.at \in Nat /\ f.at <= now
        BY <2>2 DEF Known
      <3>2. \A f \in failed' : ~(f.at >= t)
        BY <1>0, <2>10, <3>1
      <3>3. later = {}
        BY <3>2 DEF FailedSince
      <3>4. QED
        BY <1>c, <3>3
    <2>11. CASE k = calls[h].key /\ ~(t > now) /\ k \in kept
      <3>1. hits'[k] = Append(RecentAt(hits[k], now), now)
        BY <2>1, <2>11, AddedTo
      <3>2. Cardinality(later) \in Nat /\ Cardinality(later) <= Cardinality(since) + 1
        <4> HIDE DEF later, since
        <4>1. /\ IsFiniteSet(since \cup {try})
              /\ Cardinality(since \cup {try}) = IF try \in since THEN Cardinality(since)
                                                 ELSE Cardinality(since) + 1
          BY <1>a, FS_AddElement
        <4>2. later \in SUBSET (since \cup {try})
          BY <2>5, <2>11
        <4>3. IsFiniteSet(later) /\ Cardinality(later) <= Cardinality(since \cup {try})
          BY <4>1, <4>2, FS_Subset
        <4>4. Cardinality(later) \in Nat
          BY <4>3, FS_CardinalityType
        <4>5. QED
          BY <1>a, <4>1, <4>3, <4>4
      <3>3. Covers(hits[k], Cardinality(since), t)
        BY <1>b, <2>2
      <3> HIDE DEF later, since
      <3>4. Covers(RecentAt(hits[k], now), Cardinality(since), t) /\ Tries(RecentAt(hits[k], now), now)
        BY <1>0, <1>a, <2>2, <3>3, CoversRecent, PrunedTries
      <3>5. t <= now
        BY <1>0, <2>11
      <3>6. Covers(Append(RecentAt(hits[k], now), now), Cardinality(later), t)
        BY <1>0, <1>a, <3>2, <3>4, <3>5, CoversAdded
      <3>7. QED
        BY <3>1, <3>6
    <2>12. CASE k = calls[h].key /\ ~(t > now) /\ k \notin kept
      <3>1. hits'[k] = Append(<<>>, now)
        BY <2>1, <2>12, AddedTo
      <3>2. Cardinality(later) \in Nat /\ Cardinality(later) <= 0 + 1
        <4> HIDE DEF later
        <4>1. IsFiniteSet({try}) /\ Cardinality({try}) = 1 /\ later \in SUBSET {try}
          BY <2>6, <2>12, FS_Singleton
        <4>2. IsFiniteSet(later) /\ Cardinality(later) <= Cardinality({try})
          BY <4>1, FS_Subset
        <4>3. Cardinality(later) \in Nat
          BY <4>2, FS_CardinalityType
        <4>4. QED
          BY <4>1, <4>2, <4>3
      <3>3. Covers(<<>>, 0, t) /\ Tries(<<>>, now) /\ 0 \in Nat
        BY <1>0, NoTries DEF Covers
      <3> HIDE DEF later
      <3>4. t <= now
        BY <1>0, <2>12
      <3>5. Covers(Append(<<>>, now), Cardinality(later), t)
        BY <1>0, <3>2, <3>3, <3>4, CoversAdded
      <3>6. QED
        BY <3>1, <3>5
    <2>13. QED
      BY <2>8, <2>9, <2>10, <2>11, <2>12
  <1>3. ASSUME NEW h \in Handlers, LoginAccepted(h) PROVE Goal
    <2>1. /\ hits' = [hits EXCEPT ![calls[h].key] = <<>>] /\ now' = now
          /\ failed' = {f \in failed : f.key # calls[h].key}
      BY <1>3 DEF LoginAccepted
    <2>2. CASE k = calls[h].key
      <3>1. later = {}
        BY <2>1, <2>2 DEF FailedSince
      <3>2. QED
        BY <1>c, <3>1
    <2>3. CASE k # calls[h].key
      <3>1. hits'[k] = hits[k] /\ later \subseteq since /\ now - t < Window
        BY <2>1, <2>3 DEF FailedSince, Lists
      <3>2. QED
        BY <1>d, <3>1
    <2>4. QED
      BY <2>2, <2>3
  <1>4. ASSUME SaveClientIp \/ Restart PROVE Goal
    <2>1. later = {}
      BY <1>4 DEF SaveClientIp, Restart, FailedSince
    <2>2. QED
      BY <1>c, <2>1
  <1>5. ASSUME Tick PROVE Goal
    <2>1. hits'[k] = hits[k] /\ later \subseteq since /\ now' = now + 1
      BY <1>5 DEF Tick, FailedSince
    <2>2. now - t < Window
      BY <1>0, <2>1, Limits
    <2>3. QED
      BY <1>d, <2>1, <2>2
  <1>6. ASSUME UNCHANGED <<hits, now, failed>> PROVE Goal
    BY <1>6, <1>d DEF FailedSince
  <1>7. Goal
    BY <1>1, <1>2, <1>3, <1>4, <1>5, <1>6 DEF Next, vars, FeedbackUnknown
  <1>8. QED
    BY <1>7

\* A caller's tries are bounded.
LEMMA Bounded == IInv /\ Lists /\ Share /\ Known /\ Counted => TriesBounded
  <1> SUFFICES ASSUME IInv, Lists, Share, Known, Counted, NEW from \in Callers, NEW via \in Routes
               PROVE  Cardinality({f \in failed : f.from = from /\ f.via = via})
                          <= Limit - 1 + Cardinality(Handlers)
    BY DEF TriesBounded
  <1> DEFINE key == Nearest(<<from>> \o via, extra, trust)
             t == now - Window + 1
             since == FailedSince(key, t)
             mine == {f \in failed : f.from = from /\ f.via = via}
             tries == Len(RecentAt(hits[key], now))
  <1>1. key \in Hosts
    <2>1. <<from>> \o via \in Route
      BY RouteOf
    <2>2. QED
      BY <2>1, NearestIsHost DEF IInv
  <1>2. now \in Nat /\ t \in Int /\ now - t < Window
    BY Limits DEF Lists
  <1>3. mine \in SUBSET since
    <2>1. ASSUME NEW f \in mine PROVE f \in failed /\ f.key = key /\ f.at >= t
      <3>1. f.key = key
        BY DEF Known, OnNearest
      <3>2. f.at \in Nat /\ now - f.at < Window
        BY DEF Known
      <3>3. f.at >= t
        BY <1>2, <3>2, Limits
      <3>4. QED
        BY <3>1, <3>3
    <2> HIDE DEF key, t
    <2>2. QED
      BY <2>1 DEF FailedSince
  <1> HIDE DEF key, t, mine
  <1>4. Cardinality(mine) \in Nat /\ Cardinality(since) \in Nat /\ Cardinality(mine) <= Cardinality(since)
    BY <1>3, SinceFinite
  <1>5. Covers(hits[key], Cardinality(since), t) /\ Tries(hits[key], now)
    BY <1>1, <1>2 DEF Counted, Lists
  <1> HIDE DEF since
  <1>6. Covers(RecentAt(hits[key], now), Cardinality(since), t)
    BY <1>2, <1>4, <1>5, CoversRecent
  <1>7. tries \in Nat
    BY <1>1, RecentLen
  <1>8. Cardinality(since) <= tries
    BY <1>4, <1>6, <1>7 DEF Covers
  <1>9. Cardinality(WaitingUnder(key)) \in Nat /\ Cardinality(Handlers) \in Nat
    <2>1. WaitingUnder(key) \in SUBSET Handlers
      BY DEF WaitingUnder
    <2>2. QED
      BY <2>1, SomeHandlers
  <1>10. tries + Cardinality(WaitingUnder(key)) <= Limit - 1 + Cardinality(Handlers)
    BY <1>1 DEF Share
  <1> HIDE DEF tries
  <1>11. Cardinality(mine) <= Limit - 1 + Cardinality(Handlers)
    BY <1>4, <1>7, <1>8, <1>9, <1>10, Limits
  <1>12. QED
    BY <1>11 DEF mine

\* Nothing is counted at first.
LEMMA CountedInit == Init => Share /\ Known /\ Counted
  <1> SUFFICES ASSUME Init PROVE Share /\ Known /\ Counted
    OBVIOUS
  <1>1. /\ now = 0 /\ hits = [k \in Hosts |-> <<>>] /\ failed = {}
        /\ calls = [h \in Handlers |-> Idle]
    BY DEF Init
  <1>2. ASSUME NEW k \in Hosts
        PROVE  Len(RecentAt(hits[k], now)) + Cardinality(WaitingUnder(k)) <= Limit - 1 + Cardinality(Handlers)
    <2>1. RecentAt(hits[k], now) = <<>> /\ Len(<<>>) = 0
      BY <1>1, NoTries, 0 \in Nat
    <2>2. WaitingUnder(k) \in SUBSET Handlers
      BY DEF WaitingUnder
    <2>3. /\ Cardinality(WaitingUnder(k)) \in Nat /\ Cardinality(Handlers) \in Nat
          /\ Cardinality(WaitingUnder(k)) <= Cardinality(Handlers)
      BY <2>2, SomeHandlers
    <2>4. QED
      BY <2>1, <2>3, Limits
  <1>3. \A k, t : FailedSince(k, t) = {}
    BY <1>1 DEF FailedSince
  <1>4. Cardinality({}) = 0 /\ IsFiniteSet({})
    BY FS_EmptySet
  <1>5. Known
    BY <1>1, <1>4 DEF Known, Waiting
  <1>6. Counted
    <2>1. \A k, t : Cardinality(FailedSince(k, t)) = 0
      BY <1>3, <1>4
    <2>2. \A s, t : Covers(s, 0, t)
      BY DEF Covers
    <2>3. QED
      BY <2>1, <2>2 DEF Counted
  <1>7. QED
    BY <1>2, <1>5, <1>6 DEF Share

\* A caller gets one try short of the limit and one per handler, whatever it writes into
\* its headers and however its calls overlap their check (main.py: check, await, count;
\* LoginThrottle.blocked and fail): for every limit, window, number of handlers and route.
THEOREM TriesStayBounded == Spec => []TriesBounded
  <1>1. Init => IInv
    BY DEF Init, IInv, Idle, Held
  <1>2. QED
    BY <1>1, ListsInit, CountedInit, Keyed, ListsNext, ShareNext, KnownNext, CountedNext, Bounded,
       PTL DEF Spec

(***************************************************************************)
(* What a caller who was let in holds: the sessions of module Account, for *)
(* any calls, passwords, secrets and crashes.                              *)
(***************************************************************************)
CONSTANTS Passwords, EnvPassword, Initial, LongEnough, Strong, MaxSecrets
VARIABLES up, password, secret, complete, answering, asked, tokens, signedOut, stops

Accounts == INSTANCE Account WITH calls <- answering, crashes <- stops

\* Secrets are issued in order; a token in a browser was signed with one of them, and
\* the ones that are not signed with the last were there when it was replaced.
Issued ==
    /\ secret \in Nat /\ (up => secret > 0)
    /\ tokens \subseteq Nat /\ signedOut \subseteq Nat
    /\ \A t \in tokens : t <= secret /\ t # 0
    /\ \A t \in signedOut : t < secret
    /\ \A t \in tokens : t # secret => t \in signedOut

\* Every step keeps this.
LEMMA IssuedKept == Issued /\ [Accounts!Next]_(Accounts!vars) => Issued'
  <1> SUFFICES ASSUME Issued, [Accounts!Next]_(Accounts!vars) PROVE Issued'
    OBVIOUS
  <1> USE DEF Issued, Accounts!stored
  <1>1. ASSUME NEW h \in Handlers, NEW call, Accounts!Arrives(h, call) PROVE Issued'
    BY <1>1 DEF Accounts!Arrives
  <1>2. ASSUME NEW h \in Handlers, Accounts!LoginAnswered(h) PROVE Issued'
    <2>1. /\ up /\ UNCHANGED <<up, secret, signedOut>>
          /\ tokens' \subseteq tokens \cup {secret} /\ tokens \subseteq tokens'
      BY <1>2 DEF Accounts!LoginAnswered, Accounts!Looping
    <2>2. QED
      BY <2>1
  <1>3. CASE Accounts!RotateSession
    BY <1>3 DEF Accounts!RotateSession
  <1>4. ASSUME NEW h \in Handlers,
               Accounts!ChangePassword(h) \/ Accounts!SetupSaves(h) \/ Accounts!SetupCloses(h)
        PROVE  Issued'
    <2>1. UNCHANGED <<up, secret, tokens, signedOut>>
      BY <1>4 DEF Accounts!ChangePassword, Accounts!SetupSaves, Accounts!SetupCloses
    <2>2. QED
      BY <2>1
  <1>5. CASE Accounts!Boot
    BY <1>5 DEF Accounts!Boot
  <1>6. CASE Accounts!Crash
    BY <1>6 DEF Accounts!Crash
  <1>7. CASE UNCHANGED Accounts!vars
    BY <1>7 DEF Accounts!vars
  <1>8. QED
    BY <1>1, <1>2, <1>3, <1>4, <1>5, <1>6, <1>7
       DEF Accounts!Next, Accounts!LoginArrives, Accounts!PasswordArrives, Accounts!SetupArrives

\* Signing everyone out is exact (main.py:1941-1944, rotate_session): for any number of
\* rotations, logins and restarts, a token is accepted unless it was there at the last
\* rotation.
THEOREM SigningOutIsExact == Accounts!Spec => []Accounts!SignOutExact
  <1>1. Accounts!Init => Issued
    BY DEF Accounts!Init, Issued
  <1>2. Issued => Accounts!SignOutExact
    BY DEF Issued, Accounts!SignOutExact, Accounts!verify
  <1>3. QED
    BY <1>1, <1>2, IssuedKept, PTL DEF Accounts!Spec

(***************************************************************************)
(* Subscription.  First ORDER BY and the list comprehension: an element's  *)
(* rank is its place, and a part of a list keeps the list's order.         *)
(***************************************************************************)
\* before is a strict total order on S, told by what comes before each element.
Orders(before, S) ==
    /\ before \in [S -> SUBSET S]
    /\ \A n \in S : n \notin before[n] /\ \A m \in before[n] : before[m] \subseteq before[n]
    /\ \A m, n \in S : m # n => m \in before[n] \/ n \in before[m]

\* In a finite total order every place is taken by exactly one element.
LEMMA RankIsPlace ==
    ASSUME NEW S, IsFiniteSet(S), NEW before, Orders(before, S)
    PROVE  /\ \A i \in 1..Cardinality(S) : \E n \in S : Cardinality(before[n]) = i - 1
           /\ \A n \in S : Cardinality(before[n]) + 1 \in 1..Cardinality(S)
           /\ \A m, n \in S : m \in before[n] <=> Cardinality(before[m]) < Cardinality(before[n])
  <1> DEFINE N == Cardinality(S)
             rank == [n \in S |-> Cardinality(before[n])]
  <1>1. N \in Nat
    BY FS_CardinalityType
  <1>2. ASSUME NEW n \in S
        PROVE  IsFiniteSet(before[n]) /\ Cardinality(before[n]) \in Nat /\ Cardinality(before[n]) < N
    <2>1. before[n] \in SUBSET S /\ before[n] # S
      BY DEF Orders
    <2>2. IsFiniteSet(before[n]) /\ Cardinality(before[n]) <= N
      BY <2>1, FS_Subset
    <2>3. Cardinality(before[n]) # N
      BY <2>1, FS_Subset
    <2>4. Cardinality(before[n]) \in Nat
      BY <2>2, FS_CardinalityType
    <2>5. QED
      BY <1>1, <2>2, <2>3, <2>4
  <1>3. ASSUME NEW n \in S, NEW m \in before[n]
        PROVE  Cardinality(before[m]) < Cardinality(before[n])
    <2>1. m \in S /\ before[m] \in SUBSET before[n] /\ before[m] # before[n]
      BY DEF Orders
    <2>2. /\ Cardinality(before[m]) <= Cardinality(before[n])
          /\ Cardinality(before[m]) # Cardinality(before[n])
      BY <1>2, <2>1, FS_Subset
    <2>3. QED
      BY <1>2, <2>1, <2>2
  <1>4. \A m, n \in S : m \in before[n] <=> Cardinality(before[m]) < Cardinality(before[n])
    <2>1. SUFFICES ASSUME NEW m \in S, NEW n \in S, Cardinality(before[m]) < Cardinality(before[n])
                   PROVE  m \in before[n]
      BY <1>3
    <2>2. m # n
      BY <1>2, <2>1
    <2>3. n \notin before[m]
      BY <1>2, <1>3, <2>1
    <2>4. QED
      BY <2>2, <2>3 DEF Orders
  <1>5. rank \in Injection(S, 0..(N - 1))
    <2>1. rank \in [S -> 0..(N - 1)]
      BY <1>1, <1>2
    <2>2. ASSUME NEW m \in S, NEW n \in S, rank[m] = rank[n] PROVE m = n
      <3>1. m \notin before[n] /\ n \notin before[m]
        BY <1>2, <1>3, <2>2
      <3>2. QED
        BY <3>1 DEF Orders
    <2>3. QED
      BY <2>1, <2>2 DEF Injection, IsInjective
  <1>6. rank \in Surjection(S, 0..(N - 1))
    <2>1. IsFiniteSet(0..(N - 1)) /\ Cardinality(0..(N - 1)) = N
      BY <1>1, FS_Interval
    <2>2. QED
      BY <1>5, <2>1, FS_Injection
  <1>7. ASSUME NEW i \in 1..N PROVE \E n \in S : Cardinality(before[n]) = i - 1
    <2>1. i - 1 \in 0..(N - 1)
      BY <1>1
    <2>2. PICK n \in S : rank[n] = i - 1
      BY <1>6, <2>1 DEF Surjection
    <2>3. QED
      BY <2>2
  <1>8. QED
    BY <1>1, <1>2, <1>4, <1>7

\* Ranked lists each element of S once, in its order.
LEMMA RankedLists ==
    ASSUME NEW S, IsFiniteSet(S), NEW before, Orders(before, S)
    PROVE  /\ Ranked(S, before) \in Seq(S)
           /\ Len(Ranked(S, before)) = Cardinality(S)
           /\ \A n \in S : \E i \in 1..Cardinality(S) : Ranked(S, before)[i] = n
           /\ \A i, j \in 1..Cardinality(S) :
                i < j => Ranked(S, before)[i] \in before[Ranked(S, before)[j]]
  <1> DEFINE N == Cardinality(S)
             list == Ranked(S, before)
  <1>1. N \in Nat
    BY FS_CardinalityType
  <1>2. ASSUME NEW i \in 1..N
        PROVE  list[i] \in S /\ Cardinality(before[list[i]]) = i - 1
    <2>1. \E n \in S : Cardinality(before[n]) = i - 1
      BY RankIsPlace
    <2>2. list[i] = CHOOSE n \in S : Cardinality(before[n]) = i - 1
      BY DEF Ranked
    <2>3. QED
      BY <2>1, <2>2
  <1>3. list \in [1..N -> S]
    <2>1. DOMAIN list = 1..N /\ list = [i \in 1..N |-> list[i]]
      BY DEF Ranked
    <2>2. QED
      BY <1>2, <2>1
  <1>4. list \in Seq(S) /\ Len(list) = N
    BY <1>1, <1>3, SeqDef, LenProperties
  <1>5. ASSUME NEW n \in S PROVE \E i \in 1..N : list[i] = n
    <2>1. Cardinality(before[n]) + 1 \in 1..N
      BY RankIsPlace
    <2> DEFINE i == Cardinality(before[n]) + 1
    <2>2. Cardinality(before[list[i]]) = i - 1 /\ list[i] \in S
      BY <1>2, <2>1
    <2> DEFINE rank == Cardinality(before[n])
    <2>3. rank \in Int
      <3>1. before[n] \in SUBSET S
        BY DEF Orders
      <3>2. QED
        BY <3>1, FS_Subset, FS_CardinalityType
    <2>4. Cardinality(before[list[i]]) = rank
      BY <2>2, <2>3
    <2>5. list[i] \notin before[n] /\ n \notin before[list[i]]
      BY <2>2, <2>3, <2>4, RankIsPlace
    <2>6. list[i] = n
      BY <2>2, <2>5 DEF Orders
    <2>7. QED
      BY <2>1, <2>6
  <1>6. ASSUME NEW i \in 1..N, NEW j \in 1..N, i < j
        PROVE  list[i] \in before[list[j]]
    <2>1. /\ list[i] \in S /\ list[j] \in S
          /\ Cardinality(before[list[i]]) < Cardinality(before[list[j]])
      BY <1>1, <1>2, <1>6
    <2>2. QED
      BY <2>1, RankIsPlace
  <1>7. QED
    BY <1>4, <1>5, <1>6

\* A function on 1..n is a sequence of length n.
LEMMA FunctionIsSeq ==
    ASSUME NEW X, NEW n \in Nat, NEW f \in [1..n -> X]
    PROVE  f \in Seq(X) /\ Len(f) = n /\ DOMAIN f = 1..n
  <1>1. f \in Seq(X)
    BY SeqDef
  <1>2. Len(f) \in Nat /\ DOMAIN f = 1..Len(f) /\ DOMAIN f = 1..n
    BY <1>1, LenProperties
  <1>3. Len(f) = n
    BY <1>2
  <1>4. QED
    BY <1>1, <1>2, <1>3

\* The places of s that Only(T, s) keeps, and the list of them in order.
Places(T, s) == {i \in 1..Len(s) : s[i] \in T}
Picks(at, T, s) ==
    /\ at \in [1..Len(Only(T, s)) -> Places(T, s)]
    /\ \A k \in 1..Len(Only(T, s)) : Only(T, s)[k] = s[at[k]]
    /\ \A i, j \in 1..Len(Only(T, s)) : i < j => at[i] < at[j]
    /\ \A p \in Places(T, s) : \E k \in 1..Len(Only(T, s)) : at[k] = p

\* The places are a finite set of positions.
LEMMA PlacesFinite ==
    ASSUME NEW X, NEW s \in Seq(X), NEW T
    PROVE  /\ Len(s) \in Nat /\ Places(T, s) \in SUBSET (1..Len(s))
           /\ IsFiniteSet(Places(T, s)) /\ Cardinality(Places(T, s)) \in Nat
           /\ Cardinality(Places(T, s)) <= Len(s)
  <1>1. Len(s) \in Nat
    BY LenProperties
  <1>2. IsFiniteSet(1..Len(s)) /\ Cardinality(1..Len(s)) = Len(s)
    BY <1>1, FS_Interval
  <1>3. Places(T, s) \in SUBSET (1..Len(s))
    BY DEF Places
  <1>4. QED
    BY <1>1, <1>2, <1>3, FS_Subset, FS_CardinalityType

\* Only keeps the elements of T, all of them and in their order.
LEMMA OnlyLists ==
    ASSUME NEW X, NEW s \in Seq(X), NEW T
    PROVE  /\ Only(T, s) \in Seq(X)
           /\ Only(T, s) \in Seq(T)
           /\ Len(Only(T, s)) = Cardinality(Places(T, s))
           /\ \E at : Picks(at, T, s)
  <1> DEFINE places == Places(T, s)
             before == [i \in places |-> {j \in places : j < i}]
             at == Ranked(places, before)
             N == Cardinality(places)
  <1>1. DOMAIN s = 1..Len(s) /\ Len(s) \in Nat /\ \A i \in 1..Len(s) : s[i] \in X
    BY LenProperties, ElementOfSeq
  <1>2. IsFiniteSet(places) /\ N \in Nat /\ places \in SUBSET (1..Len(s))
    BY PlacesFinite
  <1>3. Only(T, s) = [k \in DOMAIN at |-> s[at[k]]]
    BY <1>1 DEF Only, Places
  <1>4. \A i \in places : s[i] \in X /\ s[i] \in T
    BY <1>1 DEF Places
  <1> HIDE DEF places
  <1>5. Orders(before, places)
    <2>1. places \subseteq Int
      BY <1>1, <1>2
    <2>2. before \in [places -> SUBSET places]
      OBVIOUS
    <2>3. \A n \in places : n \notin before[n]
      BY <2>1
    <2>4. ASSUME NEW n \in places, NEW m \in before[n], NEW k \in before[m] PROVE k \in before[n]
      <3>1. m \in places /\ m < n
        OBVIOUS
      <3>2. k \in places /\ k < m
        BY <3>1
      <3>3. k < n
        BY <2>1, <3>1, <3>2
      <3>4. QED
        BY <3>2, <3>3
    <2>5. \A m, n \in places : m # n => m \in before[n] \/ n \in before[m]
      BY <2>1
    <2>6. QED
      BY <2>2, <2>3, <2>4, <2>5 DEF Orders
  <1> HIDE DEF before
  <1>6. /\ at \in Seq(places) /\ Len(at) = N
        /\ \A n \in places : \E i \in 1..N : at[i] = n
        /\ \A i, j \in 1..N : i < j => at[i] \in before[at[j]]
    BY <1>2, <1>5, RankedLists
  <1> HIDE DEF at
  <1>7. DOMAIN at = 1..N /\ at \in [1..N -> places]
    BY <1>6, LenProperties
  <1>8. Only(T, s) \in [1..N -> X] /\ Only(T, s) \in [1..N -> T]
    BY <1>3, <1>4, <1>7
  <1>9. Only(T, s) \in Seq(X) /\ Only(T, s) \in Seq(T) /\ Len(Only(T, s)) = N
    BY <1>2, <1>8, FunctionIsSeq
  <1>10. \A i, j \in 1..N : i < j => at[i] < at[j]
    BY <1>6, <1>7 DEF before
  <1>11. \A k \in 1..N : Only(T, s)[k] = s[at[k]]
    BY <1>3, <1>7
  <1>12. Picks(at, T, s)
    BY <1>6, <1>7, <1>9, <1>10, <1>11 DEF Picks, places
  <1>13. QED
    BY <1>9, <1>12 DEF places

\* Each element of Only(T, s) is an element of s in T; the list is no longer than s.
LEMMA OnlyFrom ==
    ASSUME NEW X, NEW s \in Seq(X), NEW T
    PROVE  /\ Only(T, s) \in Seq(X) /\ Len(Only(T, s)) \in Nat /\ Len(Only(T, s)) <= Len(s)
           /\ \A k \in 1..Len(Only(T, s)) :
                Only(T, s)[k] \in T /\ \E i \in 1..Len(s) : s[i] = Only(T, s)[k]
  <1>1. PICK at : Picks(at, T, s)
    BY OnlyLists
  <1>2. ASSUME NEW k \in 1..Len(Only(T, s))
        PROVE  Only(T, s)[k] \in T /\ \E i \in 1..Len(s) : s[i] = Only(T, s)[k]
    BY <1>1 DEF Picks, Places
  <1>3. QED
    BY <1>2, OnlyLists, PlacesFinite

\* Each element of s in T is an element of Only(T, s).
LEMMA OnlyAll ==
    ASSUME NEW X, NEW s \in Seq(X), NEW T, NEW i \in 1..Len(s), s[i] \in T
    PROVE  \E k \in 1..Len(Only(T, s)) : Only(T, s)[k] = s[i]
  <1>1. PICK at : Picks(at, T, s)
    BY OnlyLists
  <1>2. i \in Places(T, s)
    BY DEF Places
  <1>3. QED
    BY <1>1, <1>2 DEF Picks

\* A list without duplicates stays one.
Once(s) == \A i, j \in 1..Len(s) : s[i] = s[j] => i = j

\* A part of a list without repetitions has none.
LEMMA OnlyOnce ==
    ASSUME NEW X, NEW s \in Seq(X), NEW T, Once(s)
    PROVE  Once(Only(T, s))
  <1> DEFINE list == Only(T, s)
  <1>1. PICK at : Picks(at, T, s)
    BY OnlyLists
  <1>2. /\ at \in [1..Len(list) -> 1..Len(s)]
        /\ \A k \in 1..Len(list) : list[k] = s[at[k]]
        /\ \A i, j \in 1..Len(list) : i < j => at[i] < at[j]
    BY <1>1 DEF Picks, Places
  <1>3. Len(list) \in Nat /\ Len(s) \in Nat
    BY OnlyFrom, LenProperties
  <1> HIDE DEF list
  <1>4. SUFFICES ASSUME NEW i \in 1..Len(list), NEW j \in 1..Len(list), list[i] = list[j]
                 PROVE  i = j
    BY DEF list, Once
  <1>5. at[i] = at[j] /\ at[i] \in Int
    BY <1>2, <1>3, <1>4, SMTT(20) DEF Once
  <1>6. ~(i < j) /\ ~(j < i)
    BY <1>2, <1>5
  <1>7. QED
    BY <1>3, <1>6

\* Row-major places: what \div and % say of them.
LEMMA DivMod ==
    ASSUME NEW L \in Nat \ {0}, NEW i \in Nat
    PROVE  i = L * (i \div L) + (i % L) /\ i % L \in 0..(L - 1) /\ i \div L \in Nat
  OBVIOUS

\* Two different rows of n entries do not overlap.
LEMMA RowsApart ==
    ASSUME NEW L \in Nat \ {0}, NEW a \in Int, NEW b \in Int, a < b
    PROVE  L * a + L <= L * b
  OBVIOUS

\* Quotient and remainder are the only such pair.
LEMMA DivModUnique ==
    ASSUME NEW L \in Nat \ {0}, NEW a \in Nat, NEW r \in 0..(L - 1), NEW c \in Nat, NEW q \in 0..(L - 1),
           L * a + r = L * c + q
    PROVE  a = c /\ r = q
  <1>1. ~(a < c)
    BY RowsApart
  <1>2. ~(c < a)
    BY RowsApart
  <1>3. QED
    BY <1>1, <1>2

\* A later place is in no earlier row.
LEMMA RowsInOrder ==
    ASSUME NEW L \in Nat \ {0}, NEW a \in Int, NEW b \in 1..L, NEW c \in Int, NEW d \in 1..L,
           NEW i \in Int, NEW j \in Int, i < j,
           i - 1 = L * (a - 1) + (b - 1), j - 1 = L * (c - 1) + (d - 1)
    PROVE  a <= c
  <1>1. SUFFICES ASSUME c - 1 < a - 1 PROVE FALSE
    OBVIOUS
  <1>2. L * (c - 1) + L <= L * (a - 1)
    BY <1>1, RowsApart
  <1> DEFINE x == L * (c - 1)
             y == L * (a - 1)
  <1>3. x \in Int /\ y \in Int /\ x + L <= y /\ i - 1 = y + (b - 1) /\ j - 1 = x + (d - 1)
    BY <1>2
  <1> HIDE DEF x, y
  <1>4. QED
    BY <1>3

\* The row and the column of each entry of Product(ns, ps).
Tiles(row, col, ns, ps) ==
    /\ row \in [1..Len(Product(ns, ps)) -> 1..Len(ns)]
    /\ col \in [1..Len(Product(ns, ps)) -> 1..Len(ps)]
    /\ \A i \in 1..Len(Product(ns, ps)) :
         Product(ns, ps)[i] = [node |-> ns[row[i]], profile |-> ps[col[i]]]
    /\ \A i, j \in 1..Len(Product(ns, ps)) : i < j => row[i] <= row[j]
    /\ \A i, j \in 1..Len(Product(ns, ps)) : row[i] = row[j] /\ col[i] = col[j] => i = j
    /\ \A a \in 1..Len(ns), b \in 1..Len(ps) :
         \E i \in 1..Len(Product(ns, ps)) : row[i] = a /\ col[i] = b

\* Product lists every pair, row by row.
LEMMA ProductLists ==
    ASSUME NEW X, NEW Y, NEW ns \in Seq(X), NEW ps \in Seq(Y)
    PROVE  /\ Product(ns, ps) \in Seq([node : X, profile : Y])
           /\ Len(Product(ns, ps)) = Len(ns) * Len(ps)
           /\ \E row, col : Tiles(row, col, ns, ps)
  <1> DEFINE M == Len(ns)
             L == Len(ps)
             list == Product(ns, ps)
             row == [i \in 1..(M * L) |-> ((i - 1) \div L) + 1]
             col == [i \in 1..(M * L) |-> ((i - 1) % L) + 1]
  <1>1. M \in Nat /\ L \in Nat /\ (\A a \in 1..M : ns[a] \in X) /\ (\A b \in 1..L : ps[b] \in Y)
    BY LenProperties, ElementOfSeq
  <1>2. list = [i \in 1..(M * L) |-> [node |-> ns[row[i]], profile |-> ps[col[i]]]]
    BY DEF Product
  <1> HIDE DEF M, L, list
  <1>3. M * L \in Nat
    BY <1>1
  <1>4. ASSUME NEW i \in 1..(M * L)
        PROVE  /\ L \in Nat \ {0} /\ i - 1 \in Nat
               /\ row[i] \in 1..M /\ col[i] \in 1..L
               /\ i - 1 = L * (row[i] - 1) + (col[i] - 1)
    <2>1. L \in Nat \ {0} /\ i - 1 \in Nat
      BY <1>1, <1>4
    <2> DEFINE d == (i - 1) \div L
               m == (i - 1) % L
    <2>2. i - 1 = L * d + m /\ m \in 0..(L - 1) /\ d \in Nat
      BY <2>1, DivMod
    <2>3. row[i] = d + 1 /\ col[i] = m + 1
      OBVIOUS
    <2> HIDE DEF d, m
    <2>4. d < M
      <3>1. SUFFICES ASSUME M <= d PROVE FALSE
        BY <1>1, <2>2
      <3>2. L * M <= L * d
        <4>1. CASE M = d
          BY <1>1, <2>1, <2>2, <4>1
        <4>2. CASE M < d
          BY <1>1, <2>1, <2>2, <4>2, RowsApart
        <4>3. QED
          BY <1>1, <2>2, <3>1, <4>1, <4>2
      <3>3. L * M = M * L /\ i - 1 < M * L
        BY <1>1, <1>3, <1>4
      <3>4. QED
        BY <1>1, <2>1, <2>2, <3>2, <3>3
    <2>5. QED
      BY <1>1, <2>1, <2>2, <2>3, <2>4
  <1>5. list \in [1..(M * L) -> [node : X, profile : Y]]
    <2> HIDE DEF row, col
    <2>1. QED
      BY <1>1, <1>2, <1>4
  <1>6. list \in Seq([node : X, profile : Y]) /\ Len(list) = M * L
    BY <1>3, <1>5, FunctionIsSeq
  <1>7. row \in [1..(M * L) -> 1..M] /\ col \in [1..(M * L) -> 1..L]
    BY <1>4
  <1> HIDE DEF row, col
  <1>8. \A i \in 1..(M * L) : list[i] = [node |-> ns[row[i]], profile |-> ps[col[i]]]
    BY <1>2
  <1>9. ASSUME NEW i \in 1..(M * L), NEW j \in 1..(M * L), i < j PROVE row[i] <= row[j]
    <2>1. /\ L \in Nat \ {0} /\ row[i] \in Int /\ row[j] \in Int /\ col[i] \in 1..L /\ col[j] \in 1..L
          /\ i \in Int /\ j \in Int
          /\ i - 1 = L * (row[i] - 1) + (col[i] - 1)
      BY <1>1, <1>4, <1>7
    <2>2. j - 1 = L * (row[j] - 1) + (col[j] - 1)
      BY <1>4
    <2>3. QED
      BY <1>9, <2>1, <2>2, RowsInOrder
  <1>10. ASSUME NEW i \in 1..(M * L), NEW j \in 1..(M * L), row[i] = row[j], col[i] = col[j] PROVE i = j
    <2>1. i - 1 = j - 1
      BY <1>4, <1>10
    <2>2. QED
      BY <1>3, <2>1
  <1>11. ASSUME NEW a \in 1..M, NEW b \in 1..L PROVE \E i \in 1..(M * L) : row[i] = a /\ col[i] = b
    <2> DEFINE x == L * (a - 1)
               i == x + b
    <2>1. L \in Nat \ {0} /\ a - 1 \in Nat /\ b - 1 \in 0..(L - 1) /\ x \in Nat
      BY <1>1
    <2>2. x + L <= M * L
      <3>1. CASE a - 1 < M - 1
        <4>1. L * (a - 1) + L <= L * (M - 1)
          BY <1>1, <2>1, <3>1, RowsApart
        <4>2. QED
          BY <1>1, <2>1, <4>1
      <3>2. CASE a = M
        BY <1>1, <2>1, <3>2
      <3>3. QED
        BY <1>1, <3>1, <3>2
    <2>3. i \in 1..(M * L)
      <3> HIDE DEF x
      <3>1. QED
        BY <1>1, <1>3, <2>1, <2>2
    <2>4. /\ row[i] - 1 \in Nat /\ col[i] - 1 \in 0..(L - 1)
          /\ L * (row[i] - 1) + (col[i] - 1) = L * (a - 1) + (b - 1)
      <3>1. i - 1 = L * (row[i] - 1) + (col[i] - 1) /\ row[i] \in 1..M /\ col[i] \in 1..L
        BY <1>4, <2>3
      <3>2. i - 1 = L * (a - 1) + (b - 1)
        BY <2>1
      <3> HIDE DEF i
      <3>3. QED
        BY <1>1, <3>1, <3>2, SMTT(20)
    <2> HIDE DEF i
    <2> DEFINE c == row[i] - 1
               q == col[i] - 1
    <2>5. c = a - 1 /\ q = b - 1
      <3>1. c \in Nat /\ q \in 0..(L - 1) /\ L * (a - 1) + (b - 1) = L * c + q
        BY <2>4
      <3> HIDE DEF c, q
      <3>2. QED
        BY <2>1, <3>1, DivModUnique
    <2>6. row[i] = a /\ col[i] = b
      BY <1>1, <1>7, <2>3, <2>5
    <2>7. QED
      BY <2>3, <2>6
  <1>12. Tiles(row, col, ns, ps)
    BY <1>6, <1>7, <1>8, <1>9, <1>10, <1>11 DEF Tiles, list, M, L
  <1>13. QED
    BY <1>6, <1>12 DEF list, M, L

\* The nodes table holds typed rows.
Rows == nodes \in [Nodes -> Row]

\* The keys of ORDER BY are numbers and end with the name.
LEMMA KeysAreInts ==
    ASSUME Rows, NEW n \in Nodes
    PROVE  /\ SortKey(n)[1] \in Int /\ SortKey(n)[2] \in Int /\ SortKey(n)[3] \in Int
           /\ SortKey(n)[4] = n /\ n \in Int
  <1>1. nodes[n].latency = Null \/ nodes[n].latency \in Int
    BY PingsAreInt DEF Rows, Row
  <1>2. n \in Int
    BY OriginIsANode
  <1>3. QED
    BY <1>1, <1>2 DEF SortKey

\* Sooner, spelt out for keys of four integers.
LEMMA SoonerIsLexical ==
    ASSUME NEW m, NEW n
    PROVE  LET a == SortKey(m) b == SortKey(n)
           IN  Sooner(m, n) <=> \/ a[1] < b[1]
                                \/ a[1] = b[1] /\ a[2] < b[2]
                                \/ a[1] = b[1] /\ a[2] = b[2] /\ a[3] < b[3]
                                \/ a[1] = b[1] /\ a[2] = b[2] /\ a[3] = b[3] /\ a[4] < b[4]
  <1> DEFINE a == SortKey(m)
             b == SortKey(n)
  <1>1. Sooner(m, n) <=> \E i \in 1..4 : a[i] < b[i] /\ \A j \in 1..(i - 1) : a[j] = b[j]
    BY DEF Sooner
  <1> HIDE DEF a, b
  <1>2. /\ 1..4 = {1, 2, 3, 4} /\ 1..0 = {} /\ 1..1 = {1} /\ 1..2 = {1, 2} /\ 1..3 = {1, 2, 3}
        /\ 1 - 1 = 0 /\ 2 - 1 = 1 /\ 3 - 1 = 2 /\ 4 - 1 = 3
    OBVIOUS
  <1>3. (\E i \in 1..4 : a[i] < b[i] /\ \A j \in 1..(i - 1) : a[j] = b[j])
        <=> \/ a[1] < b[1] /\ \A j \in {} : a[j] = b[j]
            \/ a[2] < b[2] /\ \A j \in {1} : a[j] = b[j]
            \/ a[3] < b[3] /\ \A j \in {1, 2} : a[j] = b[j]
            \/ a[4] < b[4] /\ \A j \in {1, 2, 3} : a[j] = b[j]
    BY <1>2
  <1>4. QED
    BY <1>1, <1>3 DEF a, b

\* ORDER BY is a strict total order on the rows: two rows never tie, since the name decides.
LEMMA SoonerOrders ==
    ASSUME Rows, NEW S \in SUBSET Nodes
    PROVE  Orders([n \in S |-> {m \in S : Sooner(m, n)}], S)
  <1> DEFINE before == [n \in S |-> {m \in S : Sooner(m, n)}]
  <1>1. ASSUME NEW n \in S PROVE ~Sooner(n, n)
    BY KeysAreInts, SoonerIsLexical
  <1>2. ASSUME NEW k \in S, NEW m \in S, NEW n \in S, Sooner(k, m), Sooner(m, n) PROVE Sooner(k, n)
    <2> DEFINE a == SortKey(k)
               b == SortKey(m)
               c == SortKey(n)
    <2>1. /\ a[1] \in Int /\ a[2] \in Int /\ a[3] \in Int /\ a[4] \in Int
          /\ b[1] \in Int /\ b[2] \in Int /\ b[3] \in Int /\ b[4] \in Int
          /\ c[1] \in Int /\ c[2] \in Int /\ c[3] \in Int /\ c[4] \in Int
      BY KeysAreInts
    <2>2. Sooner(k, m) /\ Sooner(m, n)
      BY <1>2
    <2>3. QED
      BY <2>1, <2>2, SoonerIsLexical
  <1>3. ASSUME NEW m \in S, NEW n \in S, m # n PROVE Sooner(m, n) \/ Sooner(n, m)
    <2> DEFINE a == SortKey(m)
               b == SortKey(n)
    <2>1. /\ a[1] \in Int /\ a[2] \in Int /\ a[3] \in Int /\ a[4] \in Int
          /\ b[1] \in Int /\ b[2] \in Int /\ b[3] \in Int /\ b[4] \in Int
          /\ a[4] # b[4]
      BY <1>3, KeysAreInts
    <2>2. QED
      BY <2>1, SoonerIsLexical
  <1>4. before \in [S -> SUBSET S] /\ \A n \in S : n \notin before[n]
    BY <1>1
  <1>5. ASSUME NEW n \in S, NEW m \in before[n], NEW k \in before[m] PROVE k \in before[n]
    BY <1>2
  <1>6. QED
    BY <1>3, <1>4, <1>5 DEF Orders

\* No later element of the list would come sooner.
Sorted(s) == \A i, j \in 1..Len(s) : i < j => Sooner(s[i], s[j])

\* Nothing is in a sorted list twice.
LEMMA SortedOnce ==
    ASSUME Rows, NEW s \in Seq(Nodes), Sorted(s)
    PROVE  Once(s)
  <1>1. Len(s) \in Nat /\ \A i \in 1..Len(s) : s[i] \in Nodes
    BY LenProperties, ElementOfSeq
  <1>2. ASSUME NEW n \in Nodes PROVE ~Sooner(n, n)
    BY KeysAreInts, SoonerIsLexical
  <1>3. SUFFICES ASSUME NEW i \in 1..Len(s), NEW j \in 1..Len(s), s[i] = s[j] PROVE i = j
    BY DEF Once
  <1>4. ~(i < j) /\ ~(j < i)
    BY <1>1, <1>2, <1>3 DEF Sorted
  <1>5. QED
    BY <1>1, <1>4

\* A part of a sorted list is sorted.
LEMMA OnlySorted ==
    ASSUME NEW s \in Seq(Nodes), NEW T, Sorted(s)
    PROVE  Sorted(Only(T, s))
  <1> DEFINE list == Only(T, s)
  <1>1. PICK at : Picks(at, T, s)
    BY OnlyLists
  <1>2. /\ at \in [1..Len(list) -> 1..Len(s)]
        /\ \A k \in 1..Len(list) : list[k] = s[at[k]]
        /\ \A i, j \in 1..Len(list) : i < j => at[i] < at[j]
    BY <1>1 DEF Picks, Places
  <1>3. \A i, j \in 1..Len(list) : i < j => Sooner(list[i], list[j])
    <2> HIDE DEF list
    <2>1. QED
      BY <1>2, SMTT(20) DEF Sorted
  <1>4. QED
    BY <1>3 DEF Sorted

\* What of a slice no failed probe rules out.
Good(scope) == {n \in Slice(scope) : ~Failed(n) \/ n = Origin}

\* active_nodes(): rows of the slice, in order; all that are good and, when there is
\* one, only those.
LEMMA ActiveNodesAre ==
    ASSUME Rows, NEW scope
    PROVE  /\ ActiveNodes(scope) \in Seq(Nodes)
           /\ Len(ActiveNodes(scope)) <= Cardinality(Nodes)
           /\ Sorted(ActiveNodes(scope))
           /\ \A i \in 1..Len(ActiveNodes(scope)) : ActiveNodes(scope)[i] \in Slice(scope)
           /\ Good(scope) # {} =>
                \A i \in 1..Len(ActiveNodes(scope)) : ActiveNodes(scope)[i] \in Good(scope)
           /\ \A n \in Good(scope) : \E i \in 1..Len(ActiveNodes(scope)) : ActiveNodes(scope)[i] = n
  <1> DEFINE slice == Slice(scope)
             before == [n \in slice |-> {m \in slice : Sooner(m, n)}]
             rows == Ranked(slice, before)
             fine == {n \in Nodes : ~Failed(n) \/ n = Origin}
             keep == Only(fine, rows)
             list == ActiveNodes(scope)
  <1>1. list = IF keep # <<>> THEN keep ELSE SubSeq(rows, 1, IF rows = <<>> THEN 0 ELSE 1)
    BY DEF ActiveNodes
  <1>2. slice \in SUBSET Nodes /\ Good(scope) = {n \in slice : n \in fine}
    BY DEF Slice, Good
  <1>3. IsFiniteSet(slice) /\ Cardinality(slice) <= Cardinality(Nodes) /\ Cardinality(slice) \in Nat
        /\ Cardinality(Nodes) \in Nat
    BY <1>2, OriginIsANode, FS_Subset, FS_CardinalityType
  <1> HIDE DEF slice, fine
  <1>4. Orders(before, slice)
    BY <1>2, SoonerOrders
  <1>5. /\ rows \in Seq(slice) /\ Len(rows) = Cardinality(slice)
        /\ \A n \in slice : \E i \in 1..Cardinality(slice) : rows[i] = n
        /\ \A i, j \in 1..Cardinality(slice) : i < j => rows[i] \in before[rows[j]]
    <2> HIDE DEF before
    <2>1. QED
      BY <1>3, <1>4, RankedLists
  <1> HIDE DEF rows
  <1>6. rows \in Seq(Nodes) /\ \A i \in 1..Len(rows) : rows[i] \in slice
    BY <1>2, <1>5, SeqMonotonic, ElementOfSeq
  <1>7. Sorted(rows)
    BY <1>5, <1>6 DEF Sorted
  <1> HIDE DEF keep, before
  <1>8. /\ keep \in Seq(Nodes) /\ Len(keep) \in Nat /\ Len(keep) <= Len(rows)
        /\ \A k \in 1..Len(keep) : keep[k] \in fine /\ \E i \in 1..Len(rows) : rows[i] = keep[k]
    BY <1>6, OnlyFrom DEF keep
  <1>9. \A i \in 1..Len(rows) : rows[i] \in fine => \E k \in 1..Len(keep) : keep[k] = rows[i]
    BY <1>6, OnlyAll DEF keep
  <1>10. \A n \in Good(scope) : \E k \in 1..Len(keep) : keep[k] = n
    BY <1>2, <1>5, <1>9
  <1>11. \A k \in 1..Len(keep) : keep[k] \in Good(scope)
    BY <1>2, <1>6, <1>8
  <1>12. CASE keep # <<>>
    <2>1. list = keep
      BY <1>1, <1>12
    <2>2. Sorted(keep)
      BY <1>6, <1>7, OnlySorted DEF keep
    <2>3. \A k \in 1..Len(keep) : keep[k] \in slice
      BY <1>6, <1>8
    <2> HIDE DEF list
    <2>4. QED
      BY <1>3, <1>5, <1>8, <1>10, <1>11, <2>1, <2>2, <2>3 DEF list, slice
  <1>13. CASE keep = <<>>
    <2>1. Good(scope) = {}
      <3>1. Len(keep) = 0
        BY <1>13, EmptySeq
      <3>2. QED
        BY <1>10, <3>1
    <2>2. CASE rows = <<>>
      <3>1. list = <<>>
        BY <1>1, <1>13, <2>2, SubSeqEmpty
      <3>2. list \in Seq(Nodes) /\ Len(list) = 0
        BY <3>1, EmptySeq
      <3> HIDE DEF list
      <3>3. QED
        BY <1>3, <2>1, <3>2 DEF list, Sorted
    <2>3. CASE rows # <<>>
      <3>1. list = SubSeq(rows, 1, 1)
        BY <1>1, <1>13, <2>3
      <3>2. Len(rows) \in Nat \ {0}
        BY <1>6, <2>3, EmptySeq
      <3>3. \A i \in 1..1 : rows[i] \in Nodes
        BY <1>6, <3>2, ElementOfSeq
      <3>4. list \in Seq(Nodes) /\ Len(list) = 1 /\ \A i \in 1..1 : list[i] = rows[1 + i - 1]
        BY <3>1, <3>3, SubSeqProperties
      <3> HIDE DEF list
      <3>5. \A i \in 1..Len(list) : list[i] \in slice
        BY <1>6, <3>2, <3>4
      <3>6. Sorted(list)
        BY <3>4 DEF Sorted
      <3>7. QED
        BY <1>3, <1>5, <2>1, <3>2, <3>4, <3>5, <3>6 DEF list, slice
    <2>4. QED
      BY <2>2, <2>3
  <1>14. QED
    BY <1>12, <1>13

\* What a list holds, through each of the operators lists are made with.
Has(s, e) == \E i \in 1..Len(s) : s[i] = e

\* Only(T, s) has the elements of s that are in T.
LEMMA OnlyHas ==
    ASSUME NEW X, NEW s \in Seq(X), NEW T, NEW e
    PROVE  Has(Only(T, s), e) <=> Has(s, e) /\ e \in T
  <1>1. ASSUME Has(Only(T, s), e) PROVE Has(s, e) /\ e \in T
    BY <1>1, OnlyFrom DEF Has
  <1>2. ASSUME Has(s, e), e \in T PROVE Has(Only(T, s), e)
    BY <1>2, OnlyAll DEF Has
  <1>3. QED
    BY <1>1, <1>2

\* A concatenation has what its parts have.
LEMMA ConcatHas ==
    ASSUME NEW X, NEW s \in Seq(X), NEW t \in Seq(X), NEW e
    PROVE  Has(s \o t, e) <=> Has(s, e) \/ Has(t, e)
  <1>1. /\ Len(s) \in Nat /\ Len(t) \in Nat /\ Len(s \o t) = Len(s) + Len(t)
        /\ \A i \in 1..(Len(s) + Len(t)) : (s \o t)[i] = IF i <= Len(s) THEN s[i] ELSE t[i - Len(s)]
    BY ConcatProperties, LenProperties
  <1>2. ASSUME NEW i \in 1..Len(s \o t), (s \o t)[i] = e PROVE Has(s, e) \/ Has(t, e)
    <2>1. CASE i <= Len(s)
      BY <1>1, <1>2, <2>1 DEF Has
    <2>2. CASE Len(s) < i
      <3>1. i - Len(s) \in 1..Len(t) /\ t[i - Len(s)] = e
        BY <1>1, <1>2, <2>2
      <3>2. QED
        BY <3>1 DEF Has
    <2>3. QED
      BY <1>1, <2>1, <2>2
  <1>3. ASSUME NEW i \in 1..Len(s), s[i] = e PROVE Has(s \o t, e)
    BY <1>1, <1>3 DEF Has
  <1>4. ASSUME NEW i \in 1..Len(t), t[i] = e PROVE Has(s \o t, e)
    <2> DEFINE k == i + Len(s)
    <2>1. k \in 1..(Len(s) + Len(t)) /\ k - Len(s) = i /\ ~(k <= Len(s))
      BY <1>1
    <2>2. (s \o t)[k] = e
      BY <1>1, <1>4, <2>1
    <2>3. QED
      BY <1>1, <2>1, <2>2 DEF Has
  <1>5. QED
    BY <1>2, <1>3, <1>4 DEF Has

\* Two lists without repetitions or common elements make one without repetitions.
LEMMA ConcatOnce ==
    ASSUME NEW X, NEW s \in Seq(X), NEW t \in Seq(X), Once(s), Once(t),
           \A e \in X : ~(Has(s, e) /\ Has(t, e))
    PROVE  Once(s \o t)
  <1>1. /\ Len(s) \in Nat /\ Len(t) \in Nat /\ Len(s \o t) = Len(s) + Len(t)
        /\ \A i \in 1..(Len(s) + Len(t)) : (s \o t)[i] = IF i <= Len(s) THEN s[i] ELSE t[i - Len(s)]
    BY ConcatProperties, LenProperties
  <1>2. SUFFICES ASSUME NEW i \in 1..(Len(s) + Len(t)), NEW j \in 1..(Len(s) + Len(t)),
                        (s \o t)[i] = (s \o t)[j]
                 PROVE  i = j
    BY <1>1 DEF Once
  <1>3. ASSUME NEW k \in 1..Len(s), NEW l \in 1..Len(t) PROVE s[k] # t[l]
    <2>1. s[k] \in X /\ Has(s, s[k]) /\ Has(t, t[l])
      BY ElementOfSeq DEF Has
    <2>2. QED
      BY <2>1
  <1>4. ASSUME NEW k \in 1..(Len(s) + Len(t)), Len(s) < k
        PROVE  k - Len(s) \in 1..Len(t) /\ (s \o t)[k] = t[k - Len(s)]
    BY <1>1, <1>4
  <1>5. ASSUME NEW k \in 1..(Len(s) + Len(t)), k <= Len(s)
        PROVE  k \in 1..Len(s) /\ (s \o t)[k] = s[k]
    BY <1>1, <1>5
  <1>6. CASE i <= Len(s) /\ j <= Len(s)
    BY <1>2, <1>5, <1>6 DEF Once
  <1>7. CASE Len(s) < i /\ Len(s) < j
    <2>1. i - Len(s) = j - Len(s)
      BY <1>2, <1>4, <1>7 DEF Once
    <2>2. QED
      BY <1>1, <2>1
  <1>8. CASE i <= Len(s) /\ Len(s) < j
    BY <1>2, <1>3, <1>4, <1>5, <1>8
  <1>9. CASE Len(s) < i /\ j <= Len(s)
    BY <1>2, <1>3, <1>4, <1>5, <1>9
  <1>10. QED
    BY <1>1, <1>6, <1>7, <1>8, <1>9

\* The product has every pair of an element of each list.
LEMMA ProductHas ==
    ASSUME NEW X, NEW Y, NEW ns \in Seq(X), NEW ps \in Seq(Y)
    PROVE  /\ \A n, p : Has(ns, n) /\ Has(ps, p) => Has(Product(ns, ps), [node |-> n, profile |-> p])
           /\ \A e : Has(Product(ns, ps), e) => /\ e = [node |-> e.node, profile |-> e.profile]
                                                /\ Has(ns, e.node) /\ Has(ps, e.profile)
  <1>1. PICK row, col : Tiles(row, col, ns, ps)
    BY ProductLists
  <1>2. ASSUME NEW a \in 1..Len(ns), NEW b \in 1..Len(ps)
        PROVE  Has(Product(ns, ps), [node |-> ns[a], profile |-> ps[b]])
    BY <1>1 DEF Tiles, Has
  <1>3. ASSUME NEW i \in 1..Len(Product(ns, ps))
        PROVE  \E a \in 1..Len(ns), b \in 1..Len(ps) : Product(ns, ps)[i] = [node |-> ns[a], profile |-> ps[b]]
    <2>1. /\ row[i] \in 1..Len(ns) /\ col[i] \in 1..Len(ps)
          /\ Product(ns, ps)[i] = [node |-> ns[row[i]], profile |-> ps[col[i]]]
      BY <1>1 DEF Tiles
    <2>2. QED
      BY <2>1
  <1>4. ASSUME NEW n, NEW p, Has(ns, n), Has(ps, p)
        PROVE  Has(Product(ns, ps), [node |-> n, profile |-> p])
    BY <1>2, <1>4 DEF Has
  <1>5. ASSUME NEW e, Has(Product(ns, ps), e)
        PROVE  e = [node |-> e.node, profile |-> e.profile] /\ Has(ns, e.node) /\ Has(ps, e.profile)
    <2>1. PICK a \in 1..Len(ns), b \in 1..Len(ps) : e = [node |-> ns[a], profile |-> ps[b]]
      BY <1>3, <1>5 DEF Has
    <2>2. e.node = ns[a] /\ e.profile = ps[b]
      BY <2>1
    <2>3. QED
      BY <2>1, <2>2 DEF Has
  <1>6. QED
    BY <1>4, <1>5

\* The product of lists without repetitions has none.
LEMMA ProductOnce ==
    ASSUME NEW X, NEW Y, NEW ns \in Seq(X), NEW ps \in Seq(Y), Once(ns), Once(ps)
    PROVE  Once(Product(ns, ps))
  <1> DEFINE list == Product(ns, ps)
  <1>1. PICK row, col : Tiles(row, col, ns, ps)
    BY ProductLists
  <1>2. SUFFICES ASSUME NEW i \in 1..Len(list), NEW j \in 1..Len(list), list[i] = list[j] PROVE i = j
    BY DEF Once
  <1>3. /\ row[i] \in 1..Len(ns) /\ row[j] \in 1..Len(ns) /\ col[i] \in 1..Len(ps) /\ col[j] \in 1..Len(ps)
        /\ list[i] = [node |-> ns[row[i]], profile |-> ps[col[i]]]
        /\ list[j] = [node |-> ns[row[j]], profile |-> ps[col[j]]]
    BY <1>1 DEF Tiles
  <1>4. ns[row[i]] = ns[row[j]] /\ ps[col[i]] = ps[col[j]]
    <2>1. list[i].node = ns[row[i]] /\ list[j].node = ns[row[j]]
          /\ list[i].profile = ps[col[i]] /\ list[j].profile = ps[col[j]]
      BY <1>3
    <2>2. QED
      BY <1>2, <2>1
  <1>5. row[i] = row[j] /\ col[i] = col[j]
    BY <1>3, <1>4 DEF Once
  <1>6. QED
    BY <1>1, <1>5 DEF Tiles

\* The catalog of profiles.
LEMMA TableIs ==
    /\ Table \in Seq(Profiles) /\ Len(Table) = 6 /\ Once(Table)
    /\ \A p \in Profiles : Has(Table, p)
    /\ Cardinality(Profiles) = 6
  <1>1. DOMAIN Table = 1..6 /\ Len(Table) = 6
    BY DEF Table
  <1>2. Profiles = {Table[i] : i \in 1..6}
    BY <1>1 DEF Profiles, ToSet
  <1>3. Table \in Seq(Profiles)
    <2>1. Table = [i \in 1..6 |-> Table[i]]
      BY DEF Table
    <2>2. Table \in [1..6 -> Profiles]
      BY <1>2, <2>1
    <2>3. QED
      BY <2>2, FunctionIsSeq
  <1>4. Once(Table)
    <2>1. \A i, j \in 1..6 : Table[i].id = Table[j].id => i = j
      BY DEF Table
    <2>2. QED
      BY <1>1, <2>1 DEF Once
  <1>5. \A p \in Profiles : Has(Table, p)
    BY <1>1, <1>2 DEF Has
  <1>6. Cardinality(Profiles) = 6
    <2>1. Table \in [1..6 -> Profiles]
      BY <1>1, <1>3, LenProperties
    <2>2. Table \in Bijection(1..6, Profiles)
      BY <1>1, <1>4, <1>5, <2>1 DEF Bijection, Injection, Surjection, IsInjective, Once, Has
    <2>3. QED
      BY <2>2, FS_CountingElements DEF ExistsBijection
  <1>7. QED
    BY <1>1, <1>3, <1>4, <1>5, <1>6

\* A product is as long as the product of the lengths.
LEMMA ProductSize ==
    ASSUME NEW ns \in Seq(Nodes), NEW ps \in Seq(Profiles)
    PROVE  Product(ns, ps) \in Seq(Pair) /\ Len(Product(ns, ps)) = Len(ns) * Len(ps)
  <1>1. /\ Product(ns, ps) \in Seq([node : Nodes, profile : Profiles])
        /\ Len(Product(ns, ps)) = Len(ns) * Len(ps)
        /\ \E row, col : Tiles(row, col, ns, ps)
    BY ProductLists, Zenon
  <1>2. QED
    BY <1>1 DEF Pair

\* A shorter list of rows makes a shorter table.
LEMMA TimesMonotone ==
    ASSUME NEW a \in Nat, NEW m \in Nat, NEW n \in Nat, m <= n
    PROVE  m * a <= n * a /\ m * a \in Nat /\ n * a \in Nat
  OBVIOUS

\* Every profile is of one of the groups entry_pairs() tells apart.
LEMMA GroupsPart ==
    ASSUME NEW p \in Profiles
    PROVE  /\ p \in PerNode <=> p.group \in {"edge", "direct"}
           /\ p \in OfGroup({"hy2"}) <=> p.group = "hy2"
           /\ p \in OfGroup({"core"}) <=> p.group = "core"
           /\ p.group \in {"edge", "direct", "hy2", "core"}
  <1>1. \A i \in 1..6 : Table[i].group \in {"edge", "direct", "hy2", "core"}
    BY DEF Table
  <1>2. PICK i \in 1..6 : p = Table[i]
    BY TableIs DEF Has
  <1>3. QED
    BY <1>1, <1>2 DEF PerNode, OfGroup, Extras

\* Disjoint sets count together.
LEMMA DisjointSum ==
    ASSUME NEW S, NEW T, IsFiniteSet(S), IsFiniteSet(T), S \cap T = {}
    PROVE  /\ IsFiniteSet(S \cup T)
           /\ Cardinality(S \cup T) = Cardinality(S) + Cardinality(T)
  <1>1. Cardinality(S \cap T) = 0
    BY FS_EmptySet
  <1>2. Cardinality(S) \in Nat /\ Cardinality(T) \in Nat
    BY FS_CardinalityType
  <1>3. IsFiniteSet(S \cup T) /\ Cardinality(S \cup T) = Cardinality(S) + Cardinality(T) - Cardinality(S \cap T)
    BY FS_Union
  <1>4. QED
    BY <1>1, <1>2, <1>3

\* A list of profiles parts into the three kinds of entries.
LEMMA PartsFit ==
    ASSUME NEW s \in Seq(Profiles)
    PROVE  Len(Only(PerNode, s)) + Len(Only(OfGroup({"hy2"}), s)) + Len(Only(OfGroup({"core"}), s)) <= Len(s)
  <1> DEFINE A == Places(PerNode, s)
             B == Places(OfGroup({"hy2"}), s)
             C == Places(OfGroup({"core"}), s)
  <1>1. /\ Len(Only(PerNode, s)) = Cardinality(A)
        /\ Len(Only(OfGroup({"hy2"}), s)) = Cardinality(B)
        /\ Len(Only(OfGroup({"core"}), s)) = Cardinality(C)
    BY OnlyLists
  <1>2. /\ Len(s) \in Nat
        /\ A \in SUBSET (1..Len(s)) /\ B \in SUBSET (1..Len(s)) /\ C \in SUBSET (1..Len(s))
        /\ IsFiniteSet(A) /\ IsFiniteSet(B) /\ IsFiniteSet(C)
        /\ Cardinality(A) \in Nat /\ Cardinality(B) \in Nat /\ Cardinality(C) \in Nat
    BY PlacesFinite
  <1>3. A \cap B = {} /\ (A \cup B) \cap C = {}
    <2>1. ASSUME NEW i \in 1..Len(s) PROVE s[i] \in Profiles
      BY ElementOfSeq
    <2>2. QED
      BY <2>1, GroupsPart DEF Places
  <1> HIDE DEF A, B, C
  <1>4. IsFiniteSet(A \cup B) /\ Cardinality(A \cup B) = Cardinality(A) + Cardinality(B)
    BY <1>2, <1>3, DisjointSum
  <1>5. Cardinality((A \cup B) \cup C) = Cardinality(A) + Cardinality(B) + Cardinality(C)
    BY <1>2, <1>3, <1>4, DisjointSum
  <1>6. Cardinality((A \cup B) \cup C) <= Len(s)
    <2>1. (A \cup B) \cup C \in SUBSET (1..Len(s))
      BY <1>2
    <2>2. Len(s) \in Nat
      BY <1>2
    <2>3. IsFiniteSet(1..Len(s)) /\ Cardinality(1..Len(s)) = Len(s)
      BY <2>2, FS_Interval
    <2>4. QED
      BY <2>1, <2>3, FS_Subset
  <1>7. QED
    BY <1>1, <1>2, <1>5, <1>6

\* available_profiles(): each available profile the user may use, once.
LEMMA AvailableProfilesAre ==
    ASSUME NEW protocols
    PROVE  /\ AvailableProfiles(protocols) \in Seq(Profiles)
           /\ Len(AvailableProfiles(protocols)) <= 6
           /\ Once(AvailableProfiles(protocols))
           /\ \A p : Has(AvailableProfiles(protocols), p)
                <=> p \in Profiles /\ Available(p) /\ (p.protocol \in protocols \/ p.group = "hy2")
  <1> DEFINE T == {p \in Profiles : Available(p) /\ (p.protocol \in protocols \/ p.group = "hy2")}
             list == AvailableProfiles(protocols)
  <1>1. list = Only(T, Table)
    BY DEF AvailableProfiles
  <1>2. \A p : p \in T <=> p \in Profiles /\ Available(p) /\ (p.protocol \in protocols \/ p.group = "hy2")
    OBVIOUS
  <1> HIDE DEF T, list
  <1>3. list \in Seq(Profiles) /\ Len(list) <= 6
    BY <1>1, TableIs, OnlyFrom
  <1>4. Once(list)
    BY <1>1, TableIs, OnlyOnce
  <1>5. \A p : Has(list, p) <=> Has(Table, p) /\ p \in T
    BY <1>1, TableIs, OnlyHas
  <1>6. QED
    BY <1>2, <1>3, <1>4, <1>5, TableIs DEF list

\* profiles_for(): nothing that is not available, nothing twice.
LEMMA ProfilesForAre ==
    ASSUME NEW target \in Targets, NEW protocols, ProfilesFor(target, protocols) # Null
    PROVE  /\ ProfilesFor(target, protocols) \in Seq(Profiles)
           /\ Len(ProfilesFor(target, protocols)) <= 6
           /\ Once(ProfilesFor(target, protocols))
           /\ \A p : Has(ProfilesFor(target, protocols), p) => p \in Profiles /\ Available(p)
  <1> DEFINE list == ProfilesFor(target, protocols)
  <1>1. CASE target \in Ids
    <2> DEFINE exact == CHOOSE p \in Profiles : p.id = target
    <2>1. exact \in Profiles
      BY <1>1 DEF Ids
    <2>2. list = <<exact>> /\ Available(exact)
      BY <1>1 DEF ProfilesFor
    <2> HIDE DEF exact, list
    <2>3. <<exact>> \in Seq(Profiles) /\ Len(<<exact>>) = 1 /\ <<exact>>[1] = exact
      BY <2>1
    <2>4. QED
      BY <2>1, <2>2, <2>3 DEF Once, Has, list
  <1>2. CASE target \notin Ids /\ target \in PROTOCOLS
    <2> DEFINE T == {p \in Profiles : p.protocol = target}
    <2>1. list = Only(T, AvailableProfiles(protocols))
      BY <1>2 DEF ProfilesFor
    <2>2. AvailableProfiles(protocols) \in Seq(Profiles) /\ Len(AvailableProfiles(protocols)) <= 6
      BY AvailableProfilesAre
    <2> HIDE DEF T, list
    <2>3. list \in Seq(Profiles) /\ Len(list) <= Len(AvailableProfiles(protocols)) /\ Len(list) \in Nat
          /\ Len(AvailableProfiles(protocols)) \in Nat
      BY <2>1, <2>2, OnlyFrom, LenProperties
    <2>4. Once(list)
      BY <2>1, AvailableProfilesAre, OnlyOnce
    <2>5. \A p : Has(list, p) => Has(AvailableProfiles(protocols), p)
      BY <2>1, <2>2, OnlyHas
    <2>6. QED
      BY <2>2, <2>3, <2>4, <2>5, AvailableProfilesAre DEF list
  <1>3. CASE target \notin Ids /\ target \notin PROTOCOLS
    <2>1. list = AvailableProfiles(protocols)
      BY <1>3 DEF ProfilesFor
    <2>2. QED
      BY <2>1, AvailableProfilesAre
  <1>4. QED
    BY <1>1, <1>2, <1>3

\* The smart link asks for every available profile.
LEMMA SmartIsWhole ==
    ASSUME NEW protocols
    PROVE  ProfilesFor("auto", protocols) = AvailableProfiles(protocols)
  <1>1. \A i \in 1..6 : Table[i].id # "auto"
    BY DEF Table
  <1>2. "auto" \notin Ids
    BY <1>1, TableIs DEF Ids, Has
  <1>3. QED
    BY <1>2 DEF ProfilesFor, PROTOCOLS

\* The list entry_pairs() builds before it takes the cap.
SharedPart(ps) == Product(<<Origin>>, Only(OfGroup({"hy2"}), ps))
HostedPart(u, ps) == IF Matches(Origin, u.scope) THEN Product(<<Origin>>, Only(OfGroup({"core"}), ps)) ELSE <<>>
ExtraPart(u, ps, extras) == IF extras THEN SharedPart(ps) \o HostedPart(u, ps) ELSE <<>>
Entries(u, ns, ps, extras) == Product(ns, Only(PerNode, ps)) \o ExtraPart(u, ps, extras)

\* What belongs into it.
Belongs(e, u, ns, ps, extras) ==
    /\ e \in Pair /\ Has(ps, e.profile)
    /\ \/ e.profile \in PerNode /\ Has(ns, e.node)
       \/ extras /\ e.profile.group = "hy2" /\ e.node = Origin
       \/ extras /\ e.profile.group = "core" /\ e.node = Origin /\ Matches(Origin, u.scope)

\* entry_pairs() is the whole list, or its first cap entries.
LEMMA EntryPairsCut ==
    ASSUME NEW u, NEW ns, NEW ps, NEW extras
    PROVE  EntryPairs(u, ns, ps, extras) =
             IF u.cap = 0 \/ u.cap > Len(Entries(u, ns, ps, extras)) THEN Entries(u, ns, ps, extras)
             ELSE SubSeq(Entries(u, ns, ps, extras), 1, u.cap)
  BY DEF EntryPairs, Entries, ExtraPart, SharedPart, HostedPart

\* One group of profiles on the origin.
LEMMA OnOrigin ==
    ASSUME NEW ps \in Seq(Profiles), NEW T
    PROVE  /\ Product(<<Origin>>, Only(T, ps)) \in Seq(Pair)
           /\ Len(Product(<<Origin>>, Only(T, ps))) = Len(Only(T, ps))
           /\ \A e : Has(Product(<<Origin>>, Only(T, ps)), e)
                <=> e \in Pair /\ e.node = Origin /\ Has(ps, e.profile) /\ e.profile \in T
           /\ Once(ps) => Once(Product(<<Origin>>, Only(T, ps)))
  <1> DEFINE own == <<Origin>>
             some == Only(T, ps)
             list == Product(own, some)
  <1>1. own \in Seq(Nodes) /\ Len(own) = 1 /\ own[1] = Origin
    BY OriginIsANode
  <1>2. some \in Seq(Profiles) /\ Len(some) \in Nat
    BY OnlyFrom
  <1>3. \A n : Has(own, n) <=> n = Origin
    BY <1>1 DEF Has
  <1>4. \A p : Has(some, p) <=> Has(ps, p) /\ p \in T
    BY OnlyHas
  <1>5. Once(own)
    BY <1>1 DEF Once
  <1>6. Once(ps) => Once(some)
    BY OnlyOnce
  <1> HIDE DEF own, some
  <1>7. list \in Seq(Pair) /\ Len(list) = Len(some)
    <2>1. list \in Seq(Pair) /\ Len(list) = Len(own) * Len(some)
      BY <1>1, <1>2, ProductSize
    <2>2. 1 * Len(some) = Len(some)
      BY <1>2
    <2>3. QED
      BY <1>1, <2>1, <2>2
  <1>8. ASSUME NEW e PROVE Has(list, e) <=> e \in Pair /\ e.node = Origin /\ Has(some, e.profile)
    <2>1. ASSUME Has(list, e) PROVE e \in Pair /\ e.node = Origin /\ Has(some, e.profile)
      <3>1. e \in Pair
        BY <1>7, <2>1, ElementOfSeq DEF Has
      <3>2. Has(own, e.node) /\ Has(some, e.profile)
        BY <1>1, <1>2, <2>1, ProductHas
      <3>3. QED
        BY <1>3, <3>1, <3>2
    <2>2. ASSUME e \in Pair, e.node = Origin, Has(some, e.profile) PROVE Has(list, e)
      <3>1. e = [node |-> e.node, profile |-> e.profile]
        BY <2>2 DEF Pair
      <3>2. Has(own, e.node)
        BY <1>3, <2>2
      <3>3. Has(list, [node |-> e.node, profile |-> e.profile])
        BY <1>1, <1>2, <2>2, <3>2, ProductHas
      <3>4. QED
        BY <3>1, <3>3
    <2>3. QED
      BY <2>1, <2>2
  <1>9. Once(ps) => Once(list)
    BY <1>1, <1>2, <1>5, <1>6, ProductOnce
  <1>10. QED
    BY <1>2, <1>4, <1>7, <1>8, <1>9 DEF own, some

\* The entries that are not tied to the list of nodes.
LEMMA ExtrasAre ==
    ASSUME NEW u, NEW ps \in Seq(Profiles), NEW extras \in BOOLEAN
    PROVE  /\ ExtraPart(u, ps, extras) \in Seq(Pair)
           /\ Len(ExtraPart(u, ps, extras)) <= Len(Only(OfGroup({"hy2"}), ps)) + Len(Only(OfGroup({"core"}), ps))
           /\ \A e : Has(ExtraPart(u, ps, extras), e)
                <=> /\ extras /\ e \in Pair /\ e.node = Origin /\ Has(ps, e.profile)
                    /\ \/ e.profile.group = "hy2"
                       \/ e.profile.group = "core" /\ Matches(Origin, u.scope)
           /\ Once(ps) => Once(ExtraPart(u, ps, extras))
  <1> DEFINE shared == SharedPart(ps)
             hosted == HostedPart(u, ps)
             list == ExtraPart(u, ps, extras)
             b == Len(Only(OfGroup({"hy2"}), ps))
             c == Len(Only(OfGroup({"core"}), ps))
  <1>1. b \in Nat /\ c \in Nat
    BY OnlyFrom
  <1>2. /\ shared \in Seq(Pair) /\ Len(shared) = b
        /\ \A e : Has(shared, e) <=> /\ e \in Pair /\ e.node = Origin /\ Has(ps, e.profile)
                                     /\ e.profile \in OfGroup({"hy2"})
        /\ Once(ps) => Once(shared)
    BY OnOrigin DEF SharedPart
  <1>3. /\ <<>> \in Seq(Pair) /\ Len(<<>>) = 0 /\ Once(<<>>) /\ \A e : ~Has(<<>>, e)
    BY EmptySeq DEF Once, Has
  <1>4. /\ hosted \in Seq(Pair) /\ Len(hosted) <= c
        /\ \A e : Has(hosted, e) <=> /\ e \in Pair /\ e.node = Origin /\ Has(ps, e.profile)
                                     /\ e.profile \in OfGroup({"core"}) /\ Matches(Origin, u.scope)
        /\ Once(ps) => Once(hosted)
    <2>1. CASE Matches(Origin, u.scope)
      <3>1. hosted = Product(<<Origin>>, Only(OfGroup({"core"}), ps))
        BY <2>1 DEF HostedPart
      <3> HIDE DEF hosted
      <3>2. QED
        BY <1>1, <2>1, <3>1, OnOrigin
    <2>2. CASE ~Matches(Origin, u.scope)
      <3>1. hosted = <<>>
        BY <2>2 DEF HostedPart
      <3> HIDE DEF hosted
      <3>2. QED
        BY <1>1, <1>3, <2>2, <3>1
    <2>3. QED
      BY <2>1, <2>2
  <1>5. list = IF extras THEN shared \o hosted ELSE <<>>
    BY DEF ExtraPart
  <1> HIDE DEF shared, hosted, list, b, c
  <1>6. \A e \in Pair : /\ e.profile \in OfGroup({"hy2"}) <=> e.profile.group = "hy2"
                        /\ e.profile \in OfGroup({"core"}) <=> e.profile.group = "core"
    <2>1. \A e \in Pair : e.profile \in Profiles
      BY DEF Pair
    <2>2. QED
      BY <2>1, GroupsPart
  <1>7. CASE extras
    <2>1. list = shared \o hosted
      BY <1>5, <1>7
    <2>2. list \in Seq(Pair) /\ Len(list) <= b + c
      <3>1. Len(list) = Len(shared) + Len(hosted) /\ Len(hosted) \in Nat /\ list \in Seq(Pair)
        BY <1>2, <1>4, <2>1, ConcatProperties, LenProperties
      <3>2. QED
        BY <1>1, <1>2, <1>4, <3>1
    <2>3. \A e : Has(list, e) <=> Has(shared, e) \/ Has(hosted, e)
      BY <1>2, <1>4, <2>1, ConcatHas
    <2>4. \A e : Has(list, e) <=> /\ e \in Pair /\ e.node = Origin /\ Has(ps, e.profile)
                                  /\ \/ e.profile.group = "hy2"
                                     \/ e.profile.group = "core" /\ Matches(Origin, u.scope)
      BY <1>2, <1>4, <1>6, <2>3
    <2>5. \A e \in Pair : ~(Has(shared, e) /\ Has(hosted, e))
      BY <1>2, <1>4, <1>6
    <2>6. Once(ps) => Once(list)
      BY <1>2, <1>4, <2>1, <2>5, ConcatOnce
    <2>7. QED
      BY <1>7, <2>2, <2>4, <2>6 DEF list, b, c
  <1>8. CASE ~extras
    <2>1. list = <<>>
      BY <1>5, <1>8
    <2>2. QED
      BY <1>1, <1>3, <1>8, <2>1 DEF list, b, c
  <1>9. QED
    BY <1>7, <1>8

\* No entry of a node stands behind one that should come later.
InNodeOrder(es) ==
    \A i, j \in 1..Len(es) :
        i < j /\ es[i].profile \in PerNode /\ es[j].profile \in PerNode => ~Sooner(es[j].node, es[i].node)

\* The order of the nodes has no cycles.
LEMMA NeverBack ==
    ASSUME Rows, NEW m \in Nodes, NEW n \in Nodes, m = n \/ Sooner(m, n)
    PROVE  ~Sooner(n, m)
  <1> DEFINE a == SortKey(m)
             b == SortKey(n)
  <1>1. /\ a[1] \in Int /\ a[2] \in Int /\ a[3] \in Int /\ a[4] \in Int
        /\ b[1] \in Int /\ b[2] \in Int /\ b[3] \in Int /\ b[4] \in Int
    BY KeysAreInts
  <1>2. QED
    BY <1>1, SoonerIsLexical

\* The entries of sorted nodes, node by node, are in the order of the nodes.
LEMMA ProductInOrder ==
    ASSUME Rows, NEW ns \in Seq(Nodes), NEW ps \in Seq(Profiles), Sorted(ns),
           NEW i \in 1..Len(Product(ns, ps)), NEW j \in 1..Len(Product(ns, ps)), i < j
    PROVE  ~Sooner(Product(ns, ps)[j].node, Product(ns, ps)[i].node)
  <1> DEFINE list == Product(ns, ps)
  <1>1. PICK row, col : Tiles(row, col, ns, ps)
    BY ProductLists
  <1>2. /\ row[i] \in 1..Len(ns) /\ row[j] \in 1..Len(ns) /\ row[i] <= row[j]
        /\ list[i] = [node |-> ns[row[i]], profile |-> ps[col[i]]]
        /\ list[j] = [node |-> ns[row[j]], profile |-> ps[col[j]]]
    BY <1>1 DEF Tiles
  <1>3. list[i].node = ns[row[i]] /\ list[j].node = ns[row[j]]
    BY <1>2
  <1>4. ns[row[i]] \in Nodes /\ ns[row[j]] \in Nodes
    BY <1>2, ElementOfSeq
  <1>5. row[i] = row[j] \/ row[i] < row[j]
    BY <1>2, LenProperties
  <1>6. ns[row[i]] = ns[row[j]] \/ Sooner(ns[row[i]], ns[row[j]])
    BY <1>2, <1>5 DEF Sorted
  <1>7. QED
    BY <1>3, <1>4, <1>6, NeverBack

\* The whole list: what it holds, how long it is, in which order, and nothing twice.
LEMMA EntriesAre ==
    ASSUME NEW u, NEW ns \in Seq(Nodes), NEW ps \in Seq(Profiles), NEW extras \in BOOLEAN
    PROVE  /\ Entries(u, ns, ps, extras) \in Seq(Pair)
           /\ Len(ns) <= Cardinality(Nodes) /\ Len(ps) <= 6
                => Len(Entries(u, ns, ps, extras)) <= Cardinality(Nodes) * 6
           /\ \A e : Has(Entries(u, ns, ps, extras), e) <=> Belongs(e, u, ns, ps, extras)
           /\ Once(ns) /\ Once(ps) => Once(Entries(u, ns, ps, extras))
           /\ Rows /\ Sorted(ns) => InNodeOrder(Entries(u, ns, ps, extras))
  <1> DEFINE some == Only(PerNode, ps)
             main == Product(ns, some)
             more == ExtraPart(u, ps, extras)
             list == Entries(u, ns, ps, extras)
             a == Len(some)
             b == Len(Only(OfGroup({"hy2"}), ps))
             c == Len(Only(OfGroup({"core"}), ps))
  <1>1. some \in Seq(Profiles) /\ a \in Nat /\ b \in Nat /\ c \in Nat
    BY OnlyFrom
  <1>2. \A p : Has(some, p) <=> Has(ps, p) /\ p \in PerNode
    BY OnlyHas
  <1>3. Once(ps) => Once(some)
    BY OnlyOnce
  <1>4. a + b + c <= Len(ps) /\ Len(ps) \in Nat /\ Len(ns) \in Nat
    BY PartsFit, LenProperties
  <1>5. /\ more \in Seq(Pair) /\ Len(more) <= b + c
        /\ \A e : Has(more, e)
                <=> /\ extras /\ e \in Pair /\ e.node = Origin /\ Has(ps, e.profile)
                    /\ \/ e.profile.group = "hy2"
                       \/ e.profile.group = "core" /\ Matches(Origin, u.scope)
        /\ Once(ps) => Once(more)
    BY ExtrasAre
  <1>6. list = main \o more
    BY DEF Entries
  <1> HIDE DEF some, more, list, b, c
  <1>7. main \in Seq(Pair) /\ Len(main) = Len(ns) * a
    BY <1>1, ProductSize
  <1>8. \A e : Has(main, e) <=> /\ e \in Pair /\ Has(ps, e.profile)
                                /\ e.profile \in PerNode /\ Has(ns, e.node)
    <2>1. ASSUME NEW e, Has(main, e)
          PROVE  e \in Pair /\ Has(ps, e.profile) /\ e.profile \in PerNode /\ Has(ns, e.node)
      <3>1. e \in Pair
        BY <1>7, <2>1, ElementOfSeq DEF Has
      <3>2. Has(ns, e.node) /\ Has(some, e.profile)
        BY <1>1, <2>1, ProductHas
      <3>3. QED
        BY <1>2, <3>1, <3>2
    <2>2. ASSUME NEW e \in Pair, Has(ps, e.profile), e.profile \in PerNode, Has(ns, e.node)
          PROVE  Has(main, e)
      <3>1. e = [node |-> e.node, profile |-> e.profile]
        BY DEF Pair
      <3>2. Has(some, e.profile)
        BY <1>2, <2>2
      <3>3. Has(main, [node |-> e.node, profile |-> e.profile])
        BY <1>1, <2>2, <3>2, ProductHas
      <3>4. QED
        BY <3>1, <3>3
    <2>3. QED
      BY <2>1, <2>2
  <1>9. Once(ns) /\ Once(ps) => Once(main)
    BY <1>1, <1>3, ProductOnce
  <1>10. ASSUME Rows, Sorted(ns), NEW i \in 1..Len(main), NEW j \in 1..Len(main), i < j
         PROVE  ~Sooner(main[j].node, main[i].node)
    BY <1>1, <1>10, ProductInOrder
  <1> HIDE DEF main, a
  <1>11. /\ list \in Seq(Pair) /\ Len(list) = Len(main) + Len(more)
         /\ Len(main) \in Nat /\ Len(more) \in Nat
         /\ \A i \in 1..(Len(main) + Len(more)) :
              list[i] = IF i <= Len(main) THEN main[i] ELSE more[i - Len(main)]
    BY <1>5, <1>6, <1>7, ConcatProperties, LenProperties
  <1>12. ASSUME Len(ns) <= Cardinality(Nodes), Len(ps) <= 6
         PROVE  Len(list) <= Cardinality(Nodes) * 6
    <2> DEFINE K == Cardinality(Nodes)
    <2>1. K \in Nat /\ K >= 1
      <3>1. K \in Nat /\ K # 0
        BY OriginIsANode, FS_CardinalityType, FS_EmptySet
      <3>2. QED
        BY <3>1
    <2> HIDE DEF K
    <2>2. Len(list) <= Len(ns) * a + b + c
      <3>1. Len(ns) * a \in Nat
        BY <1>1, <1>4
      <3>2. QED
        BY <1>1, <1>5, <1>7, <1>11, <3>1
    <2>3. Len(ns) * a <= K * a /\ Len(ns) * a \in Nat /\ K * a \in Nat
      BY <1>1, <1>4, <1>12, <2>1, TimesMonotone DEF K
    <2>4. b + c <= K * (b + c) /\ K * (b + c) \in Nat
      BY <1>1, <2>1
    <2>5. K * a + K * (b + c) = K * (a + b + c)
      BY <1>1, <2>1
    <2>6. K * (a + b + c) <= K * 6 /\ K * (a + b + c) \in Nat /\ K * 6 \in Nat
      <3>1. a + b + c \in 0..6
        BY <1>1, <1>4, <1>12
      <3>2. QED
        BY <2>1, <3>1
    <2>7. Len(list) <= K * 6
      BY <1>1, <1>11, <2>2, <2>3, <2>4, <2>5, <2>6, SMTT(20)
    <2>8. QED
      BY <2>7 DEF K
  <1>13. \A e : Has(list, e) <=> Belongs(e, u, ns, ps, extras)
    <2>1. \A e : Has(list, e) <=> Has(main, e) \/ Has(more, e)
      BY <1>5, <1>6, <1>7, ConcatHas
    <2>2. QED
      BY <1>5, <1>8, <2>1 DEF Belongs
  <1>14. \A e : Has(more, e) => e.profile \notin PerNode
    <2>1. ASSUME NEW e, Has(more, e) PROVE e.profile \notin PerNode
      <3>1. e.profile \in Profiles /\ e.profile.group \in {"hy2", "core"}
        BY <1>5, <2>1 DEF Pair
      <3>2. QED
        BY <3>1, GroupsPart
    <2>2. QED
      BY <2>1
  <1>15. ASSUME Once(ns), Once(ps) PROVE Once(list)
    <2>1. \A e \in Pair : ~(Has(main, e) /\ Has(more, e))
      BY <1>8, <1>14
    <2>2. QED
      BY <1>5, <1>6, <1>7, <1>9, <1>15, <2>1, ConcatOnce
  <1>16. ASSUME Rows, Sorted(ns) PROVE InNodeOrder(list)
    <2>1. ASSUME NEW i \in 1..Len(list), list[i].profile \in PerNode
          PROVE  i \in 1..Len(main) /\ list[i] = main[i]
      <3>1. CASE i <= Len(main)
        BY <1>11, <3>1
      <3>2. CASE Len(main) < i
        <4>1. i - Len(main) \in 1..Len(more) /\ list[i] = more[i - Len(main)]
          BY <1>11, <3>2
        <4>2. Has(more, list[i])
          BY <4>1 DEF Has
        <4>3. QED
          BY <1>14, <2>1, <4>2
      <3>3. QED
        BY <1>11, <3>1, <3>2
    <2>2. QED
      BY <1>10, <1>16, <2>1 DEF InNodeOrder
  <1>17. QED
    BY <1>11, <1>12, <1>13, <1>15, <1>16 DEF list

\* The cap is taken last: a prefix of the whole list.
LEMMA CapIsPrefix ==
    ASSUME NEW u, u.cap \in Nat, NEW ns \in Seq(Nodes), NEW ps \in Seq(Profiles), NEW extras \in BOOLEAN
    PROVE  LET es == EntryPairs(u, ns, ps, extras)
               all == Entries(u, ns, ps, extras)
           IN /\ es \in Seq(Pair) /\ Len(es) \in Nat /\ Len(all) \in Nat /\ Len(es) <= Len(all)
              /\ Len(es) = IF u.cap = 0 \/ Len(all) < u.cap THEN Len(all) ELSE u.cap
              /\ \A i \in 1..Len(es) : es[i] = all[i]
  <1> DEFINE es == EntryPairs(u, ns, ps, extras)
             all == Entries(u, ns, ps, extras)
  <1>1. all \in Seq(Pair) /\ Len(all) \in Nat
    BY EntriesAre, LenProperties
  <1>2. es = IF u.cap = 0 \/ u.cap > Len(all) THEN all ELSE SubSeq(all, 1, u.cap)
    BY EntryPairsCut
  <1> HIDE DEF es, all
  <1>3. CASE u.cap = 0 \/ u.cap > Len(all)
    <2>1. es = all
      BY <1>2, <1>3
    <2>2. QED
      BY <1>1, <1>3, <2>1 DEF es, all
  <1>4. CASE ~(u.cap = 0 \/ u.cap > Len(all))
    <2>1. es = SubSeq(all, 1, u.cap) /\ u.cap \in 1..Len(all)
      BY <1>1, <1>2, <1>4
    <2>2. \A i \in 1..u.cap : all[i] \in Pair
      BY <1>1, <2>1, ElementOfSeq
    <2>3. /\ es \in Seq(Pair) /\ Len(es) = u.cap
          /\ \A i \in 1..u.cap : es[i] = all[1 + i - 1]
      BY <2>1, <2>2, SubSeqProperties
    <2>4. \A i \in 1..u.cap : es[i] = all[i]
      BY <2>3
    <2>5. QED
      BY <1>1, <1>4, <2>1, <2>3, <2>4 DEF es, all
  <1>5. QED
    BY <1>3, <1>4

(***************************************************************************)
(* What the request has worked out, as a function of the state.            *)
(***************************************************************************)
Found == Only({n \in Nodes : fetch.node \in {Null, n}}, ActiveNodes(Wanted))
Asked == ProfilesFor(fetch.target, UserProtocols(fetch.user))
Kept(ns, ps) ==
    LET pairs == EntryPairs(fetch.user, ns, ps, fetch.node = Null)
    IN IF fetch.target = "xray" THEN Only({e \in Pair : e.profile \in PerNode}, pairs) ELSE pairs

\* _sub_nodes(): sorted, of the slice, without failed addresses when there are others, and
\* complete when no ?node= was asked for.
LEMMA FoundAre ==
    ASSUME Rows
    PROVE  /\ Found \in Seq(Nodes) /\ Len(Found) <= Cardinality(Nodes) /\ Sorted(Found)
           /\ \A i \in 1..Len(Found) : Found[i] \in Slice(Wanted)
           /\ Good(Wanted) # {} => \A i \in 1..Len(Found) : Found[i] \in Good(Wanted)
           /\ fetch.node = Null => \A n \in Good(Wanted) : Has(Found, n)
  <1> DEFINE T == {n \in Nodes : fetch.node \in {Null, n}}
             list == ActiveNodes(Wanted)
  <1>1. Found = Only(T, list)
    BY DEF Found
  <1>2. /\ list \in Seq(Nodes) /\ Len(list) <= Cardinality(Nodes) /\ Sorted(list)
        /\ \A i \in 1..Len(list) : list[i] \in Slice(Wanted)
        /\ Good(Wanted) # {} => \A i \in 1..Len(list) : list[i] \in Good(Wanted)
        /\ \A n \in Good(Wanted) : Has(list, n)
    BY ActiveNodesAre DEF Has
  <1>3. fetch.node = Null => \A n \in Nodes : n \in T
    OBVIOUS
  <1>4. Cardinality(Nodes) \in Nat /\ Len(list) \in Nat
    BY <1>2, OriginIsANode, FS_CardinalityType, LenProperties
  <1> HIDE DEF T, list
  <1>5. /\ Found \in Seq(Nodes) /\ Len(Found) \in Nat /\ Len(Found) <= Len(list)
        /\ \A k \in 1..Len(Found) : \E i \in 1..Len(list) : list[i] = Found[k]
    BY <1>1, <1>2, OnlyFrom
  <1>6. Sorted(Found)
    BY <1>1, <1>2, OnlySorted
  <1>7. \A n : Has(Found, n) <=> Has(list, n) /\ n \in T
    BY <1>1, <1>2, OnlyHas
  <1>8. Good(Wanted) \subseteq Nodes
    BY DEF Good, Slice
  <1>9. QED
    BY <1>2, <1>3, <1>4, <1>5, <1>6, <1>7, <1>8, SMTT(20)

\* The entries of a request: each belongs, in the order of the nodes.
LEMMA KeptAre ==
    ASSUME fetch.user.cap \in Nat, NEW ns \in Seq(Nodes), NEW ps \in Seq(Profiles),
           Len(ns) <= Cardinality(Nodes), Len(ps) <= 6
    PROVE  /\ Kept(ns, ps) \in Seq(Pair) /\ Len(Kept(ns, ps)) <= Cardinality(Nodes) * 6
           /\ \A i \in 1..Len(Kept(ns, ps)) : Belongs(Kept(ns, ps)[i], fetch.user, ns, ps, fetch.node = Null)
           /\ Rows /\ Sorted(ns) => InNodeOrder(Kept(ns, ps))
  <1> DEFINE extras == fetch.node = Null
             pairs == EntryPairs(fetch.user, ns, ps, extras)
             all == Entries(fetch.user, ns, ps, extras)
             T == {e \in Pair : e.profile \in PerNode}
             list == Kept(ns, ps)
  <1>1. extras \in BOOLEAN
    OBVIOUS
  <1>2. list = IF fetch.target = "xray" THEN Only(T, pairs) ELSE pairs
    BY DEF Kept
  <1> HIDE DEF extras
  <1>3. /\ pairs \in Seq(Pair) /\ Len(pairs) \in Nat /\ Len(all) \in Nat /\ Len(pairs) <= Len(all)
        /\ \A i \in 1..Len(pairs) : pairs[i] = all[i]
    BY <1>1, CapIsPrefix
  <1>4. /\ Len(all) <= Cardinality(Nodes) * 6
        /\ \A e : Has(all, e) <=> Belongs(e, fetch.user, ns, ps, extras)
        /\ Rows /\ Sorted(ns) => InNodeOrder(all)
    BY <1>1, EntriesAre
  <1>5. Cardinality(Nodes) * 6 \in Nat
    BY OriginIsANode, FS_CardinalityType
  <1> HIDE DEF pairs, all, T, list
  <1>6. \A i \in 1..Len(pairs) : Belongs(pairs[i], fetch.user, ns, ps, extras)
    <2>1. \A i \in 1..Len(pairs) : Has(all, pairs[i])
      BY <1>3 DEF Has
    <2>2. QED
      BY <1>4, <2>1
  <1>7. Rows /\ Sorted(ns) => InNodeOrder(pairs)
    BY <1>3, <1>4 DEF InNodeOrder
  <1>8. CASE fetch.target # "xray"
    <2>1. list = pairs
      BY <1>2, <1>8
    <2>2. QED
      BY <1>3, <1>4, <1>5, <1>6, <1>7, <2>1 DEF list, extras
  <1>9. CASE fetch.target = "xray"
    <2>1. list = Only(T, pairs)
      BY <1>2, <1>9
    <2>2. /\ list \in Seq(Pair) /\ Len(list) \in Nat /\ Len(list) <= Len(pairs)
          /\ \A k \in 1..Len(list) : \E i \in 1..Len(pairs) : pairs[i] = list[k]
      <3>1. pairs \in Seq(Pair)
        BY <1>3
      <3>2. /\ Only(T, pairs) \in Seq(Pair) /\ Len(Only(T, pairs)) \in Nat
            /\ Len(Only(T, pairs)) <= Len(pairs)
            /\ \A k \in 1..Len(Only(T, pairs)) : \E i \in 1..Len(pairs) : pairs[i] = Only(T, pairs)[k]
        BY <3>1, OnlyFrom
      <3>3. QED
        BY <2>1, <3>2
    <2>3. \A k \in 1..Len(list) : Belongs(list[k], fetch.user, ns, ps, extras)
      BY <1>6, <2>2
    <2>4. Len(list) <= Cardinality(Nodes) * 6
      BY <1>3, <1>4, <1>5, <2>2
    <2>5. ASSUME Rows, Sorted(ns) PROVE InNodeOrder(list)
      <3>1. PICK at : Picks(at, T, pairs)
        BY <1>3, OnlyLists
      <3>2. /\ at \in [1..Len(list) -> 1..Len(pairs)]
            /\ \A k \in 1..Len(list) : list[k] = pairs[at[k]]
            /\ \A i, j \in 1..Len(list) : i < j => at[i] < at[j]
        BY <2>1, <3>1 DEF Picks, Places
      <3>3. QED
        BY <1>7, <2>5, <3>2 DEF InNodeOrder
    <2>6. QED
      BY <2>2, <2>3, <2>4, <2>5 DEF list, extras
  <1>10. QED
    BY <1>8, <1>9

(***************************************************************************)
(* Types, and how long the lists of a request get.                         *)
(***************************************************************************)
Sized ==
    /\ Len(fetch.nodes) <= Cardinality(Nodes)
    /\ Len(fetch.profiles) <= 6
    /\ Len(fetch.pairs) <= Cardinality(Nodes) * 6

\* The identifiers the code writes down are those of profiles.
LEMMA KnownIds ==
    EdgeIds \subseteq Ids /\ DirectIds \subseteq Ids /\ "hysteria2" \in Ids /\ "anytls" \in Ids
  <1>1. Table[3].id = "hysteria2" /\ Table[6].id = "anytls"
    BY DEF Table
  <1>2. \A i \in 1..6 : Table[i] \in Profiles
    BY TableIs, ElementOfSeq
  <1>3. Table[3].id \in Ids /\ Table[6].id \in Ids
    BY <1>2 DEF Ids
  <1>4. QED
    BY <1>1, <1>3 DEF EdgeIds, DirectIds, Ids

\* A request that has not begun.
LEMMA RestingTyped == user \in User => Resting \in Fetch
  <1>1. <<>> \in Seq(Nodes) /\ <<>> \in Seq(Profiles) /\ <<>> \in Seq(Pair) /\ <<>> \in Seq(Link)
    BY EmptySeq
  <1>2. QED
    BY <1>1 DEF Resting, Fetch, Targets

\* The initial states are typed.
LEMMA InitTyped == SubscriptionInit => TypeOK /\ Sized
  <1> SUFFICES ASSUME SubscriptionInit PROVE TypeOK /\ Sized
    OBVIOUS
  <1>1. user \in User /\ nodes \in [Nodes -> Row]
    BY RowsAreTyped DEF SubscriptionInit
  <1>2. /\ platform \in {"vps", "railway"} /\ forwarded \subseteq Forwardable /\ switch \subseteq Switches
        /\ served \in (SUBSET Ids) \cup {Null} /\ published \in (SUBSET {"anytls"}) \cup {Null}
        /\ seen \subseteq Ids /\ quiet \in BOOLEAN /\ changes \in 0..MaxChanges
    BY CapsAreNat DEF SubscriptionInit
  <1>3. fetch = Resting
    BY DEF SubscriptionInit
  <1>4. <<>> \in Seq(Nodes) /\ <<>> \in Seq(Profiles) /\ <<>> \in Seq(Pair) /\ <<>> \in Seq(Link) /\ Len(<<>>) = 0
    BY EmptySeq
  <1>5. fetch \in Fetch
    BY <1>1, <1>3, RestingTyped
  <1>6. Cardinality(Nodes) \in Nat /\ Cardinality(Nodes) * 6 \in Nat
    BY OriginIsANode, FS_CardinalityType
  <1>7. /\ Len(fetch.links) = 0 /\ Len(fetch.nodes) = 0 /\ Len(fetch.profiles) = 0 /\ Len(fetch.pairs) = 0
    BY <1>3, <1>4 DEF Resting
  <1>8. QED
    BY <1>1, <1>2, <1>5, <1>6, <1>7, TableIs DEF TypeOK, Sized

\* What is standing is named in the catalog of profiles.
EnginesTyped == served \in (SUBSET Ids) \cup {Null} /\ published \in (SUBSET {"anytls"}) \cup {Null}

\* Standing names profiles, before and after a step.
LEMMA StandingNamed ==
    /\ EnginesTyped => Standing \subseteq Ids
    /\ EnginesTyped' => Standing' \subseteq Ids
  <1>1. EnginesTyped => Standing \subseteq Ids
    BY KnownIds DEF EnginesTyped, Standing
  <1>2. EnginesTyped' => Standing' \subseteq Ids
    BY KnownIds DEF EnginesTyped, Standing
  <1>3. QED
    BY <1>1, <1>2

\* The steps of admins and supervisors.
Others == EditUser \/ EditNode \/ Toggle \/ LearnPort \/ Serve \/ Publish

\* What a change by an admin or a supervisor does, the request apart.
LEMMA OthersDo ==
    ASSUME TypeOK, Others
    PROVE  /\ user' \in User /\ nodes' \in [Nodes -> Row] /\ platform' \in {"vps", "railway"}
           /\ forwarded' \subseteq Forwardable /\ switch' \subseteq Switches
           /\ EnginesTyped'
           /\ seen' = seen \cup Standing' /\ seen' \subseteq Ids
           /\ fetch' = fetch /\ quiet' = FALSE /\ changes' \in 0..MaxChanges
  <1>1. /\ user \in User /\ nodes \in [Nodes -> Row] /\ platform \in {"vps", "railway"}
        /\ forwarded \subseteq Forwardable /\ switch \subseteq Switches /\ EnginesTyped
        /\ seen \subseteq Ids /\ changes \in 0..MaxChanges
    BY DEF TypeOK, EnginesTyped
  <1>2. Change /\ Record
    BY DEF Others, EditUser, EditNode, Toggle, LearnPort, Serve, Publish
  <1>3. /\ changes' \in 0..MaxChanges /\ quiet' = FALSE /\ platform' = platform /\ fetch' = fetch
        /\ seen' = seen \cup Standing'
    BY <1>1, <1>2, CapsAreNat DEF Change, Record
  <1>4. CASE EditUser
    <2>1. /\ nodes' = nodes /\ forwarded' = forwarded /\ switch' = switch /\ served' = served
          /\ published' = published
      BY <1>4 DEF EditUser
    <2>2. user' \in User
      BY <1>1, <1>4 DEF EditUser, User
    <2>3. QED
      BY <1>1, <1>3, <2>1, <2>2, StandingNamed DEF EnginesTyped
  <1>5. CASE EditNode
    <2>1. /\ user' = user /\ forwarded' = forwarded /\ switch' = switch /\ served' = served
          /\ published' = published
      BY <1>5 DEF EditNode
    <2>2. nodes' \in [Nodes -> Row]
      <3>1. PICK n \in Nodes : \/ \E latency \in Pings : nodes' = [nodes EXCEPT ![n].latency = latency]
                               \/ nodes' = [nodes EXCEPT ![n].enabled = ~@]
        BY <1>5 DEF EditNode
      <3>2. nodes[n] \in Row
        BY <1>1
      <3>3. ASSUME NEW latency \in Pings, nodes' = [nodes EXCEPT ![n].latency = latency]
            PROVE  nodes' \in [Nodes -> Row]
        <4>1. [nodes[n] EXCEPT !.latency = latency] \in Row
          BY <3>2 DEF Row
        <4>2. QED
          BY <1>1, <3>3, <4>1
      <3>4. ASSUME nodes' = [nodes EXCEPT ![n].enabled = ~@] PROVE nodes' \in [Nodes -> Row]
        <4>1. [nodes[n] EXCEPT !.enabled = ~@] \in Row
          BY <3>2 DEF Row
        <4>2. QED
          BY <1>1, <3>4, <4>1
      <3>5. QED
        BY <3>1, <3>3, <3>4
    <2>3. QED
      BY <1>1, <1>3, <2>1, <2>2, StandingNamed DEF EnginesTyped
  <1>6. CASE Toggle
    <2>1. /\ user' = user /\ nodes' = nodes /\ forwarded' = forwarded /\ served' = served
          /\ published' = published /\ switch' \subseteq Switches
      BY <1>1, <1>6 DEF Toggle
    <2>2. QED
      BY <1>1, <1>3, <2>1, StandingNamed DEF EnginesTyped
  <1>7. CASE LearnPort
    <2>1. /\ user' = user /\ nodes' = nodes /\ switch' = switch /\ served' = served
          /\ published' = published /\ forwarded' \subseteq Forwardable
      BY <1>1, <1>7 DEF LearnPort
    <2>2. QED
      BY <1>1, <1>3, <2>1, StandingNamed DEF EnginesTyped
  <1>8. CASE Serve
    <2>1. /\ user' = user /\ nodes' = nodes /\ forwarded' = forwarded /\ switch' = switch
          /\ published' = published
          /\ served' \in {EdgeIds \cup direct : direct \in SUBSET DirectIds} \cup {{}}
      BY <1>8 DEF Serve
    <2>2. served' \in SUBSET Ids
      BY <2>1, KnownIds
    <2>3. QED
      BY <1>1, <1>3, <2>1, <2>2, StandingNamed DEF EnginesTyped
  <1>9. CASE Publish
    <2>1. /\ user' = user /\ nodes' = nodes /\ forwarded' = forwarded /\ switch' = switch
          /\ served' = served /\ published' \in SUBSET {"anytls"}
      BY <1>9 DEF Publish
    <2>2. QED
      BY <1>1, <1>3, <2>1, StandingNamed DEF EnginesTyped
  <1>10. QED
    BY <1>4, <1>5, <1>6, <1>7, <1>8, <1>9 DEF Others

\* Addresses are of this deployment.
LEMMA DirectIdsAre == "vless-reality" \in Forwardable /\ "trojan-grpc" \in Forwardable
  <1>1. /\ Table[4].id = "vless-reality" /\ Table[5].id = "trojan-grpc"
        /\ Table[4].group = "direct" /\ Table[5].group = "direct"
    BY DEF Table
  <1>2. \A i \in 1..6 : Table[i] \in Profiles
    BY TableIs, ElementOfSeq
  <1>3. Table[4].id \in DirectIds /\ Table[5].id \in DirectIds
    BY <1>1, <1>2 DEF DirectIds
  <1>4. QED
    BY <1>1, <1>3 DEF Forwardable

\* The endpoints are addresses, or missing.
LEMMA EndpointTyped ==
    PublicEndpoint("trojan-grpc") \in Addresses \cup {Null} /\ DirectEndpoint \in Addresses \cup {Null}
  BY DirectIdsAre DEF PublicEndpoint, DirectEndpoint, Proxy, Own, Addresses

\* The fields of an address.
LEMMA AddressFields ==
    ASSUME NEW address, NEW host, NEW port, address = [host |-> host, port |-> port]
    PROVE  address.host = host /\ address.port = port
  OBVIOUS

\* node_address() gives a host and a port of this deployment.
LEMMA AddressTyped ==
    ASSUME NEW p \in Profiles, fetch.endpoint \in Addresses \cup {Null}
    PROVE  /\ NodeAddress(p).host \in {"self", "", "edge", "hy2"} \cup Forwardable
           /\ NodeAddress(p).port \in {"edge", "hy2"} \cup Forwardable
  <1> DEFINE endpoint == IF p.id = "trojan-grpc" THEN fetch.endpoint ELSE DirectEndpoint
  <1>1. p.group = "core" => p.id \in Forwardable
    <2>1. \A i \in 1..6 : Table[i].group = "core" => Table[i].id = "anytls"
      BY DEF Table
    <2>2. QED
      BY <2>1, TableIs DEF Has, Forwardable
  <1>2. endpoint \in Addresses \cup {Null}
    BY EndpointTyped
  <1>3. CoreHost = "" \/ CoreHost \in {"self"} \cup Forwardable
    BY EndpointTyped DEF CoreHost, Addresses
  <1>4. /\ p.group = "core" => NodeAddress(p) = [host |-> CoreHost, port |-> p.id]
        /\ p.group = "direct" => NodeAddress(p) = IF endpoint = Null THEN Edge ELSE endpoint
        /\ p.group = "hy2" => NodeAddress(p) = IF "hysteria" \in switch THEN Proxy("hy2")
                                               ELSE [Edge EXCEPT !.host = ""]
        /\ p.group = "edge" => NodeAddress(p) = Edge
    BY DEF NodeAddress
  <1>5. p.group \in {"edge", "direct", "hy2", "core"}
    BY GroupsPart
  <1> HIDE DEF endpoint
  <1>6. CASE p.group = "core"
    <2> DEFINE host == CoreHost
    <2>1. host \in {"", "self"} \cup Forwardable
      BY <1>3
    <2>2. NodeAddress(p) = [host |-> host, port |-> p.id]
      BY <1>4, <1>6
    <2> HIDE DEF host
    <2>3. NodeAddress(p).host = host /\ NodeAddress(p).port = p.id
      BY <2>2
    <2>4. QED
      BY <1>1, <1>6, <2>1, <2>3
  <1>7. CASE p.group = "direct"
    <2>1. CASE endpoint = Null
      <3>1. NodeAddress(p) = Edge
        BY <1>4, <1>7, <2>1
      <3>2. QED
        BY <3>1 DEF Edge
    <2>2. CASE endpoint # Null
      <3>1. endpoint \in Addresses
        BY <1>2, <2>2
      <3>2. endpoint.host \in {"self"} \cup Forwardable /\ endpoint.port \in Forwardable
        BY <3>1 DEF Addresses
      <3>3. NodeAddress(p) = endpoint
        BY <1>4, <1>7, <2>2
      <3>4. QED
        BY <3>2, <3>3
    <2>3. QED
      BY <2>1, <2>2
  <1>8. CASE p.group = "hy2"
    <2>1. CASE "hysteria" \in switch
      <3>1. NodeAddress(p) = [host |-> "hy2", port |-> "hy2"]
        BY <1>4, <1>8, <2>1 DEF Proxy
      <3>2. QED
        BY <3>1
    <2>2. CASE "hysteria" \notin switch
      <3>1. NodeAddress(p) = [host |-> "", port |-> "edge"]
        BY <1>4, <1>8, <2>2 DEF Edge
      <3>2. NodeAddress(p).host = "" /\ NodeAddress(p).port = "edge"
        BY <3>1, AddressFields
      <3>3. QED
        BY <3>2, Zenon
    <2>3. QED
      BY <2>1, <2>2
  <1>9. CASE p.group = "edge"
    <2>1. NodeAddress(p) = Edge
      BY <1>4, <1>9
    <2>2. QED
      BY <2>1 DEF Edge
  <1>10. QED
    BY <1>5, <1>6, <1>7, <1>8, <1>9

(***************************************************************************)
(* The steps of a request, with what each one changes.                     *)
(***************************************************************************)
Statements == {"idle", "nodes", "profiles", "pairs", "links"}
Codes == {0, 200, 400, 403, 404}

\* What an answer leaves of a request.
LEMMA AnswerTyped ==
    ASSUME fetch \in Fetch, NEW status \in Codes, NEW links \in Seq(Link)
    PROVE  Answer(status, links) \in Fetch
  <1>1. <<>> \in Seq(Nodes) /\ <<>> \in Seq(Profiles) /\ <<>> \in Seq(Pair)
    BY EmptySeq
  <1>2. /\ fetch.target \in Targets /\ fetch.node \in Nodes \cup {Null} /\ fetch.scope \in Scopes \cup {Null}
        /\ fetch.user \in User
    BY DEF Fetch
  <1>3. QED
    BY <1>1, <1>2 DEF Answer, Fetch, Codes

\* The fields of an answer.
LEMMA AnswerFields ==
    ASSUME NEW status, NEW links
    PROVE  /\ Answer(status, links).pc = "idle" /\ Answer(status, links).status = status
           /\ Answer(status, links).links = links
           /\ Answer(status, links).nodes = <<>> /\ Answer(status, links).profiles = <<>>
           /\ Answer(status, links).pairs = <<>>
           /\ Answer(status, links).user = fetch.user /\ Answer(status, links).scope = fetch.scope
           /\ Answer(status, links).node = fetch.node /\ Answer(status, links).target = fetch.target
  BY DEF Answer

\* A request stays one when its fields get values of their types.
LEMMA WithNodes ==
    ASSUME NEW f \in Fetch, NEW ns \in Seq(Nodes)
    PROVE  [f EXCEPT !.pc = "profiles", !.nodes = ns] \in Fetch
  <1> DEFINE A == {"idle", "nodes", "profiles", "pairs", "links"}
             B == Nodes \cup {Null}
             C == Scopes \cup {Null}
             D == Seq(Nodes)
             E == Seq(Profiles)
             F == Addresses \cup {Null}
             G == Seq(Pair)
             H == {0, 200, 400, 403, 404}
             I == Seq(Link)
  <1>1. Fetch = [pc : A, target : Targets, node : B, scope : C, user : User, nodes : D, profiles : E,
                 endpoint : F, pairs : G, status : H, links : I]
    BY DEF Fetch
  <1>2. "profiles" \in A /\ ns \in D
    OBVIOUS
  <1> HIDE DEF A, B, C, D, E, F, G, H, I
  <1>3. QED
    BY <1>1, <1>2

\* The same for the step that reads the profiles,
LEMMA WithProfiles ==
    ASSUME NEW f \in Fetch, NEW ps \in Seq(Profiles), NEW endpoint \in Addresses \cup {Null}
    PROVE  [f EXCEPT !.pc = "pairs", !.profiles = ps, !.endpoint = endpoint] \in Fetch
  <1> DEFINE A == {"idle", "nodes", "profiles", "pairs", "links"}
             B == Nodes \cup {Null}
             C == Scopes \cup {Null}
             D == Seq(Nodes)
             E == Seq(Profiles)
             F == Addresses \cup {Null}
             G == Seq(Pair)
             H == {0, 200, 400, 403, 404}
             I == Seq(Link)
  <1>1. Fetch = [pc : A, target : Targets, node : B, scope : C, user : User, nodes : D, profiles : E,
                 endpoint : F, pairs : G, status : H, links : I]
    BY DEF Fetch
  <1>2. "pairs" \in A /\ ps \in E /\ endpoint \in F
    OBVIOUS
  <1> HIDE DEF A, B, C, D, E, F, G, H, I
  <1>3. QED
    BY <1>1, <1>2

\* for the step that makes the entries,
LEMMA WithPairs ==
    ASSUME NEW f \in Fetch, NEW es \in Seq(Pair)
    PROVE  [f EXCEPT !.pc = "links", !.pairs = es] \in Fetch
  <1> DEFINE A == {"idle", "nodes", "profiles", "pairs", "links"}
             B == Nodes \cup {Null}
             C == Scopes \cup {Null}
             D == Seq(Nodes)
             E == Seq(Profiles)
             F == Addresses \cup {Null}
             G == Seq(Pair)
             H == {0, 200, 400, 403, 404}
             I == Seq(Link)
  <1>1. Fetch = [pc : A, target : Targets, node : B, scope : C, user : User, nodes : D, profiles : E,
                 endpoint : F, pairs : G, status : H, links : I]
    BY DEF Fetch
  <1>2. "links" \in A /\ es \in G
    OBVIOUS
  <1> HIDE DEF A, B, C, D, E, F, G, H, I
  <1>3. QED
    BY <1>1, <1>2

\* and for the step that takes the request.
LEMMA WithRequest ==
    ASSUME NEW f \in Fetch, NEW pc \in Statements, NEW status \in Codes,
           NEW target \in Targets, NEW node \in Nodes \cup {Null}, NEW scope \in Scopes \cup {Null}
    PROVE  [f EXCEPT !.pc = pc, !.status = status, !.target = target, !.node = node,
                     !.scope = scope] \in Fetch
  <1> DEFINE A == {"idle", "nodes", "profiles", "pairs", "links"}
             B == Nodes \cup {Null}
             C == Scopes \cup {Null}
             D == Seq(Nodes)
             E == Seq(Profiles)
             F == Addresses \cup {Null}
             G == Seq(Pair)
             H == {0, 200, 400, 403, 404}
             I == Seq(Link)
  <1>1. Fetch = [pc : A, target : Targets, node : B, scope : C, user : User, nodes : D, profiles : E,
                 endpoint : F, pairs : G, status : H, links : I]
    BY DEF Fetch
  <1>2. pc \in A /\ status \in H /\ node \in B /\ scope \in C
    BY DEF Statements, Codes
  <1> HIDE DEF A, B, C, D, E, F, G, H, I
  <1>3. QED
    BY <1>1, <1>2

\* What a step of a request leaves alone.
SameRequest ==
    /\ fetch'.target = fetch.target /\ fetch'.node = fetch.node
    /\ fetch'.scope = fetch.scope /\ fetch'.user = fetch.user
Steady == UNCHANGED settingsVars /\ seen' = seen /\ quiet' = quiet /\ changes' = changes

\* The request was refused: nothing is delivered.
Refused ==
    /\ fetch' \in Fetch /\ fetch'.pc = "idle" /\ fetch'.status # 200
    /\ fetch'.nodes = <<>> /\ fetch'.profiles = <<>> /\ fetch'.pairs = <<>> /\ fetch'.links = <<>>

\* An answer other than 200 carries nothing.
LEMMA RefusalRefuses ==
    ASSUME fetch \in Fetch, NEW status \in {400, 404}, fetch' = Answer(status, <<>>)
    PROVE  Refused /\ SameRequest
  <1> DEFINE none == <<>>
             a == Answer(status, none)
  <1>1. none \in Seq(Link) /\ status \in Codes /\ status # 200 /\ none = <<>> /\ fetch' = a
    BY EmptySeq DEF Codes
  <1> HIDE DEF none
  <1>2. a \in Fetch
    <2>1. none \in Seq(Link) /\ status \in Codes
      BY <1>1
    <2>2. Answer(status, none) \in Fetch
      BY <2>1, AnswerTyped, Zenon
    <2>3. QED
      BY <2>2
  <1>3. /\ a.pc = "idle" /\ a.status = status /\ a.links = none
        /\ a.nodes = <<>> /\ a.profiles = <<>> /\ a.pairs = <<>>
        /\ a.user = fetch.user /\ a.scope = fetch.scope
        /\ a.node = fetch.node /\ a.target = fetch.target
    BY DEF Answer
  <1> HIDE DEF a
  <1>4. QED
    BY <1>1, <1>2, <1>3 DEF Refused, SameRequest

\* Begin: the request is taken, nothing is worked out yet.
LEMMA BeginDoes ==
    ASSUME TypeOK, NEW request \in Requests, Begin(request)
    PROVE  /\ fetch' \in Fetch /\ fetch'.pc \in {"idle", "nodes"} /\ fetch'.status # 200
           /\ fetch'.nodes = <<>> /\ fetch'.profiles = <<>> /\ fetch'.pairs = <<>> /\ fetch'.links = <<>>
           /\ fetch.pc = "idle"
           /\ seen' = Standing /\ seen' \subseteq Ids /\ quiet' = TRUE /\ changes' = changes
           /\ UNCHANGED settingsVars
  <1>1. /\ request.target \in Targets /\ request.node \in Nodes \cup {Null}
        /\ request.scope \in Scopes \cup {Null}
    BY RequestsAreTyped DEF Request
  <1>2. user \in User /\ EnginesTyped
    BY DEF TypeOK, EnginesTyped
  <1> DEFINE pc == IF user.active THEN "nodes" ELSE "idle"
             status == IF user.active THEN 0 ELSE 403
  <1>3. pc \in {"idle", "nodes"} /\ status # 200 /\ pc \in Statements /\ status \in Codes
    BY DEF Statements, Codes
  <1>4. Resting \in Fetch
    BY <1>2, RestingTyped
  <1>5. fetch' = [Resting EXCEPT !.pc = pc, !.status = status, !.target = request.target,
                                 !.node = request.node, !.scope = request.scope]
    BY DEF Begin
  <1> HIDE DEF pc, status
  <1>6. fetch' \in Fetch
    <2> DEFINE f == Resting
               target == request.target
               node == request.node
               scope == request.scope
    <2>1. /\ f \in Fetch /\ target \in Targets /\ node \in Nodes \cup {Null} /\ scope \in Scopes \cup {Null}
          /\ fetch' = [f EXCEPT !.pc = pc, !.status = status, !.target = target, !.node = node,
                                !.scope = scope]
      BY <1>1, <1>4, <1>5
    <2> HIDE DEF f, target, node, scope
    <2>2. [f EXCEPT !.pc = pc, !.status = status, !.target = target, !.node = node, !.scope = scope] \in Fetch
      BY <1>3, <2>1, WithRequest
    <2>3. QED
      BY <2>1, <2>2
  <1>7. /\ fetch'.pc = pc /\ fetch'.status = status
        /\ fetch'.nodes = <<>> /\ fetch'.profiles = <<>> /\ fetch'.pairs = <<>> /\ fetch'.links = <<>>
    BY <1>5 DEF Resting
  <1>8. /\ seen' = Standing /\ quiet' = TRUE /\ UNCHANGED settingsVars /\ changes' = changes
        /\ fetch.pc = "idle"
    BY DEF Begin
  <1>9. QED
    BY <1>2, <1>3, <1>6, <1>7, <1>8, StandingNamed

\* ReadNodes: refused, or the nodes are Found.
LEMMA ReadNodesDoes ==
    ASSUME TypeOK, ReadNodes
    PROVE  /\ Steady /\ SameRequest /\ fetch.pc = "nodes"
           /\ \/ Refused
              \/ /\ fetch' \in Fetch /\ fetch'.pc = "profiles" /\ fetch'.nodes = Found
                 /\ fetch'.profiles = fetch.profiles /\ fetch'.pairs = fetch.pairs
                 /\ fetch'.links = fetch.links
  <1>1. fetch \in Fetch /\ Rows
    BY DEF TypeOK, Rows
  <1>2. /\ fetch.pc = "nodes" /\ Steady
        /\ fetch' = IF Found = <<>> THEN Answer(404, <<>>)
                    ELSE [fetch EXCEPT !.pc = "profiles", !.nodes = Found]
    BY DEF ReadNodes, Working, Steady, Found
  <1>3. Found \in Seq(Nodes)
    BY <1>1, FoundAre
  <1>4. CASE Found = <<>>
    BY <1>1, <1>2, <1>4, RefusalRefuses
  <1>5. CASE Found # <<>>
    <2>1. fetch' = [fetch EXCEPT !.pc = "profiles", !.nodes = Found]
      BY <1>2, <1>5
    <2>2. /\ fetch'.pc = "profiles" /\ fetch'.nodes = Found /\ fetch'.profiles = fetch.profiles
          /\ fetch'.pairs = fetch.pairs /\ fetch'.links = fetch.links /\ SameRequest
      BY <1>1, <2>1 DEF Fetch, SameRequest
    <2>3. fetch' \in Fetch
      BY <1>1, <1>3, <2>1, WithNodes
    <2>4. QED
      BY <1>2, <2>2, <2>3
  <1>6. QED
    BY <1>4, <1>5

\* ReadProfiles: refused, or the profiles are Asked.
LEMMA ReadProfilesDoes ==
    ASSUME TypeOK, ReadProfiles
    PROVE  /\ Steady /\ SameRequest /\ fetch.pc = "profiles"
           /\ \/ Refused
              \/ /\ fetch' \in Fetch /\ fetch'.pc = "pairs" /\ Asked # Null /\ fetch'.profiles = Asked
                 /\ fetch'.nodes = fetch.nodes /\ fetch'.pairs = fetch.pairs
                 /\ fetch'.links = fetch.links
  <1>1. fetch \in Fetch /\ fetch.target \in Targets
    BY DEF TypeOK, Fetch
  <1> DEFINE refuse == Asked = Null \/ (Asked = <<>> /\ fetch.target \notin {"xray", "singbox"})
             endpoint == PublicEndpoint("trojan-grpc")
  <1>2. /\ fetch.pc = "profiles" /\ Steady
        /\ fetch' = IF refuse THEN Answer(400, <<>>)
                    ELSE [fetch EXCEPT !.pc = "pairs", !.profiles = Asked, !.endpoint = endpoint]
    BY DEF ReadProfiles, Working, Steady, Asked
  <1>3. CASE refuse
    BY <1>1, <1>2, <1>3, RefusalRefuses
  <1>4. CASE ~refuse
    <2>1. fetch' = [fetch EXCEPT !.pc = "pairs", !.profiles = Asked, !.endpoint = endpoint] /\ Asked # Null
      BY <1>2, <1>4
    <2>2. Asked \in Seq(Profiles)
      BY <1>1, <2>1, ProfilesForAre DEF Asked
    <2>3. endpoint \in Addresses \cup {Null}
      BY EndpointTyped
    <2> HIDE DEF endpoint, refuse
    <2>4. /\ fetch'.pc = "pairs" /\ fetch'.nodes = fetch.nodes /\ fetch'.profiles = Asked
          /\ fetch'.pairs = fetch.pairs /\ fetch'.links = fetch.links /\ SameRequest
      BY <1>1, <2>1 DEF Fetch, SameRequest
    <2>5. fetch' \in Fetch
      BY <1>1, <2>1, <2>2, <2>3, WithProfiles
    <2>6. QED
      BY <1>2, <2>1, <2>4, <2>5
  <1>5. QED
    BY <1>3, <1>4

\* Compose: refused, or the entries are Kept.
LEMMA ComposeDoes ==
    ASSUME TypeOK, Sized, Compose
    PROVE  /\ Steady /\ SameRequest /\ fetch.pc = "pairs"
           /\ \/ Refused
              \/ /\ fetch' \in Fetch /\ fetch'.pc = "links"
                 /\ fetch'.pairs = Kept(fetch.nodes, fetch.profiles)
                 /\ fetch'.nodes = fetch.nodes /\ fetch'.profiles = fetch.profiles
                 /\ fetch'.links = fetch.links
  <1> DEFINE kept == Kept(fetch.nodes, fetch.profiles)
             refuse == kept = <<>> /\ fetch.target = "clash"
  <1>1. /\ fetch \in Fetch /\ fetch.nodes \in Seq(Nodes) /\ fetch.profiles \in Seq(Profiles)
        /\ fetch.user.cap \in Nat
    BY CapsAreNat DEF TypeOK, Fetch, User
  <1>2. /\ fetch.pc = "pairs" /\ Steady
        /\ fetch' = IF refuse THEN Answer(400, <<>>)
                    ELSE [fetch EXCEPT !.pc = "links", !.pairs = kept]
    BY DEF Compose, Working, Steady, Kept
  <1>3. kept \in Seq(Pair)
    BY <1>1, KeptAre DEF Sized
  <1> HIDE DEF kept
  <1>4. CASE refuse
    BY <1>1, <1>2, <1>4, RefusalRefuses
  <1>5. CASE ~refuse
    <2>1. fetch' = [fetch EXCEPT !.pc = "links", !.pairs = kept]
      BY <1>2, <1>5
    <2>2. /\ fetch'.pc = "links" /\ fetch'.nodes = fetch.nodes /\ fetch'.profiles = fetch.profiles
          /\ fetch'.pairs = kept /\ fetch'.links = fetch.links /\ SameRequest
      BY <1>1, <2>1 DEF Fetch, SameRequest
    <2>3. fetch' \in Fetch
      BY <1>1, <1>3, <2>1, WithPairs
    <2>4. QED
      BY <1>2, <2>2, <2>3 DEF kept
  <1>6. QED
    BY <1>4, <1>5

\* The link of an entry.
LinkOf(e) == [node |-> e.node, profile |-> e.profile,
              host |-> NodeAddress(e.profile).host, port |-> NodeAddress(e.profile).port]

\* A link keeps the node and the profile of its entry.
LEMMA LinkTyped ==
    ASSUME NEW e \in Pair, fetch.endpoint \in Addresses \cup {Null}
    PROVE  LinkOf(e) \in Link /\ LinkOf(e).node = e.node /\ LinkOf(e).profile = e.profile
  <1> DEFINE host == NodeAddress(e.profile).host
             port == NodeAddress(e.profile).port
             H == {"self", "", "edge", "hy2"} \cup Forwardable
             P == {"edge", "hy2"} \cup Forwardable
  <1>1. e.node \in Nodes /\ e.profile \in Profiles
    BY DEF Pair
  <1>2. host \in H /\ port \in P
    BY <1>1, AddressTyped
  <1>3. LinkOf(e) = [node |-> e.node, profile |-> e.profile, host |-> host, port |-> port]
    BY DEF LinkOf
  <1>4. Link = [node : Nodes, profile : Profiles, host : H, port : P]
    BY DEF Link
  <1> HIDE DEF host, port, H, P
  <1>5. QED
    BY <1>1, <1>2, <1>3, <1>4

\* The delivered links are those of the entries, one for one.
SameEntries(links, es) ==
    /\ Len(links) = Len(es)
    /\ \A i \in 1..Len(es) : links[i].node = es[i].node /\ links[i].profile = es[i].profile

\* Render: refused, or one link for each entry, in their order.
LEMMA RenderDoes ==
    ASSUME TypeOK, Render
    PROVE  /\ Steady /\ SameRequest /\ fetch.pc = "links"
           /\ \/ Refused
              \/ /\ fetch' \in Fetch /\ fetch'.pc = "idle"
                 /\ fetch'.nodes = <<>> /\ fetch'.profiles = <<>> /\ fetch'.pairs = <<>>
                 /\ SameEntries(fetch'.links, fetch.pairs)
  <1> DEFINE es == fetch.pairs
             gone == /\ "hysteria" \notin switch
                     /\ fetch.target \notin {"xray", "singbox", "clash"}
                     /\ \E e \in ToSet(es) : e.profile.group = "hy2"
             links == [i \in DOMAIN es |-> LinkOf(es[i])]
  <1>1. fetch \in Fetch /\ es \in Seq(Pair) /\ fetch.endpoint \in Addresses \cup {Null}
    BY DEF TypeOK, Fetch
  <1>2. fetch.pc = "links" /\ Steady
    BY DEF Render, Working, Steady
  <1>3. fetch' = IF gone THEN Answer(400, <<>>) ELSE Answer(200, links)
    BY DEF Render, LinkOf
  <1>4. CASE gone
    <2> HIDE DEF gone
    <2>1. fetch' = Answer(400, <<>>)
      BY <1>3, <1>4
    <2>2. QED
      BY <1>1, <1>2, <2>1, RefusalRefuses
  <1>5. CASE ~gone
    <2>1. fetch' = Answer(200, links)
      BY <1>3, <1>5
    <2> HIDE DEF gone
    <2>2. \A i \in 1..Len(es) : /\ es[i] \in Pair /\ LinkOf(es[i]) \in Link
                                /\ LinkOf(es[i]).node = es[i].node /\ LinkOf(es[i]).profile = es[i].profile
      BY <1>1, ElementOfSeq, LinkTyped
    <2>3. Len(es) \in Nat /\ DOMAIN es = 1..Len(es)
      BY <1>1, LenProperties
    <2>4. links \in [1..Len(es) -> Link]
      BY <2>2, <2>3
    <2>5. links \in Seq(Link) /\ Len(links) = Len(es)
      BY <2>3, <2>4, FunctionIsSeq
    <2>6. SameEntries(links, es)
      BY <2>2, <2>3, <2>5 DEF SameEntries
    <2> HIDE DEF links, es
    <2>7. 200 \in Codes
      BY DEF Codes
    <2>8. Answer(200, links) \in Fetch
      BY <1>1, <2>5, <2>7, AnswerTyped, Zenon
    <2>9. /\ fetch'.pc = "idle" /\ fetch'.links = links
          /\ fetch'.nodes = <<>> /\ fetch'.profiles = <<>> /\ fetch'.pairs = <<>> /\ SameRequest
      BY <2>1, AnswerFields DEF SameRequest
    <2>10. QED
      BY <1>2, <2>1, <2>6, <2>8, <2>9 DEF es
  <1>6. QED
    BY <1>4, <1>5

\* Every step keeps the types and the lengths.
LEMMA TypeNext ==
    ASSUME TypeOK, Sized, [SubscriptionNext]_subscriptionVars
    PROVE  TypeOK' /\ Sized'
  <1>1. /\ user \in User /\ nodes \in [Nodes -> Row] /\ platform \in {"vps", "railway"}
        /\ forwarded \subseteq Forwardable /\ switch \subseteq Switches /\ EnginesTyped
        /\ fetch \in Fetch /\ seen \subseteq Ids /\ quiet \in BOOLEAN /\ changes \in 0..MaxChanges
        /\ Len(fetch.links) <= Cardinality(Nodes) * 6
    BY TableIs DEF TypeOK, EnginesTyped
  <1>2. Len(<<>>) = 0 /\ Cardinality(Nodes) \in Nat /\ Cardinality(Nodes) * 6 \in Nat
    BY OriginIsANode, FS_CardinalityType
  <1>3. SUFFICES /\ user' \in User /\ nodes' \in [Nodes -> Row] /\ platform' \in {"vps", "railway"}
                 /\ forwarded' \subseteq Forwardable /\ switch' \subseteq Switches /\ EnginesTyped'
                 /\ seen' \subseteq Ids /\ quiet' \in BOOLEAN /\ changes' \in 0..MaxChanges
                 /\ fetch' \in Fetch
                 /\ Len(fetch'.nodes) <= Cardinality(Nodes) /\ Len(fetch'.profiles) <= 6
                 /\ Len(fetch'.pairs) <= Cardinality(Nodes) * 6
                 /\ Len(fetch'.links) <= Cardinality(Nodes) * 6
    BY TableIs DEF TypeOK, Sized, EnginesTyped
  <1>4. Steady => /\ user' \in User /\ nodes' \in [Nodes -> Row] /\ platform' \in {"vps", "railway"}
                  /\ forwarded' \subseteq Forwardable /\ switch' \subseteq Switches /\ EnginesTyped'
                  /\ seen' \subseteq Ids /\ quiet' \in BOOLEAN /\ changes' \in 0..MaxChanges
    BY <1>1 DEF Steady, settingsVars, EnginesTyped
  <1>5. Refused => /\ fetch' \in Fetch
                   /\ Len(fetch'.nodes) <= Cardinality(Nodes) /\ Len(fetch'.profiles) <= 6
                   /\ Len(fetch'.pairs) <= Cardinality(Nodes) * 6
                   /\ Len(fetch'.links) <= Cardinality(Nodes) * 6
    BY <1>2 DEF Refused
  <1>6. CASE Others
    BY <1>1, <1>6, OthersDo DEF Sized
  <1>7. CASE \E request \in Requests : Begin(request)
    <2>1. /\ fetch' \in Fetch /\ seen' \subseteq Ids /\ quiet' = TRUE /\ changes' = changes
          /\ fetch'.nodes = <<>> /\ fetch'.profiles = <<>> /\ fetch'.pairs = <<>> /\ fetch'.links = <<>>
          /\ UNCHANGED settingsVars
      BY <1>7, BeginDoes
    <2>2. QED
      BY <1>1, <1>2, <2>1 DEF settingsVars, EnginesTyped
  <1>8. CASE ReadNodes
    <2>1. /\ Len(Found) <= Cardinality(Nodes)
      BY <1>1, FoundAre DEF Rows
    <2>2. QED
      BY <1>1, <1>3, <1>4, <1>5, <1>8, <2>1, ReadNodesDoes DEF Sized
  <1>9. CASE ReadProfiles
    <2>1. Asked # Null => Len(Asked) <= 6
      <3>1. fetch.target \in Targets
        BY <1>1 DEF Fetch
      <3>2. QED
        BY <3>1, ProfilesForAre DEF Asked
    <2>2. QED
      BY <1>1, <1>3, <1>4, <1>5, <1>9, <2>1, ReadProfilesDoes DEF Sized
  <1>10. CASE Compose
    <2>1. Len(Kept(fetch.nodes, fetch.profiles)) <= Cardinality(Nodes) * 6
      <3>1. fetch.user.cap \in Nat /\ fetch.nodes \in Seq(Nodes) /\ fetch.profiles \in Seq(Profiles)
        BY <1>1, CapsAreNat DEF Fetch, User
      <3>2. QED
        BY <3>1, KeptAre DEF Sized
    <2>2. QED
      BY <1>1, <1>3, <1>4, <1>5, <1>10, <2>1, ComposeDoes DEF Sized
  <1>11. CASE Render
    BY <1>1, <1>2, <1>3, <1>4, <1>5, <1>11, RenderDoes DEF Sized, SameEntries
  <1>12. CASE UNCHANGED subscriptionVars
    BY <1>1, <1>12 DEF subscriptionVars, settingsVars, EnginesTyped, Sized
  <1>13. QED
    BY <1>6, <1>7, <1>8, <1>9, <1>10, <1>11, <1>12 DEF SubscriptionNext, Others

\* The lists of a request never outgrow the nodes table and the catalog of profiles, and
\* every stored row, engine verdict and answer keeps its type.
THEOREM SubscriptionTyped == SubscriptionSpec => []TypeOK
  <1>1. TypeOK /\ Sized /\ [SubscriptionNext]_subscriptionVars => (TypeOK /\ Sized)'
    BY TypeNext
  <1>2. QED
    BY <1>1, InitTyped, PTL DEF SubscriptionSpec

(***************************************************************************)
(* Only what was served: every name on its way to the client is in seen.   *)
(***************************************************************************)
Vouched ==
    /\ fetch.pc # "idle" => Standing \subseteq seen
    /\ \A i \in 1..Len(fetch.profiles) : fetch.profiles[i].id \in seen
    /\ \A i \in 1..Len(fetch.pairs) : fetch.pairs[i].profile.id \in seen
    /\ \A i \in 1..Len(fetch.links) : fetch.links[i].profile.id \in seen

\* What available_profiles() admits is standing.
LEMMA AvailableStands ==
    ASSUME NEW p \in Profiles, Available(p)
    PROVE  p.id \in Standing
  <1>1. p.group \in {"edge", "direct", "hy2", "core"}
    BY GroupsPart
  <1>2. /\ p.group = "hy2" => p.id = "hysteria2"
        /\ p.group = "core" => p.id = "anytls"
    <2>1. \A i \in 1..6 : /\ Table[i].group = "hy2" => Table[i].id = "hysteria2"
                          /\ Table[i].group = "core" => Table[i].id = "anytls"
      BY DEF Table
    <2>2. QED
      BY <2>1, TableIs DEF Has
  <1>3. /\ p.group = "edge" => p.id \in EdgeIds
        /\ p.group = "direct" => p.id \in DirectIds
    BY DEF EdgeIds, DirectIds
  <1>4. /\ AvailableUnserved(p)
        /\ p.group = "core" => published = Null \/ p.id \in published
        /\ served = Null \/ p.id \in served \/ p.group \in {"hy2", "core"}
    BY DEF Available
  <1>5. CASE p.group \in {"edge", "direct"}
    BY <1>3, <1>4, <1>5 DEF Standing
  <1>6. CASE p.group = "hy2"
    <2>1. p.id # "vless-reality" /\ p.id # "trojan-grpc"
      BY <1>2, <1>6
    <2>2. "hysteria" \in switch
      BY <1>4, <1>6, <2>1 DEF AvailableUnserved
    <2>3. QED
      BY <1>2, <1>6, <2>2 DEF Standing
  <1>7. CASE p.group = "core"
    <2>1. p.id # "vless-reality" /\ p.id # "trojan-grpc"
      BY <1>2, <1>7
    <2>2. "anytls" \in switch
      BY <1>4, <1>7, <2>1 DEF AvailableUnserved
    <2>3. QED
      BY <1>2, <1>4, <1>7, <2>2 DEF Standing
  <1>8. QED
    BY <1>1, <1>5, <1>6, <1>7

\* Nothing is on its way at first.
LEMMA VouchedInit == SubscriptionInit => Vouched
  <1>1. Len(<<>>) = 0
    OBVIOUS
  <1>2. Resting.pc = "idle" /\ Resting.profiles = <<>> /\ Resting.pairs = <<>> /\ Resting.links = <<>>
    BY DEF Resting
  <1>3. QED
    BY <1>1, <1>2 DEF SubscriptionInit, Vouched

\* Names come from Standing when the profiles are read, from seen afterwards; a change
\* adds to seen, so that what was served once stays vouched for.
LEMMA VouchedNext ==
    ASSUME TypeOK, Sized, Vouched, [SubscriptionNext]_subscriptionVars
    PROVE  Vouched'
  <1>1. Len(<<>>) = 0
    OBVIOUS
  <1>2. UNCHANGED settingsVars => Standing' = Standing
    BY DEF settingsVars, Standing
  <1>3. /\ fetch \in Fetch /\ fetch.user.cap \in Nat /\ fetch.nodes \in Seq(Nodes)
        /\ fetch.profiles \in Seq(Profiles) /\ fetch.target \in Targets
    BY CapsAreNat DEF TypeOK, Fetch, User
  <1>4. Refused => Vouched'
    BY <1>1 DEF Refused, Vouched
  <1>5. CASE Others
    <2>1. seen' = seen \cup Standing' /\ fetch' = fetch
      BY <1>5, OthersDo
    <2>2. QED
      BY <2>1 DEF Vouched
  <1>6. CASE \E request \in Requests : Begin(request)
    <2>1. /\ seen' = Standing /\ UNCHANGED settingsVars
          /\ fetch'.profiles = <<>> /\ fetch'.pairs = <<>> /\ fetch'.links = <<>>
      BY <1>6, BeginDoes
    <2>2. QED
      BY <1>1, <1>2, <2>1 DEF Vouched
  <1>7. CASE ReadNodes
    <2>1. /\ UNCHANGED settingsVars /\ seen' = seen /\ fetch.pc # "idle"
          /\ \/ Refused
             \/ /\ fetch'.profiles = fetch.profiles /\ fetch'.pairs = fetch.pairs
                /\ fetch'.links = fetch.links
      BY <1>7, ReadNodesDoes DEF Steady
    <2>2. QED
      BY <1>2, <1>4, <2>1 DEF Vouched
  <1>8. CASE ReadProfiles
    <2>1. /\ UNCHANGED settingsVars /\ seen' = seen /\ fetch.pc # "idle"
          /\ \/ Refused
             \/ /\ Asked # Null /\ fetch'.profiles = Asked
                /\ fetch'.pairs = fetch.pairs /\ fetch'.links = fetch.links
      BY <1>8, ReadProfilesDoes DEF Steady
    <2>2. Asked # Null => \A i \in 1..Len(Asked) : Asked[i].id \in Standing
      <3>1. Asked # Null => \A i \in 1..Len(Asked) : Asked[i] \in Profiles /\ Available(Asked[i])
        BY <1>3, ProfilesForAre DEF Asked, Has
      <3>2. QED
        BY <3>1, AvailableStands
    <2>3. QED
      BY <1>2, <1>4, <2>1, <2>2 DEF Vouched
  <1>9. CASE Compose
    <2> DEFINE kept == Kept(fetch.nodes, fetch.profiles)
    <2>1. /\ UNCHANGED settingsVars /\ seen' = seen /\ fetch.pc # "idle"
          /\ \/ Refused
             \/ /\ fetch'.pairs = kept
                /\ fetch'.profiles = fetch.profiles /\ fetch'.links = fetch.links
      BY <1>9, ComposeDoes DEF Steady
    <2>2. \A i \in 1..Len(kept) : Has(fetch.profiles, kept[i].profile)
      BY <1>3, KeptAre DEF Belongs, Sized
    <2> HIDE DEF kept
    <2>3. \A i \in 1..Len(kept) : kept[i].profile.id \in seen
      BY <2>2 DEF Has, Vouched
    <2>4. QED
      BY <1>2, <1>4, <2>1, <2>3 DEF Vouched
  <1>10. CASE Render
    <2>1. /\ UNCHANGED settingsVars /\ seen' = seen /\ fetch.pc # "idle"
          /\ \/ Refused
             \/ /\ fetch'.profiles = <<>> /\ fetch'.pairs = <<>>
                /\ SameEntries(fetch'.links, fetch.pairs)
      BY <1>10, RenderDoes DEF Steady
    <2>2. QED
      BY <1>1, <1>2, <1>4, <2>1 DEF Vouched, SameEntries
  <1>11. CASE UNCHANGED subscriptionVars
    BY <1>11 DEF subscriptionVars, settingsVars, Standing, Vouched
  <1>12. QED
    BY <1>5, <1>6, <1>7, <1>8, <1>9, <1>10, <1>11 DEF SubscriptionNext, Others

\* A client is never handed an entry of a protocol that was at no moment of its request
\* both served by an engine and switched on, whatever changes between the statements
\* of render() and whichever thread made the change.
THEOREM NothingUnserved == SubscriptionSpec => []OnlyPublished
  <1>1. SubscriptionInit => TypeOK /\ Sized /\ Vouched
    BY InitTyped, VouchedInit
  <1>2. TypeOK /\ Sized /\ Vouched /\ [SubscriptionNext]_subscriptionVars => (TypeOK /\ Sized /\ Vouched)'
    BY TypeNext, VouchedNext
  <1>3. TypeOK /\ Vouched => OnlyPublished
    <2>1. TypeOK => DOMAIN fetch.links = 1..Len(fetch.links)
      BY LenProperties DEF TypeOK, Fetch
    <2>2. QED
      BY <2>1 DEF OnlyPublished, Vouched, Delivered, ToSet
  <1>4. QED
    BY <1>1, <1>2, <1>3, PTL DEF SubscriptionSpec

(***************************************************************************)
(* The scope: from the slice of the catalog to the links.                  *)
(***************************************************************************)
Fits(n, p) ==
    /\ p \in PerNode => Matches(n, Wanted)
    /\ p.group = "core" => Matches(Origin, fetch.user.scope)

InScope ==
    /\ \A i \in 1..Len(fetch.nodes) : Matches(fetch.nodes[i], Wanted)
    /\ \A i \in 1..Len(fetch.pairs) : Fits(fetch.pairs[i].node, fetch.pairs[i].profile)
    /\ \A i \in 1..Len(fetch.links) : Fits(fetch.links[i].node, fetch.links[i].profile)

\* Nothing is on its way at first.
LEMMA InScopeInit == SubscriptionInit => InScope
  <1>1. Len(<<>>) = 0
    OBVIOUS
  <1>2. Resting.nodes = <<>> /\ Resting.pairs = <<>> /\ Resting.links = <<>>
    BY DEF Resting
  <1>3. QED
    BY <1>1, <1>2 DEF SubscriptionInit, InScope

\* The slice is taken once, with the scope the request began with; no later step widens it.
LEMMA InScopeNext ==
    ASSUME TypeOK, Sized, InScope, [SubscriptionNext]_subscriptionVars
    PROVE  InScope'
  <1>1. Len(<<>>) = 0
    OBVIOUS
  <1>2. /\ fetch \in Fetch /\ fetch.user.cap \in Nat /\ fetch.nodes \in Seq(Nodes)
        /\ fetch.profiles \in Seq(Profiles) /\ Rows
    BY CapsAreNat DEF TypeOK, Fetch, User, Rows
  <1>3. Refused => InScope'
    BY <1>1 DEF Refused, InScope
  <1>4. SameRequest => \A n, p : (Matches(n, Wanted) => Matches(n, Wanted)') /\ (Fits(n, p) => Fits(n, p)')
    BY DEF SameRequest, Fits, Matches, Wanted
  <1>5. CASE Others
    <2>1. fetch' = fetch
      BY <1>5, OthersDo
    <2>2. SameRequest
      BY <2>1 DEF SameRequest
    <2>3. QED
      BY <1>4, <2>1, <2>2 DEF InScope
  <1>6. CASE \E request \in Requests : Begin(request)
    <2>1. fetch'.nodes = <<>> /\ fetch'.pairs = <<>> /\ fetch'.links = <<>>
      BY <1>6, BeginDoes
    <2>2. QED
      BY <1>1, <2>1 DEF InScope
  <1>7. CASE ReadNodes
    <2>1. /\ SameRequest
          /\ \/ Refused
             \/ fetch'.nodes = Found /\ fetch'.pairs = fetch.pairs /\ fetch'.links = fetch.links
      BY <1>7, ReadNodesDoes
    <2>2. \A i \in 1..Len(Found) : Matches(Found[i], Wanted)
      BY <1>2, FoundAre DEF Slice
    <2>3. QED
      BY <1>3, <1>4, <2>1, <2>2 DEF InScope
  <1>8. CASE ReadProfiles
    <2>1. /\ SameRequest
          /\ \/ Refused
             \/ fetch'.nodes = fetch.nodes /\ fetch'.pairs = fetch.pairs /\ fetch'.links = fetch.links
      BY <1>8, ReadProfilesDoes
    <2>2. QED
      BY <1>3, <1>4, <2>1 DEF InScope
  <1>9. CASE Compose
    <2> DEFINE kept == Kept(fetch.nodes, fetch.profiles)
    <2>1. /\ SameRequest
          /\ \/ Refused
             \/ fetch'.nodes = fetch.nodes /\ fetch'.pairs = kept /\ fetch'.links = fetch.links
      BY <1>9, ComposeDoes
    <2>2. \A i \in 1..Len(kept) : Belongs(kept[i], fetch.user, fetch.nodes, fetch.profiles, fetch.node = Null)
      BY <1>2, KeptAre DEF Sized
    <2> HIDE DEF kept
    <2>3. ASSUME NEW i \in 1..Len(kept)
          PROVE  Fits(kept[i].node, kept[i].profile)
      <3>1. kept[i].profile \in Profiles
        BY <2>2 DEF Belongs, Pair
      <3>2. /\ kept[i].profile \in PerNode => kept[i].profile.group \notin Extras
            /\ kept[i].profile.group = "core" => kept[i].profile \notin PerNode
        BY <3>1 DEF PerNode, OfGroup, Extras
      <3>3. kept[i].profile \in PerNode => Has(fetch.nodes, kept[i].node)
        BY <2>2, <3>2 DEF Belongs, Extras
      <3>4. kept[i].profile.group = "core" => Matches(Origin, fetch.user.scope)
        BY <2>2, <3>2 DEF Belongs
      <3>5. QED
        BY <3>3, <3>4 DEF Fits, Has, InScope
    <2>4. QED
      BY <1>3, <1>4, <2>1, <2>3 DEF InScope
  <1>10. CASE Render
    <2>1. /\ SameRequest
          /\ \/ Refused
             \/ /\ fetch'.nodes = <<>> /\ fetch'.pairs = <<>>
                /\ SameEntries(fetch'.links, fetch.pairs)
      BY <1>10, RenderDoes
    <2>2. QED
      BY <1>1, <1>3, <1>4, <2>1 DEF InScope, SameEntries
  <1>11. CASE UNCHANGED subscriptionVars
    <2>1. fetch' = fetch
      BY <1>11 DEF subscriptionVars
    <2>2. SameRequest
      BY <2>1 DEF SameRequest
    <2>3. QED
      BY <1>4, <2>1, <2>2 DEF InScope
  <1>12. QED
    BY <1>5, <1>6, <1>7, <1>8, <1>9, <1>10, <1>11 DEF SubscriptionNext, Others

\* "Only my own server" and "only the US edge" hold for each entry of each answer: the
\* entries of the nodes follow the scope of the request, else the user's, the hosted protocols the
\* user's, however the catalog and the user's row change between the reads.
THEOREM ScopeIsHonoured == SubscriptionSpec => []ScopeHonoured
  <1>1. SubscriptionInit => TypeOK /\ Sized /\ InScope
    BY InitTyped, InScopeInit
  <1>2. TypeOK /\ Sized /\ InScope /\ [SubscriptionNext]_subscriptionVars => (TypeOK /\ Sized /\ InScope)'
    BY TypeNext, InScopeNext
  <1>3. TypeOK /\ InScope => ScopeHonoured
    <2>1. TypeOK => /\ DOMAIN fetch.links = 1..Len(fetch.links)
                    /\ \A i \in 1..Len(fetch.links) : fetch.links[i].profile \in Profiles
      <3>1. TypeOK => fetch.links \in Seq(Link)
        BY DEF TypeOK, Fetch
      <3>2. TypeOK => \A i \in 1..Len(fetch.links) : fetch.links[i] \in Link
        BY <3>1, ElementOfSeq
      <3>3. \A l \in Link : l.profile \in Profiles
        BY DEF Link
      <3>4. QED
        BY <3>1, <3>2, <3>3, LenProperties
    <2>2. \A p \in Profiles : p.group \in {"edge", "direct"} => p \in PerNode
      BY DEF PerNode, OfGroup, Extras
    <2>3. QED
      BY <2>1, <2>2 DEF ScopeHonoured, InScope, Fits, Delivered, ToSet
  <1>4. QED
    BY <1>1, <1>2, <1>3, PTL DEF SubscriptionSpec

(***************************************************************************)
(* The whole answer: as long as nothing changes, each step works out what  *)
(* the state it started from says.                                         *)
(***************************************************************************)
Agreed ==
    quiet =>
        /\ fetch.pc \in {"profiles", "pairs", "links"} => fetch.nodes = Found
        /\ fetch.pc \in {"pairs", "links"} => Asked # Null /\ fetch.profiles = Asked
        /\ fetch.pc = "links" => fetch.pairs = Kept(Found, Asked)
        /\ Answered => Asked # Null /\ SameEntries(fetch.links, Kept(Found, Asked))

\* The rows and the request decide the nodes.
LEMMA FoundStays ==
    ASSUME UNCHANGED settingsVars, SameRequest
    PROVE  Found' = Found
  <1>1. nodes' = nodes /\ fetch'.scope = fetch.scope /\ fetch'.user = fetch.user /\ fetch'.node = fetch.node
    BY DEF settingsVars, SameRequest
  <1>2. Wanted' = Wanted
    BY <1>1 DEF Wanted
  <1>3. \A n : Failed(n)' = Failed(n)
    BY <1>1 DEF Failed
  <1>4. \A m, n : Sooner(m, n)' = Sooner(m, n)
    BY <1>1, <1>3 DEF Sooner, SortKey
  <1>5. \A scope : Slice(scope)' = Slice(scope)
    BY <1>1 DEF Slice, Matches
  <1>6. ActiveNodes(Wanted)' = ActiveNodes(Wanted)
    <2>1. [n \in Slice(Wanted)' |-> {m \in Slice(Wanted)' : Sooner(m, n)'}]
          = [n \in Slice(Wanted) |-> {m \in Slice(Wanted) : Sooner(m, n)}]
      BY <1>2, <1>4, <1>5
    <2>2. {n \in Nodes : ~Failed(n)' \/ n = Origin} = {n \in Nodes : ~Failed(n) \/ n = Origin}
      BY <1>3
    <2>3. QED
      BY <1>2, <1>5, <2>1, <2>2 DEF ActiveNodes
  <1>7. QED
    BY <1>1, <1>6 DEF Found

\* The settings, the engines and the request decide the profiles.
LEMMA AskedStays ==
    ASSUME UNCHANGED settingsVars, SameRequest
    PROVE  Asked' = Asked
  <1>1. /\ platform' = platform /\ forwarded' = forwarded /\ switch' = switch /\ served' = served
        /\ published' = published /\ fetch'.target = fetch.target /\ fetch'.user = fetch.user
    BY DEF settingsVars, SameRequest
  <1>2. \A p : Available(p)' = Available(p)
    <2>1. DirectEndpoint' = DirectEndpoint
      BY <1>1 DEF DirectEndpoint
    <2>2. \A listener : /\ PublicEndpoint(listener)' = PublicEndpoint(listener)
                        /\ Reachable(listener)' = Reachable(listener)
      BY <1>1, <2>1 DEF PublicEndpoint, Reachable
    <2>3. \A p : AvailableUnserved(p)' = AvailableUnserved(p)
      BY <1>1, <2>1, <2>2 DEF AvailableUnserved
    <2>4. QED
      BY <1>1, <2>3 DEF Available
  <1>3. \A protocols : AvailableProfiles(protocols)' = AvailableProfiles(protocols)
    <2>1. ASSUME NEW protocols
          PROVE  {p \in Profiles : Available(p)' /\ (p.protocol \in protocols \/ p.group = "hy2")}
                 = {p \in Profiles : Available(p) /\ (p.protocol \in protocols \/ p.group = "hy2")}
      BY <1>2
    <2>2. QED
      BY <2>1 DEF AvailableProfiles
  <1>4. \A target, protocols : ProfilesFor(target, protocols)' = ProfilesFor(target, protocols)
    BY <1>2, <1>3 DEF ProfilesFor
  <1>5. QED
    BY <1>1, <1>4 DEF Asked

\* And together they decide the entries.
LEMMA KeptStays ==
    ASSUME UNCHANGED settingsVars, SameRequest
    PROVE  Kept(Found, Asked)' = Kept(Found, Asked)
  <1>1. Found' = Found /\ Asked' = Asked
    BY FoundStays, AskedStays
  <1>2. QED
    BY <1>1 DEF SameRequest, Kept, EntryPairs, Matches

\* Nothing is worked out at first.
LEMMA AgreedInit == SubscriptionInit => Agreed
  <1>1. Resting.pc = "idle" /\ Resting.status = 0
    BY DEF Resting
  <1>2. QED
    BY <1>1 DEF SubscriptionInit, Agreed, Answered

\* A step works out what its state says, or ends the quiet.
LEMMA AgreedNext ==
    ASSUME TypeOK, Sized, Agreed, [SubscriptionNext]_subscriptionVars
    PROVE  Agreed'
  <1>1. Refused => Agreed'
    BY DEF Refused, Agreed, Answered
  <1>2. ASSUME Steady, SameRequest
        PROVE  Found' = Found /\ Asked' = Asked /\ Kept(Found, Asked)' = Kept(Found, Asked) /\ quiet' = quiet
    BY <1>2, FoundStays, AskedStays, KeptStays DEF Steady
  <1>3. CASE Others
    <2>1. quiet' = FALSE
      BY <1>3, OthersDo
    <2>2. QED
      BY <2>1 DEF Agreed
  <1>4. CASE \E request \in Requests : Begin(request)
    <2>1. fetch'.pc \in {"idle", "nodes"} /\ fetch'.status # 200
      BY <1>4, BeginDoes
    <2>2. QED
      BY <2>1 DEF Agreed, Answered
  <1>5. CASE ReadNodes
    <2>1. /\ Steady /\ SameRequest
          /\ Refused \/ (fetch'.pc = "profiles" /\ fetch'.nodes = Found)
      BY <1>5, ReadNodesDoes
    <2>2. QED
      BY <1>1, <1>2, <2>1 DEF Agreed, Answered
  <1>6. CASE ReadProfiles
    <2>1. /\ Steady /\ SameRequest /\ fetch.pc = "profiles"
          /\ \/ Refused
             \/ fetch'.pc = "pairs" /\ Asked # Null /\ fetch'.profiles = Asked /\ fetch'.nodes = fetch.nodes
      BY <1>6, ReadProfilesDoes
    <2>2. quiet => fetch.nodes = Found
      BY <2>1 DEF Agreed
    <2>3. QED
      BY <1>1, <1>2, <2>1, <2>2 DEF Agreed, Answered
  <1>7. CASE Compose
    <2>1. /\ Steady /\ SameRequest /\ fetch.pc = "pairs"
          /\ \/ Refused
             \/ /\ fetch'.pc = "links" /\ fetch'.pairs = Kept(fetch.nodes, fetch.profiles)
                /\ fetch'.nodes = fetch.nodes /\ fetch'.profiles = fetch.profiles
      BY <1>7, ComposeDoes
    <2>2. quiet => fetch.nodes = Found /\ Asked # Null /\ fetch.profiles = Asked
      BY <2>1 DEF Agreed
    <2>3. QED
      BY <1>1, <1>2, <2>1, <2>2 DEF Agreed, Answered
  <1>8. CASE Render
    <2>1. /\ Steady /\ SameRequest /\ fetch.pc = "links"
          /\ Refused \/ (fetch'.pc = "idle" /\ SameEntries(fetch'.links, fetch.pairs))
      BY <1>8, RenderDoes
    <2>2. quiet => Asked # Null /\ fetch.pairs = Kept(Found, Asked)
      BY <2>1 DEF Agreed
    <2>3. CASE Refused
      BY <1>1, <2>3
    <2>4. CASE ~Refused
      <3>1. quiet => Asked # Null /\ SameEntries(fetch'.links, Kept(Found, Asked))
        BY <2>1, <2>2, <2>4
      <3>2. quiet' => Asked' # Null /\ SameEntries(fetch.links, Kept(Found, Asked))'
        BY <1>2, <2>1, <3>1 DEF SameEntries
      <3>3. fetch'.pc = "idle"
        BY <2>1, <2>4
      <3>4. QED
        BY <3>2, <3>3 DEF Agreed
    <2>5. QED
      BY <2>3, <2>4
  <1>9. CASE UNCHANGED subscriptionVars
    <2>1. fetch' = fetch /\ Steady /\ SameRequest
      BY <1>9 DEF subscriptionVars, Steady, SameRequest
    <2>2. /\ Found' = Found /\ Asked' = Asked /\ Kept(Found, Asked)' = Kept(Found, Asked) /\ quiet' = quiet
          /\ Answered' = Answered
      BY <1>2, <2>1 DEF Answered
    <2>3. SameEntries(fetch.links, Kept(Found, Asked)) => SameEntries(fetch.links, Kept(Found, Asked))'
      BY <2>1, <2>2 DEF SameEntries
    <2>4. QED
      BY <2>1, <2>2, <2>3 DEF Agreed
  <1>10. QED
    BY <1>3, <1>4, <1>5, <1>6, <1>7, <1>8, <1>9 DEF SubscriptionNext, Others

\* As many as a list without repetitions is long.
LEMMA ListedOnce ==
    ASSUME NEW n \in Nat, NEW S, NEW f \in [1..n -> S],
           \A i, j \in 1..n : f[i] = f[j] => i = j, \A e \in S : \E i \in 1..n : f[i] = e
    PROVE  Cardinality(S) = n
  <1>1. f \in Bijection(1..n, S)
    BY DEF Bijection, Injection, Surjection, IsInjective
  <1>2. QED
    BY <1>1, FS_CountingElements DEF ExistsBijection

\* An entry as Due has it.
PairOf(e) == <<e.node, e.profile>>

\* The smart link of all nodes holds exactly what is due.
LEMMA DueBelongs ==
    ASSUME TypeOK, fetch.target = "auto", fetch.node = Null, Publishable # {}
    PROVE  /\ \A e \in Pair : Belongs(e, fetch.user, Found, Asked, TRUE) <=> PairOf(e) \in Due
           /\ \A d \in Due : \E e \in Pair : d = PairOf(e)
  <1> DEFINE wanted == UserProtocols(fetch.user)
  <1>1. Asked = AvailableProfiles(wanted)
    BY SmartIsWhole DEF Asked
  <1>2. \A p : Has(Asked, p) <=> p \in Profiles /\ Available(p) /\ (p.protocol \in wanted \/ p.group = "hy2")
    BY <1>1, AvailableProfilesAre
  <1>3. Publishable = Good(Wanted) /\ Publishable \subseteq Nodes
    BY DEF Publishable, Good, Slice
  <1>4. \A n : Has(Found, n) <=> n \in Publishable
    <2>1. Rows
      BY DEF TypeOK, Rows
    <2>2. QED
      BY <1>3, <2>1, FoundAre DEF Has
  <1> HIDE DEF wanted
  <1>5. \A n, p : <<n, p>> \in Due <=>
           \/ /\ n \in Publishable /\ p \in Profiles /\ Available(p) /\ p.protocol \in wanted
              /\ p.group \in {"edge", "direct"}
           \/ /\ n = Origin /\ p \in Profiles /\ Available(p) /\ p.protocol \in wanted
              /\ p.group = "core" /\ Matches(Origin, fetch.user.scope)
           \/ n = Origin /\ p \in Profiles /\ p.group = "hy2" /\ Available(p)
    BY DEF Due, wanted
  <1>6. ASSUME NEW e \in Pair
        PROVE  Belongs(e, fetch.user, Found, Asked, TRUE) <=> PairOf(e) \in Due
    <2>1. e.node \in Nodes /\ e.profile \in Profiles
      BY DEF Pair
    <2>2. e.profile \in PerNode <=> e.profile.group \in {"edge", "direct"}
      BY <2>1, GroupsPart
    <2>3. QED
      BY <1>2, <1>4, <1>5, <2>1, <2>2 DEF Belongs, PairOf
  <1>7. ASSUME NEW d \in Due
        PROVE  \E e \in Pair : d = PairOf(e)
    <2>1. PICK n, p : d = <<n, p>> /\ n \in Nodes /\ p \in Profiles
      BY <1>3, OriginIsANode DEF Due
    <2>2. [node |-> n, profile |-> p] \in Pair /\ d = PairOf([node |-> n, profile |-> p])
      BY <2>1 DEF Pair, PairOf
    <2>3. QED
      BY <2>2
  <1>8. QED
    BY <1>6, <1>7

\* One of the pairs, for each of the entries.
LEMMA SamePair ==
    ASSUME NEW a \in Pair, NEW b \in Pair, PairOf(a) = PairOf(b)
    PROVE  a = b
  BY DEF PairOf, Pair

\* What Agreed says of an answer.
LEMMA AnswerIsKept ==
    ASSUME TypeOK, Agreed, Answered, quiet
    PROVE  /\ Rows /\ fetch.user.cap \in Nat
           /\ Found \in Seq(Nodes) /\ Len(Found) <= Cardinality(Nodes)
           /\ Asked \in Seq(Profiles) /\ Len(Asked) <= 6
           /\ DOMAIN fetch.links = 1..Len(fetch.links) /\ Len(fetch.links) \in Nat
           /\ SameEntries(fetch.links, Kept(Found, Asked))
  <1>1. /\ Rows /\ fetch.user.cap \in Nat /\ fetch.links \in Seq(Link) /\ fetch.target \in Targets
    BY CapsAreNat DEF TypeOK, Rows, Fetch, User
  <1>2. Asked # Null /\ SameEntries(fetch.links, Kept(Found, Asked))
    BY DEF Agreed
  <1>3. Asked \in Seq(Profiles) /\ Len(Asked) <= 6
    BY <1>1, <1>2, ProfilesForAre DEF Asked
  <1>4. Found \in Seq(Nodes) /\ Len(Found) <= Cardinality(Nodes)
    BY <1>1, FoundAre
  <1>5. DOMAIN fetch.links = 1..Len(fetch.links) /\ Len(fetch.links) \in Nat
    BY <1>1, LenProperties
  <1>6. QED
    BY <1>1, <1>2, <1>3, <1>4, <1>5

\* The links of an undisturbed answer come fastest node first.
LEMMA AnswerInOrder ==
    ASSUME TypeOK, Agreed, Answered, quiet
    PROVE  InOrder
  <1> DEFINE es == Kept(Found, Asked)
  <1>1. /\ Rows /\ fetch.user.cap \in Nat
        /\ Found \in Seq(Nodes) /\ Len(Found) <= Cardinality(Nodes)
        /\ Asked \in Seq(Profiles) /\ Len(Asked) <= 6
        /\ DOMAIN fetch.links = 1..Len(fetch.links)
        /\ SameEntries(fetch.links, es)
    BY AnswerIsKept
  <1>2. Sorted(Found) /\ (Good(Wanted) # {} => \A i \in 1..Len(Found) : Found[i] \in Good(Wanted))
    BY <1>1, FoundAre
  <1>3. /\ InNodeOrder(es)
        /\ \A i \in 1..Len(es) : Belongs(es[i], fetch.user, Found, Asked, fetch.node = Null)
    BY <1>1, <1>2, KeptAre
  <1> HIDE DEF es
  <1>4. Publishable = Good(Wanted)
    BY DEF Publishable, Good, Slice
  <1>5. ASSUME NEW i \in 1..Len(es), es[i].profile \in PerNode, Publishable # {}
        PROVE  es[i].node \in Publishable
    <2>1. Belongs(es[i], fetch.user, Found, Asked, fetch.node = Null) /\ es[i].profile \in Profiles
      BY <1>3 DEF Belongs, Pair
    <2>2. es[i].profile.group \in {"edge", "direct"}
      BY <1>5, <2>1, GroupsPart
    <2>3. Has(Found, es[i].node)
      BY <2>1, <2>2 DEF Belongs
    <2>4. QED
      BY <1>2, <1>4, <1>5, <2>3 DEF Has
  <1>6. \A n \in Publishable : ~(Failed(n) /\ n # Origin)
    BY DEF Publishable
  <1>7. /\ Len(fetch.links) = Len(es)
        /\ \A i \in 1..Len(es) : fetch.links[i].node = es[i].node /\ fetch.links[i].profile = es[i].profile
    BY <1>1 DEF SameEntries
  <1>8. QED
    BY <1>1, <1>3, <1>5, <1>6, <1>7 DEF InOrder, InNodeOrder

\* And they are all that is due, each once, up to the cap.
LEMMA AnswerUpToCap ==
    ASSUME TypeOK, Agreed, Answered, quiet, fetch.target = "auto", fetch.node = Null, Publishable # {}
    PROVE  UpToCap
  <1> DEFINE u == fetch.user
             all == Entries(u, Found, Asked, TRUE)
             es == EntryPairs(u, Found, Asked, TRUE)
             given == {<<l.node, l.profile>> : l \in Delivered}
  <1>1. /\ Rows /\ u.cap \in Nat
        /\ Found \in Seq(Nodes) /\ Asked \in Seq(Profiles)
        /\ DOMAIN fetch.links = 1..Len(fetch.links) /\ Len(fetch.links) \in Nat
        /\ SameEntries(fetch.links, Kept(Found, Asked))
    BY AnswerIsKept
  <1>2. Kept(Found, Asked) = es
    BY DEF Kept
  <1>3. Once(Found) /\ Once(Asked)
    <2>1. Sorted(Found)
      BY <1>1, FoundAre
    <2>2. Once(Found)
      BY <1>1, <2>1, SortedOnce
    <2>3. Asked = AvailableProfiles(UserProtocols(u))
      BY SmartIsWhole DEF Asked
    <2>4. QED
      BY <2>2, <2>3, AvailableProfilesAre
  <1>4. /\ all \in Seq(Pair) /\ Once(all)
        /\ \A e : Has(all, e) <=> Belongs(e, u, Found, Asked, TRUE)
    BY <1>1, <1>3, EntriesAre
  <1>5. /\ Len(es) \in Nat /\ Len(all) \in Nat /\ Len(es) <= Len(all)
        /\ Len(es) = IF u.cap = 0 \/ Len(all) < u.cap THEN Len(all) ELSE u.cap
        /\ \A i \in 1..Len(es) : es[i] = all[i]
    BY <1>1, CapIsPrefix
  <1>6. /\ \A e \in Pair : Belongs(e, u, Found, Asked, TRUE) <=> PairOf(e) \in Due
        /\ \A d \in Due : \E e \in Pair : d = PairOf(e)
    BY DueBelongs
  <1> HIDE DEF u, all, es
  <1>7. \A i \in 1..Len(all) : all[i] \in Pair /\ PairOf(all[i]) \in Due
    <2>1. \A i \in 1..Len(all) : all[i] \in Pair /\ Has(all, all[i])
      BY <1>4, ElementOfSeq DEF Has
    <2>2. QED
      BY <1>4, <1>6, <2>1
  <1>8. \A i, j \in 1..Len(all) : PairOf(all[i]) = PairOf(all[j]) => i = j
    BY <1>4, <1>7, SamePair DEF Once
  <1>9. Cardinality(Due) = Len(all)
    <2> DEFINE f == [i \in 1..Len(all) |-> PairOf(all[i])]
    <2>1. f \in [1..Len(all) -> Due]
      BY <1>7
    <2>2. \A i, j \in 1..Len(all) : f[i] = f[j] => i = j
      BY <1>8
    <2>3. ASSUME NEW d \in Due PROVE \E i \in 1..Len(all) : f[i] = d
      <3>1. PICK e \in Pair : d = PairOf(e)
        BY <1>6
      <3>2. PICK i \in 1..Len(all) : all[i] = e
        BY <1>4, <1>6, <3>1 DEF Has
      <3>3. QED
        BY <3>1, <3>2
    <2> HIDE DEF f
    <2>4. Len(all) \in Nat
      BY <1>5
    <2>5. QED
      BY <2>1, <2>2, <2>3, <2>4, ListedOnce
  <1>10. /\ Len(fetch.links) = Len(es)
         /\ \A i \in 1..Len(es) : <<fetch.links[i].node, fetch.links[i].profile>> = PairOf(all[i])
    BY <1>1, <1>2, <1>5 DEF SameEntries, PairOf
  <1>11. /\ \A i \in 1..Len(es) : PairOf(all[i]) \in given
         /\ \A d \in given : \E i \in 1..Len(es) : PairOf(all[i]) = d
    BY <1>1, <1>10 DEF Delivered, ToSet
  <1>12. given \subseteq Due
    BY <1>5, <1>7, <1>11
  <1> HIDE DEF given
  <1>13. Cardinality(given) = Len(es)
    <2> DEFINE f == [i \in 1..Len(es) |-> PairOf(all[i])]
    <2>1. f \in [1..Len(es) -> given]
      BY <1>11
    <2>2. \A i, j \in 1..Len(es) : f[i] = f[j] => i = j
      BY <1>5, <1>8
    <2>3. \A d \in given : \E i \in 1..Len(es) : f[i] = d
      BY <1>11
    <2> HIDE DEF f
    <2>4. Len(es) \in Nat
      BY <1>5
    <2>5. QED
      BY <2>1, <2>2, <2>3, <2>4, ListedOnce
  <1>14. QED
    BY <1>5, <1>9, <1>10, <1>12, <1>13 DEF UpToCap, given, u

\* Between two changes of the stored rows, an answer is the whole of what is due to the
\* user, each entry once, cut by a cap to exactly that many, fastest node first, and no
\* address whose probe failed is in it unless its slice has nothing else: for every
\* catalog, every scope and every cap.
THEOREM WholeAndFastestFirst == SubscriptionSpec => []FastestFirstAndWhole
  <1>1. SubscriptionInit => TypeOK /\ Sized /\ Agreed
    BY InitTyped, AgreedInit
  <1>2. TypeOK /\ Sized /\ Agreed /\ [SubscriptionNext]_subscriptionVars => (TypeOK /\ Sized /\ Agreed)'
    BY TypeNext, AgreedNext
  <1>3. TypeOK /\ Agreed => FastestFirstAndWhole
    BY AnswerInOrder, AnswerUpToCap DEF FastestFirstAndWhole
  <1>4. QED
    BY <1>1, <1>2, <1>3, PTL DEF SubscriptionSpec
=============================================================================
