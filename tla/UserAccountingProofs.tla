------------------------ MODULE UserAccountingProofs ------------------------
(***************************************************************************)
(* Proofs about UserAccounting, for every set of users, every quota and    *)
(* every bound: the state is well typed, no byte is charged twice and none *)
(* is lost between passes, both usage columns only ever hold what was      *)
(* charged or tracked, a user at the quota is charged at most twice more,  *)
(* and no user is disabled under it.                                       *)
(***************************************************************************)
EXTENDS UserAccounting, TLAPS

InPass == pc \in {"users", "charge", "disable"}

\* Every row the pass still has to reach was answered by statsquery, and the row
\* it is at is not among them.
TodoSampled ==
    InPass => /\ \A u \in todo : totals[u] # None
              /\ pc = "charge" => cur \notin todo

Types == TypeOK /\ TodoSampled

-----------------------------------------------------------------------------

\* The initial rows have the declared types.
LEMMA TypesInit == Init => Types
  BY NoneIsNoNumber DEF Init, Types, TypeOK, TodoSampled, InPass, PerUser, Zero, Row, Snap

\* What one sample charges is a number of bytes.
LEMMA DeltaIsNat ==
    ASSUME Types, NEW u \in Users, totals[u] # None
    PROVE  Delta(u) \in Nat
  <1>1. totals[u] \in Nat /\ baseline[u] \in Nat \cup {None}
    BY DEF Types, TypeOK, PerUser
  <1>2. CASE baseline[u] = None \/ totals[u] < baseline[u]
    BY <1>1, <1>2 DEF Delta
  <1>3. CASE ~(baseline[u] = None \/ totals[u] < baseline[u])
    BY <1>1, <1>3, NoneIsNoNumber DEF Delta
  <1>4. QED
    BY <1>2, <1>3

\* A row whose counters changed is a row.
LEMMA UsageIsRow ==
    ASSUME NEW r \in Row, NEW used \in Nat, NEW life \in Nat
    PROVE  [r EXCEPT !.used = used, !.life = life] \in Row
  BY DEF Row

\* Adding to both usage columns keeps the table well typed.
LEMMA AddIsTable ==
    ASSUME TypeOK, NEW u \in Users, Exists(u), NEW n \in Nat
    PROVE  Add(u, n) \in PerUser(Row \cup {None})
  <1>1. row \in [Users -> Row \cup {None}] /\ row[u] \in Row
    BY DEF TypeOK, PerUser, Exists
  <1>2. [row[u] EXCEPT !.used = @ + n, !.life = @ + n] \in Row
    <2>1. row[u].used + n \in Nat /\ row[u].life + n \in Nat
      BY <1>1 DEF Row
    <2>2. QED
      BY <1>1, <2>1, UsageIsRow
  <1>3. Add(u, n) = [row EXCEPT ![u] = [row[u] EXCEPT !.used = @ + n, !.life = @ + n]]
    BY <1>1 DEF Add
  <1>4. QED
    BY <1>1, <1>2, <1>3 DEF PerUser

\* Every step keeps the state well typed.
LEMMA TypesNext == Types /\ [Next]_vars => Types'
  <1> SUFFICES ASSUME Types, [Next]_vars PROVE Types'
    OBVIOUS
  <1> USE NoneIsNoNumber DEF Types, TypeOK, TodoSampled, InPass, PerUser,
        tableVars, engineVars, passVars, ghostVars, bounds
  <1>1. ASSUME NEW u \in Users, Transfer(u) PROVE Types'
    BY <1>1 DEF Transfer
  <1>2. CASE EngineRestart
    BY <1>2 DEF EngineRestart, Zero, Active
  <1>3. CASE Query
    BY <1>3 DEF Query
  <1>4. CASE ReadRows
    <2>1. ASSUME NEW u \in Active PROVE [used |-> row[u].used, limit |-> row[u].limit] \in Snap
      BY <2>1 DEF Active, Exists, Row, Snap
    <2>2. snap' \in PerUser(Snap)
      BY <1>4, <2>1 DEF ReadRows
    <2>3. QED
      BY <1>4, <2>2 DEF ReadRows, Active
  <1>5. ASSUME NEW u \in Users, Sample(u) PROVE Types'
    <2>1. totals[u] # None /\ totals[u] \in Nat
      BY <1>5 DEF Sample
    <2>2. Delta(u) \in Nat
      BY <2>1, DeltaIsNat
    <2>3. QED
      BY <1>5, <2>1, <2>2 DEF Sample
  <1>6. CASE Charge
    <2>1. row' \in PerUser(Row \cup {None})
      BY <1>6, AddIsTable DEF Charge
    <2>2. charged' \in PerUser(Nat) /\ over' \in PerUser(Nat)
      BY <1>6 DEF Charge
    <2>3. QED
      BY <1>6, <2>1, <2>2 DEF Charge
  <1>7. CASE Disable
    <2>1. Exists(cur) => [row[cur] EXCEPT !.active = FALSE] \in Row
      <3>1. Exists(cur) => row[cur] \in Row
        BY <1>7 DEF Disable, Exists
      <3>2. QED
        BY <3>1 DEF Row
    <2>2. row' \in PerUser(Row \cup {None})
      BY <1>7, <2>1 DEF Disable
    <2>3. QED
      BY <1>7, <2>2 DEF Disable
  <1>8. CASE PassDone
    BY <1>8 DEF PassDone
  <1>9. CASE PassFails
    BY <1>9 DEF PassFails
  <1>10. CASE Handler
    <2> USE DEF Write, Rewrite
    <2>1. ASSUME NEW u \in Users, NEW limit \in Quotas \cup {None}, CreateUser(u, limit)
          PROVE  Types'
      BY <2>1 DEF CreateUser, Row
    <2>2. ASSUME NEW u \in Users, NEW limit \in Quotas \cup {None}, SetLimit(u, limit)
          PROVE  Types'
      <3>1. [row[u] EXCEPT !.limit = limit] \in Row
        BY <2>2 DEF SetLimit, Exists, Row
      <3>2. QED
        BY <2>2, <3>1 DEF SetLimit
    <2>3. ASSUME NEW u \in Users, DeleteUser(u) PROVE Types'
      BY <2>3 DEF DeleteUser
    <2>4. ASSUME NEW u \in Users, ToggleUser(u) PROVE Types'
      <3>1. [row[u] EXCEPT !.active = ~@] \in Row
        BY <2>4 DEF ToggleUser, Exists, Row
      <3>2. QED
        BY <2>4, <3>1 DEF ToggleUser
    <2>5. ASSUME NEW u \in Users, ResetVolume(u) PROVE Types'
      <3>1. [row[u] EXCEPT !.used = 0] \in Row
        BY <2>5 DEF ResetVolume, Exists, Row
      <3>2. QED
        BY <2>5, <3>1 DEF ResetVolume
    <2>6. ASSUME NEW u \in Users, TrackCheck(u) PROVE Types'
      BY <2>6 DEF TrackCheck
    <2>7. ASSUME NEW u \in Users, TrackAdd(u) PROVE Types'
      <3>1. row' \in PerUser(Row \cup {None})
        BY <2>7, AddIsTable, 1 \in Nat DEF TrackAdd
      <3>2. tracked' \in PerUser(Nat)
        BY <2>7 DEF TrackAdd
      <3>3. QED
        BY <2>7, <3>1, <3>2 DEF TrackAdd
    <2>8. QED
      BY <1>10, <2>1, <2>2, <2>3, <2>4, <2>5, <2>6, <2>7 DEF Handler
  <1>11. CASE UNCHANGED vars
    BY <1>11 DEF vars
  <1>12. QED
    BY <1>1, <1>2, <1>3, <1>4, <1>5, <1>6, <1>7, <1>8, <1>9, <1>10, <1>11 DEF Next, Pass

\* The type invariant of the metering pass and the users table (xray.sync_traffic_stats,
\* app/users/service.py), for every value of the constants.
THEOREM TypeCorrect == Spec => []TypeOK
  <1>1. Types => TypeOK
    BY DEF Types
  <1>2. QED
    BY TypesInit, TypesNext, <1>1, PTL DEF Spec

-----------------------------------------------------------------------------
(***************************************************************************)
(* No byte is charged twice.  NeverOvercharged alone is not inductive: the *)
(* pass charges what it sampled some statements ago, against a baseline it *)
(* already moved, while the engine goes on counting or restarts.  Owed(u,  *)
(* c) is what a sample of c would charge; the invariant says that neither  *)
(* the counter as it is, nor the answer the pass holds, nor the charge it  *)
(* is about to make would bill a byte that did not move.                   *)
(***************************************************************************)
Owed(u, c) == IF baseline[u] = None \/ c < baseline[u] THEN 0 ELSE c - baseline[u]

Pending(u) == IF pc = "charge" /\ cur = u THEN delta ELSE 0

\* What the counter as it is would charge, and the charge under way, were moved.
CounterCovered == \A u \in Users : charged[u] + Pending(u) + Owed(u, counter[u]) <= real[u]

\* The counter can only have gained on the answer what moved since.
AnswerCurrent ==
    pc # "idle" =>
        \A u \in Users :
            /\ mark[u] <= real[u]
            /\ totals[u] # None => counter[u] <= totals[u] + (real[u] - mark[u])

\* What the answer will charge had moved when it was given.
AnswerCovered ==
    \A u \in Users :
        totals[u] # None /\ (pc = "rows" \/ (InPass /\ u \in todo))
            => charged[u] + Owed(u, totals[u]) <= mark[u]

IInv == Types /\ CounterCovered /\ AnswerCurrent /\ AnswerCovered

\* What the engine still holds of a user is an amount.
LEMMA OwedIsNat ==
    ASSUME TypeOK, NEW u \in Users, NEW c \in Nat
    PROVE  Owed(u, c) \in Nat
  <1>1. baseline[u] \in Nat \cup {None}
    BY DEF TypeOK, PerUser
  <1>2. QED
    BY <1>1, NoneIsNoNumber DEF Owed

\* A later reading of the counter owes at most the difference more.
LEMMA OwedGrows ==
    ASSUME TypeOK, NEW u \in Users, NEW c \in Nat, NEW n \in Nat
    PROVE  Owed(u, c + n) <= Owed(u, c) + n
  <1>1. baseline[u] \in Nat \cup {None}
    BY DEF TypeOK, PerUser
  <1>2. QED
    BY <1>1, NoneIsNoNumber DEF Owed

\* An engine that counted nothing owes nothing.
LEMMA OwedOfZero ==
    ASSUME TypeOK, NEW u \in Users
    PROVE  Owed(u, 0) = 0
  <1>1. baseline[u] \in Nat \cup {None}
    BY DEF TypeOK, PerUser
  <1>2. QED
    BY <1>1, NoneIsNoNumber DEF Owed

\* What is still to be charged is an amount.
LEMMA PendingIsNat ==
    ASSUME TypeOK, NEW u \in Users
    PROVE  Pending(u) \in Nat
  BY DEF TypeOK, Pending

\* Nothing moved, nothing was charged.
LEMMA IInvInit == Init => IInv
  <1> SUFFICES ASSUME Init PROVE IInv
    OBVIOUS
  <1>1. Types
    BY TypesInit
  <1>2. \A u \in Users : Pending(u) = 0 /\ Owed(u, counter[u]) = 0
    BY DEF Init, Pending, Owed, Zero
  <1>3. CounterCovered
    BY <1>2 DEF CounterCovered, Init, Zero
  <1>4. AnswerCurrent /\ AnswerCovered
    BY DEF AnswerCurrent, AnswerCovered, InPass, Init
  <1>5. QED
    BY <1>1, <1>3, <1>4 DEF IInv

\* A step that leaves the metering alone keeps the three bounds.
LEMMA MeteringUntouched ==
    ASSUME IInv, UNCHANGED <<pc, totals, todo, cur, delta, mark, baseline, counter, real, charged>>
    PROVE  (CounterCovered /\ AnswerCurrent /\ AnswerCovered)'
  BY DEF IInv, CounterCovered, AnswerCurrent, AnswerCovered, Pending, Owed, InPass

\* Every action keeps the charges covered.
LEMMA IInvNext == IInv /\ [Next]_vars => IInv'
  <1> SUFFICES ASSUME IInv, [Next]_vars PROVE IInv'
    OBVIOUS
  <1> DEFINE Bounds == CounterCovered /\ AnswerCurrent /\ AnswerCovered
  <1>0. Types /\ Types' /\ TypeOK /\ TypeOK'
    BY TypesNext DEF IInv, Types
  <1>a. \A u \in Users :
          /\ counter[u] \in Nat /\ real[u] \in Nat /\ mark[u] \in Nat /\ charged[u] \in Nat
          /\ baseline[u] \in Nat \cup {None} /\ totals[u] \in Nat \cup {None}
          /\ Pending(u) \in Nat
    BY <1>0, PendingIsNat DEF TypeOK, PerUser
  <1>1. ASSUME NEW w \in Users, Transfer(w) PROVE Bounds'
    <2>1. CounterCovered'
      <3> SUFFICES ASSUME NEW u \in Users
                   PROVE  charged'[u] + Pending(u)' + Owed(u, counter[u])' <= real'[u]
        BY DEF CounterCovered
      <3>1. charged'[u] = charged[u] /\ Pending(u)' = Pending(u) /\ baseline' = baseline
        BY <1>1 DEF Transfer, Pending, passVars, tableVars, ghostVars
      <3>2. charged[u] + Pending(u) + Owed(u, counter[u]) <= real[u]
        BY DEF IInv, CounterCovered
      <3>3. CASE u = w
        <4>1. counter'[u] = counter[u] + 1 /\ real'[u] = real[u] + 1
          BY <1>0, <1>1, <3>3 DEF Transfer, TypeOK, PerUser
        <4>2. Owed(u, counter[u])' = Owed(u, counter[u] + 1)
          BY <3>1, <4>1 DEF Owed
        <4>3. Owed(u, counter[u] + 1) <= Owed(u, counter[u]) + 1
          BY <1>0, <1>a, OwedGrows
        <4>4. Owed(u, counter[u]) \in Nat /\ Owed(u, counter[u] + 1) \in Nat
          BY <1>0, <1>a, OwedIsNat
        <4>5. QED
          BY <1>a, <3>1, <3>2, <4>1, <4>2, <4>3, <4>4
      <3>4. CASE u # w
        <4>1. counter'[u] = counter[u] /\ real'[u] = real[u]
          BY <1>0, <1>1, <3>4 DEF Transfer, TypeOK, PerUser
        <4>2. Owed(u, counter[u])' = Owed(u, counter[u])
          BY <3>1, <4>1 DEF Owed
        <4>3. QED
          BY <3>1, <3>2, <4>1, <4>2
      <3>5. QED
        BY <3>3, <3>4
    <2>2. AnswerCurrent'
      <3>1. \A u \in Users : \/ counter'[u] = counter[u] /\ real'[u] = real[u]
                             \/ counter'[u] = counter[u] + 1 /\ real'[u] = real[u] + 1
        BY <1>0, <1>1 DEF Transfer, TypeOK, PerUser
      <3>2. UNCHANGED <<pc, totals, mark>>
        BY <1>1 DEF Transfer, passVars
      <3>3. QED
        BY <1>a, <3>1, <3>2, NoneIsNoNumber DEF IInv, AnswerCurrent
    <2>3. AnswerCovered'
      BY <1>1 DEF IInv, AnswerCovered, Owed, InPass, Transfer, passVars, tableVars, ghostVars
    <2>4. QED
      BY <2>1, <2>2, <2>3
  <1>2. ASSUME EngineRestart PROVE Bounds'
    <2>1. CounterCovered'
      <3> SUFFICES ASSUME NEW u \in Users
                   PROVE  charged'[u] + Pending(u)' + Owed(u, counter[u])' <= real'[u]
        BY DEF CounterCovered
      <3>1. /\ charged'[u] = charged[u] /\ Pending(u)' = Pending(u) /\ baseline' = baseline
            /\ real' = real /\ counter'[u] = 0
        BY <1>2 DEF EngineRestart, Pending, passVars, tableVars, Zero
      <3>2. Owed(u, counter[u])' = 0
        BY <3>1, <1>0, OwedOfZero DEF Owed
      <3>3. charged[u] + Pending(u) + Owed(u, counter[u]) <= real[u]
        BY DEF IInv, CounterCovered
      <3>4. Owed(u, counter[u]) \in Nat
        BY <1>0, <1>a, OwedIsNat
      <3>5. QED
        BY <1>a, <3>1, <3>2, <3>3, <3>4
    <2>2. AnswerCurrent'
      BY <1>2, <1>a, NoneIsNoNumber DEF IInv, AnswerCurrent, EngineRestart, passVars, Zero
    <2>3. AnswerCovered'
      BY <1>2 DEF IInv, AnswerCovered, Owed, InPass, EngineRestart, passVars, tableVars
    <2>4. QED
      BY <2>1, <2>2, <2>3
  <1>3. ASSUME Query PROVE Bounds'
    <2>1. CounterCovered'
      BY <1>3 DEF IInv, CounterCovered, Pending, Owed, Query, engineVars, tableVars, ghostVars
    <2>2. AnswerCurrent'
      BY <1>3, <1>a, NoneIsNoNumber DEF AnswerCurrent, Query, engineVars
    <2>3. AnswerCovered'
      <3> SUFFICES ASSUME NEW u \in Users, totals'[u] # None
                   PROVE  charged'[u] + Owed(u, totals[u])' <= mark'[u]
        BY DEF AnswerCovered
      <3>1. totals'[u] = counter[u] /\ mark'[u] = real[u] /\ charged' = charged
            /\ baseline' = baseline /\ pc = "idle"
        BY <1>3 DEF Query, ghostVars, tableVars
      <3>2. Owed(u, totals[u])' = Owed(u, counter[u]) /\ Pending(u) = 0
        BY <3>1 DEF Owed, Pending
      <3>3. charged[u] + Pending(u) + Owed(u, counter[u]) <= real[u]
        BY DEF IInv, CounterCovered
      <3>4. Owed(u, counter[u]) \in Nat
        BY <1>0, <1>a, OwedIsNat
      <3>5. QED
        BY <1>a, <3>1, <3>2, <3>3, <3>4
    <2>4. QED
      BY <2>1, <2>2, <2>3
  <1>4. ASSUME ReadRows PROVE Bounds'
    <2>1. CounterCovered'
      BY <1>4 DEF IInv, CounterCovered, Pending, Owed, ReadRows, engineVars, tableVars, ghostVars
    <2>2. AnswerCurrent'
      BY <1>4 DEF IInv, AnswerCurrent, ReadRows, engineVars
    <2>3. AnswerCovered'
      BY <1>4 DEF IInv, AnswerCovered, Owed, InPass, ReadRows, tableVars, ghostVars
    <2>4. QED
      BY <2>1, <2>2, <2>3
  <1>5. ASSUME NEW w \in Users, Sample(w) PROVE Bounds'
    <2>1. /\ pc = "users" /\ w \in todo /\ totals[w] # None /\ totals[w] \in Nat
          /\ cur' = w /\ delta' = Delta(w) /\ pc' = IF Delta(w) > 0 THEN "charge" ELSE "users"
          /\ baseline' = [baseline EXCEPT ![w] = totals[w]] /\ todo' = todo \ {w}
          /\ UNCHANGED <<counter, real, totals, mark, charged>>
      BY <1>0, <1>5, <1>a DEF Sample, engineVars, Types, TodoSampled, InPass
    <2>2. Delta(w) = Owed(w, totals[w]) /\ Delta(w) \in Nat
      BY <1>0, <1>a, <2>1, DeltaIsNat, NoneIsNoNumber DEF Delta, Owed
    <2>3. charged[w] + Owed(w, totals[w]) <= mark[w]
      BY <2>1 DEF IInv, AnswerCovered, InPass
    <2>4. baseline'[w] = totals[w] /\ \A u \in Users \ {w} : baseline'[u] = baseline[u]
      BY <1>0, <2>1 DEF TypeOK, PerUser
    <2>5. CounterCovered'
      <3> SUFFICES ASSUME NEW u \in Users
                   PROVE  charged'[u] + Pending(u)' + Owed(u, counter[u])' <= real'[u]
        BY DEF CounterCovered
      <3>1. CASE u = w
        <4>1. Pending(u)' = Delta(w)
          BY <2>1, <2>2, <3>1 DEF Pending
        <4>2. Owed(u, counter[u])' = IF counter[w] < totals[w] THEN 0 ELSE counter[w] - totals[w]
          BY <2>1, <2>4, <3>1, <1>a, NoneIsNoNumber DEF Owed
        <4>3. mark[w] <= real[w] /\ counter[w] <= totals[w] + (real[w] - mark[w])
          BY <2>1 DEF IInv, AnswerCurrent
        <4>4. QED
          BY <1>a, <2>1, <2>2, <2>3, <3>1, <4>1, <4>2, <4>3
      <3>2. CASE u # w
        <4>1. Pending(u)' = 0 /\ Pending(u) = 0
          BY <2>1, <3>2 DEF Pending
        <4>2. Owed(u, counter[u])' = Owed(u, counter[u])
          BY <2>1, <2>4, <3>2 DEF Owed
        <4>3. QED
          BY <2>1, <4>1, <4>2 DEF IInv, CounterCovered
      <3>3. QED
        BY <3>1, <3>2
    <2>6. AnswerCurrent'
      BY <2>1 DEF IInv, AnswerCurrent
    <2>7. AnswerCovered'
      <3> SUFFICES ASSUME NEW u \in Users, totals'[u] # None, u \in todo'
                   PROVE  charged'[u] + Owed(u, totals[u])' <= mark'[u]
        BY <2>1 DEF AnswerCovered, InPass
      <3>1. u # w /\ Owed(u, totals[u])' = Owed(u, totals[u])
        BY <2>1, <2>4 DEF Owed
      <3>2. QED
        BY <2>1, <3>1 DEF IInv, AnswerCovered, InPass
    <2>8. QED
      BY <2>5, <2>6, <2>7
  <1>6. ASSUME Charge PROVE Bounds'
    <2>1. /\ pc = "charge" /\ cur \in Users /\ cur \notin todo /\ delta \in Nat
          /\ pc' \in {"users", "disable"}
          /\ UNCHANGED <<counter, real, totals, mark, baseline, todo, cur, delta>>
      BY <1>0, <1>6 DEF Charge, engineVars, TypeOK, Types, TodoSampled, InPass
    <2>2. \A u \in Users : charged'[u] \in {charged[u], charged[u] + Pending(u)}
                            /\ (u # cur => charged'[u] = charged[u])
      BY <1>0, <1>6, <2>1, <1>a DEF Charge, Pending, TypeOK, PerUser
    <2>3. CounterCovered'
      <3> SUFFICES ASSUME NEW u \in Users
                   PROVE  charged'[u] + Pending(u)' + Owed(u, counter[u])' <= real'[u]
        BY DEF CounterCovered
      <3>1. Pending(u)' = 0 /\ Owed(u, counter[u])' = Owed(u, counter[u])
        BY <2>1 DEF Pending, Owed
      <3>2. Owed(u, counter[u]) \in Nat
        BY <1>0, <1>a, OwedIsNat
      <3>3. charged[u] + Pending(u) + Owed(u, counter[u]) <= real[u]
        BY DEF IInv, CounterCovered
      <3>4. QED
        BY <1>a, <2>1, <2>2, <3>1, <3>2, <3>3
    <2>4. AnswerCurrent'
      BY <2>1 DEF IInv, AnswerCurrent
    <2>5. AnswerCovered'
      BY <2>1, <2>2 DEF IInv, AnswerCovered, Owed, InPass
    <2>6. QED
      BY <2>3, <2>4, <2>5
  <1>7. ASSUME Disable PROVE Bounds'
    BY <1>7 DEF IInv, CounterCovered, AnswerCurrent, AnswerCovered, Pending, Owed, InPass,
                Disable, engineVars, ghostVars
  <1>8. ASSUME PassDone PROVE Bounds'
    BY <1>8 DEF IInv, CounterCovered, AnswerCurrent, AnswerCovered, Pending, Owed, InPass,
                PassDone, engineVars, tableVars, ghostVars
  <1>9. ASSUME PassFails PROVE Bounds'
    <2>1. pc' = "idle" /\ UNCHANGED <<counter, real, baseline, charged, cur, delta>>
      BY <1>9 DEF PassFails, engineVars, tableVars
    <2>2. CounterCovered'
      <3> SUFFICES ASSUME NEW u \in Users
                   PROVE  charged'[u] + Pending(u)' + Owed(u, counter[u])' <= real'[u]
        BY DEF CounterCovered
      <3>1. Pending(u)' = 0 /\ Owed(u, counter[u])' = Owed(u, counter[u])
        BY <2>1 DEF Pending, Owed
      <3>2. Owed(u, counter[u]) \in Nat
        BY <1>0, <1>a, OwedIsNat
      <3>3. charged[u] + Pending(u) + Owed(u, counter[u]) <= real[u]
        BY DEF IInv, CounterCovered
      <3>4. QED
        BY <1>a, <2>1, <3>1, <3>2, <3>3
    <2>3. (AnswerCurrent /\ AnswerCovered)'
      BY <2>1 DEF AnswerCurrent, AnswerCovered, InPass
    <2>4. QED
      BY <2>2, <2>3
  <1>10. ASSUME Handler PROVE Bounds'
    <2>1. UNCHANGED <<pc, totals, todo, cur, delta, mark, baseline, counter, real, charged>>
      BY <1>10 DEF Handler, CreateUser, SetLimit, DeleteUser, ToggleUser, ResetVolume, TrackCheck,
                   TrackAdd, Write, engineVars, passVars
    <2>2. QED
      BY <2>1, MeteringUntouched
  <1>11. ASSUME UNCHANGED vars PROVE Bounds'
    <2>1. UNCHANGED <<pc, totals, todo, cur, delta, mark, baseline, counter, real, charged>>
      BY <1>11 DEF vars, passVars, tableVars, engineVars, ghostVars
    <2>2. QED
      BY <2>1, MeteringUntouched
  <1>12. Bounds'
    BY <1>1, <1>2, <1>3, <1>4, <1>5, <1>6, <1>7, <1>8, <1>9, <1>10, <1>11 DEF Next, Pass
  <1>13. QED
    BY <1>0, <1>12 DEF IInv

\* No byte is billed twice and none that never moved (xray.sync_traffic_stats), for any
\* set of users and any number of restarts, failing passes and concurrent handlers.
THEOREM NoOvercharge == Spec => []NeverOvercharged
  <1>1. IInv => NeverOvercharged
    <2> SUFFICES ASSUME IInv, NEW u \in Users PROVE charged[u] <= real[u]
      BY DEF NeverOvercharged
    <2>1. TypeOK /\ counter[u] \in Nat /\ charged[u] \in Nat /\ real[u] \in Nat
      BY DEF IInv, Types, TypeOK, PerUser
    <2>2. Pending(u) \in Nat /\ Owed(u, counter[u]) \in Nat
      BY <2>1, PendingIsNat, OwedIsNat
    <2>3. charged[u] + Pending(u) + Owed(u, counter[u]) <= real[u]
      BY DEF IInv, CounterCovered
    <2>4. QED
      BY <2>1, <2>2, <2>3
  <1>2. QED
    BY IInvInit, IInvNext, <1>1, PTL DEF Spec

-----------------------------------------------------------------------------
(***************************************************************************)
(* What the columns hold.  With the types UsedAccounted is inductive: only *)
(* Add moves the columns up, both by what it records as charged or         *)
(* tracked, and the handlers only ever lower used or start a row at zero.  *)
(***************************************************************************)
LEMMA AddAccounts ==
    ASSUME TypeOK, NEW w \in Users, Exists(w), NEW n \in Nat, row' = Add(w, n), UsedAccounted,
           \A u \in Users : charged'[u] \in Nat /\ tracked'[u] \in Nat,
           \A u \in Users : charged[u] + tracked[u] <= charged'[u] + tracked'[u],
           charged'[w] + tracked'[w] = charged[w] + tracked[w] + n
    PROVE  UsedAccounted'
  <1> SUFFICES ASSUME NEW u \in Users, row'[u] # None
               PROVE  row'[u].used <= row'[u].life /\ row'[u].life <= charged'[u] + tracked'[u]
    BY DEF UsedAccounted, Exists
  <1>1. row \in [Users -> Row \cup {None}] /\ charged[u] \in Nat /\ tracked[u] \in Nat
    BY DEF TypeOK, PerUser
  <1>2. CASE u = w
    <2>1. row[w] \in Row /\ row[w].used \in Nat /\ row[w].life \in Nat
      BY <1>1 DEF Exists, Row
    <2>2. row'[u] = [row[w] EXCEPT !.used = @ + n, !.life = @ + n]
      BY <1>1, <1>2 DEF Add
    <2>3. row'[u].used = row[w].used + n /\ row'[u].life = row[w].life + n
      BY <2>1, <2>2 DEF Row
    <2>4. row[w].used <= row[w].life /\ row[w].life <= charged[w] + tracked[w]
      BY DEF UsedAccounted
    <2>5. QED
      BY <1>1, <1>2, <2>1, <2>3, <2>4
  <1>3. CASE u # w
    <2>1. row'[u] = row[u] /\ row[u] \in Row
      BY <1>1, <1>3 DEF Add
    <2>2. row[u].used \in Nat /\ row[u].life \in Nat
      BY <2>1 DEF Row
    <2>3. QED
      BY <1>1, <2>1, <2>2 DEF UsedAccounted, Exists
  <1>4. QED
    BY <1>2, <1>3

\* A step that writes one row, no higher than it was in either column, and charges
\* nothing keeps the columns accounted for.
LEMMA RewriteAccounts ==
    ASSUME TypeOK, NEW w \in Users, NEW r, row' = [row EXCEPT ![w] = r], UsedAccounted,
           UNCHANGED <<charged, tracked>>,
           r # None => /\ r.used <= r.life
                       /\ r.life <= charged[w] + tracked[w]
    PROVE  UsedAccounted'
  <1>1. row \in [Users -> Row \cup {None}]
    BY DEF TypeOK, PerUser
  <1>2. QED
    BY <1>1 DEF UsedAccounted, Exists

\* Every action keeps the columns within what was charged and tracked.
LEMMA AccountedNext == Types /\ UsedAccounted /\ [Next]_vars => UsedAccounted'
  <1> SUFFICES ASSUME Types, UsedAccounted, [Next]_vars PROVE UsedAccounted'
    OBVIOUS
  <1>0. TypeOK
    BY DEF Types
  <1>a. \A u \in Users : charged[u] \in Nat /\ tracked[u] \in Nat
    BY <1>0 DEF TypeOK, PerUser
  <1>b. \A u \in Users : Exists(u) => /\ row[u] \in Row /\ row[u].used \in Nat /\ row[u].life \in Nat
                                      /\ row[u].used <= row[u].life
                                      /\ row[u].life <= charged[u] + tracked[u]
    BY <1>0 DEF TypeOK, PerUser, Exists, Row, UsedAccounted
  <1>1. CASE UNCHANGED <<row, charged, tracked>>
    BY <1>1 DEF UsedAccounted, Exists
  <1>2. CASE Charge
    <2>1. cur \in Users /\ delta \in Nat /\ tracked' = tracked
      BY <1>0, <1>2 DEF Charge, TypeOK
    <2>2. CASE Exists(cur)
      <3>1. row' = Add(cur, delta) /\ charged' = [charged EXCEPT ![cur] = @ + delta]
        BY <1>2, <2>2 DEF Charge
      <3>2. \A u \in Users : charged'[u] = IF u = cur THEN charged[u] + delta ELSE charged[u]
        BY <1>0, <3>1 DEF TypeOK, PerUser
      <3>3. /\ \A u \in Users : charged'[u] \in Nat /\ tracked'[u] \in Nat
            /\ \A u \in Users : charged[u] + tracked[u] <= charged'[u] + tracked'[u]
            /\ charged'[cur] + tracked'[cur] = charged[cur] + tracked[cur] + delta
        BY <1>a, <2>1, <3>2
      <3>4. QED
        BY <1>0, <2>1, <2>2, <3>1, <3>3, AddAccounts
    <2>3. CASE ~Exists(cur)
      BY <1>1, <1>2, <2>1, <2>3 DEF Charge
    <2>4. QED
      BY <2>2, <2>3
  <1>3. CASE Disable
    <2>1. cur \in Users /\ UNCHANGED <<charged, tracked>>
      BY <1>0, <1>3 DEF Disable, TypeOK, ghostVars
    <2>2. CASE Exists(cur)
      <3> DEFINE r == [row[cur] EXCEPT !.active = FALSE]
      <3>1. row' = [row EXCEPT ![cur] = r]
        BY <1>0, <1>3, <2>1, <2>2 DEF Disable, TypeOK, PerUser
      <3>2. r.used = row[cur].used /\ r.life = row[cur].life
        BY <1>b, <2>1, <2>2 DEF Row
      <3>3. r.used <= r.life /\ r.life <= charged[cur] + tracked[cur]
        BY <1>b, <2>1, <2>2, <3>2
      <3> HIDE DEF r
      <3>4. QED
        BY <1>0, <2>1, <3>1, <3>3, RewriteAccounts
    <2>3. CASE ~Exists(cur)
      BY <1>1, <1>3, <2>1, <2>3 DEF Disable
    <2>4. QED
      BY <2>2, <2>3
  <1>4. ASSUME NEW u \in Users, TrackAdd(u) PROVE UsedAccounted'
    <2>1. charged' = charged
      BY <1>4 DEF TrackAdd
    <2>2. CASE Exists(u)
      <3>1. row' = Add(u, 1) /\ tracked' = [tracked EXCEPT ![u] = @ + 1]
        BY <1>4, <2>2 DEF TrackAdd
      <3>2. \A v \in Users : tracked'[v] = IF v = u THEN tracked[v] + 1 ELSE tracked[v]
        BY <1>0, <3>1 DEF TypeOK, PerUser
      <3>3. /\ \A v \in Users : charged'[v] \in Nat /\ tracked'[v] \in Nat
            /\ \A v \in Users : charged[v] + tracked[v] <= charged'[v] + tracked'[v]
            /\ charged'[u] + tracked'[u] = charged[u] + tracked[u] + 1
        BY <1>a, <2>1, <3>2
      <3>4. QED
        BY <1>0, <2>2, <3>1, <3>3, 1 \in Nat, AddAccounts
    <2>3. CASE ~Exists(u)
      BY <1>1, <1>4, <2>1, <2>3 DEF TrackAdd
    <2>4. QED
      BY <2>2, <2>3
  <1>5. ASSUME NEW u \in Users, NEW r, Write, Rewrite(u, r),
               r # None => r.used <= r.life /\ r.life <= charged[u] + tracked[u]
        PROVE  UsedAccounted'
    BY <1>0, <1>5, RewriteAccounts DEF Write, Rewrite
  <1>6. ASSUME NEW u \in Users, NEW limit \in Quotas \cup {None}, CreateUser(u, limit)
        PROVE  UsedAccounted'
    <2> DEFINE r == [active |-> TRUE, used |-> 0, life |-> 0, limit |-> limit]
    <2>1. r.used <= r.life /\ r.life <= charged[u] + tracked[u]
      BY <1>a
    <2>2. Write /\ Rewrite(u, r)
      BY <1>6 DEF CreateUser
    <2> HIDE DEF r
    <2>3. QED
      BY <1>5, <2>1, <2>2
  <1>7. ASSUME NEW u \in Users, NEW limit \in Quotas \cup {None}, SetLimit(u, limit)
        PROVE  UsedAccounted'
    <2> DEFINE r == [row[u] EXCEPT !.limit = limit]
    <2>1. Exists(u) /\ Write /\ Rewrite(u, r)
      BY <1>7 DEF SetLimit
    <2>2. r.used = row[u].used /\ r.life = row[u].life
      BY <1>b, <2>1 DEF Row
    <2>3. r.used <= r.life /\ r.life <= charged[u] + tracked[u]
      BY <1>b, <2>1, <2>2
    <2> HIDE DEF r
    <2>4. QED
      BY <1>5, <2>1, <2>3
  <1>8. ASSUME NEW u \in Users, DeleteUser(u) PROVE UsedAccounted'
    BY <1>5, <1>8 DEF DeleteUser
  <1>9. ASSUME NEW u \in Users, ToggleUser(u) PROVE UsedAccounted'
    <2> DEFINE r == [row[u] EXCEPT !.active = ~@]
    <2>1. Exists(u) /\ Write /\ Rewrite(u, r)
      BY <1>9 DEF ToggleUser
    <2>2. r.used = row[u].used /\ r.life = row[u].life
      BY <1>b, <2>1 DEF Row
    <2>3. r.used <= r.life /\ r.life <= charged[u] + tracked[u]
      BY <1>b, <2>1, <2>2
    <2> HIDE DEF r
    <2>4. QED
      BY <1>5, <2>1, <2>3
  <1>10. ASSUME NEW u \in Users, ResetVolume(u) PROVE UsedAccounted'
    <2> DEFINE r == [row[u] EXCEPT !.used = 0]
    <2>1. Exists(u) /\ Write /\ Rewrite(u, r)
      BY <1>10 DEF ResetVolume
    <2>2. r.used = 0 /\ r.life = row[u].life /\ r.life \in Nat
      BY <1>b, <2>1 DEF Row
    <2>3. r.used <= r.life /\ r.life <= charged[u] + tracked[u]
      BY <1>b, <2>1, <2>2
    <2> HIDE DEF r
    <2>4. QED
      BY <1>5, <2>1, <2>3
  <1>11. ASSUME NEW u \in Users, TrackCheck(u) PROVE UsedAccounted'
    BY <1>1, <1>11 DEF TrackCheck, Write
  <1>12. CASE Handler
    BY <1>4, <1>6, <1>7, <1>8, <1>9, <1>10, <1>11, <1>12 DEF Handler
  <1>13. ASSUME NEW u \in Users, Transfer(u) \/ Sample(u) PROVE UsedAccounted'
    BY <1>1, <1>13 DEF Transfer, Sample, tableVars, ghostVars
  <1>14. CASE EngineRestart \/ Query \/ ReadRows \/ PassDone \/ PassFails \/ UNCHANGED vars
    BY <1>1, <1>14 DEF EngineRestart, Query, ReadRows, PassDone, PassFails, vars, tableVars, ghostVars
  <1>15. QED
    BY <1>2, <1>3, <1>12, <1>13, <1>14 DEF Next, Pass

\* The quota counter is part of the lifetime counter and both hold only what was charged
\* or tracked (xray.sync_traffic_stats, users.service.track, reset_user), whoever writes.
THEOREM ColumnsAccounted == Spec => []UsedAccounted
  <1>1. Init => UsedAccounted
    BY DEF Init, UsedAccounted, Exists
  <1>2. QED
    BY <1>1, TypesInit, TypesNext, AccountedNext, PTL DEF Spec
-----------------------------------------------------------------------------
(***************************************************************************)
(* What a handler can do to a user, whichever handler it is.               *)
(***************************************************************************)
Untouched(u) == /\ row'[u] = row[u] /\ over'[u] = over[u] /\ first'[u] = first[u]
                /\ u \in touched' <=> u \in touched
Rewritten(u) == /\ over'[u] = 0 /\ u \in touched'
                /\ first'[u] = None \/ (first'[u] = first[u] /\ row'[u] # None)
Grown(u, n) == /\ Exists(u) /\ row'[u] # None
               /\ row'[u].used = row[u].used + n
               /\ row'[u].limit = row[u].limit /\ row'[u].active = row[u].active

\* UPDATE ... SET used_gb=used_gb+? leaves the limit and the switch of a row alone.
LEMMA AddGrows ==
    ASSUME TypeOK, NEW w \in Users, Exists(w), NEW n \in Nat, row' = Add(w, n)
    PROVE  Grown(w, n) /\ \A u \in Users \ {w} : row'[u] = row[u]
  <1>1. row \in [Users -> Row \cup {None}] /\ row[w] \in Row
    BY DEF TypeOK, PerUser, Exists
  <1>2. row'[w] = [row[w] EXCEPT !.used = @ + n, !.life = @ + n]
    BY <1>1 DEF Add
  <1>3. /\ row[w].used + n \in Nat /\ row[w].life + n \in Nat
        /\ row[w].used \in Nat /\ row[w].life \in Nat
    BY <1>1 DEF Row
  <1>4. row'[w] \in Row
    <2>1. [row[w] EXCEPT !.used = @ + n, !.life = @ + n] \in Row
      BY <1>1, <1>3, UsageIsRow
    <2>2. QED
      BY <1>2, <2>1
  <1>5. row'[w] # None
    BY <1>4, NoneIsNoRow
  <1>6. /\ row'[w].used = row[w].used + n
        /\ row'[w].limit = row[w].limit /\ row'[w].active = row[w].active
    BY <1>1, <1>2 DEF Row
  <1>7. \A u \in Users \ {w} : row'[u] = row[u]
    BY <1>1 DEF Add
  <1>8. QED
    BY <1>5, <1>6, <1>7 DEF Grown

\* What a handler that rewrites a row changes.
LEMMA RewriteEffect ==
    ASSUME TypeOK, NEW w \in Users, NEW r, Write, Rewrite(w, r),
           first' = [first EXCEPT ![w] = None] \/ (first' = first /\ r # None)
    PROVE  Rewritten(w) /\ \A u \in Users \ {w} : Untouched(u)
  BY DEF TypeOK, PerUser, Write, Rewrite, Rewritten, Untouched

\* What any handler changes.
LEMMA HandlerEffect ==
    ASSUME Types, Handler
    PROVE  /\ UNCHANGED <<baseline, engineVars, passVars, charged, restarts, faults>>
           /\ \A u \in Users :
                \/ Untouched(u)
                \/ Rewritten(u)
                \/ /\ Grown(u, 1) /\ over'[u] = over[u] /\ first'[u] = first[u]
                   /\ u \in touched' <=> u \in touched
  <1> DEFINE Effect == \A u \in Users :
                \/ Untouched(u)
                \/ Rewritten(u)
                \/ /\ Grown(u, 1) /\ over'[u] = over[u] /\ first'[u] = first[u]
                   /\ u \in touched' <=> u \in touched
  <1>0. TypeOK
    BY DEF Types
  <1>1. ASSUME NEW w \in Users, NEW r, Write, Rewrite(w, r),
               first' = [first EXCEPT ![w] = None] \/ (first' = first /\ r # None)
        PROVE  Effect
    BY <1>0, <1>1, RewriteEffect
  <1>a. \A u \in Users : Exists(u) => row[u] \in Row
    BY <1>0 DEF TypeOK, PerUser, Exists
  <1>2. ASSUME NEW w \in Users, NEW limit \in Quotas \cup {None}, CreateUser(w, limit) PROVE Effect
    <2>1. [active |-> TRUE, used |-> 0, life |-> 0, limit |-> limit] # None
      <3> DEFINE r == [active |-> TRUE, used |-> 0, life |-> 0, limit |-> limit]
      <3>1. r \in Row
        BY DEF Row
      <3> HIDE DEF r
      <3>2. r # None
        BY <3>1, NoneIsNoRow
      <3>3. QED
        BY <3>2 DEF r
    <2>2. QED
      BY <1>1, <1>2, <2>1 DEF CreateUser
  <1>3. ASSUME NEW w \in Users, NEW limit \in Quotas \cup {None}, SetLimit(w, limit) PROVE Effect
    <2>1. [row[w] EXCEPT !.limit = limit] # None
      BY <1>a, <1>3, NoneIsNoRow DEF Row, SetLimit
    <2>2. QED
      BY <1>1, <1>3, <2>1 DEF SetLimit
  <1>4. ASSUME NEW w \in Users, DeleteUser(w) PROVE Effect
    BY <1>1, <1>4 DEF DeleteUser
  <1>5. ASSUME NEW w \in Users, ToggleUser(w) PROVE Effect
    <2>1. [row[w] EXCEPT !.active = ~@] # None
      BY <1>a, <1>5, NoneIsNoRow DEF Row, ToggleUser
    <2>2. QED
      BY <1>1, <1>5, <2>1 DEF ToggleUser
  <1>6. ASSUME NEW w \in Users, ResetVolume(w) PROVE Effect
    <2>1. [row[w] EXCEPT !.used = 0] # None
      BY <1>a, <1>6, NoneIsNoRow DEF Row, ResetVolume
    <2>2. QED
      BY <1>1, <1>6, <2>1 DEF ResetVolume
  <1>7. ASSUME NEW w \in Users, TrackCheck(w) PROVE Effect
    BY <1>7 DEF TrackCheck, Untouched
  <1>8. ASSUME NEW w \in Users, TrackAdd(w) PROVE Effect
    <2>1. CASE Exists(w)
      <3>1. Grown(w, 1) /\ \A u \in Users \ {w} : row'[u] = row[u]
        BY <1>0, <1>8, <2>1, AddGrows, 1 \in Nat DEF TrackAdd
      <3>2. QED
        BY <1>8, <3>1 DEF TrackAdd, Untouched
    <2>2. CASE ~Exists(w)
      BY <1>8, <2>2 DEF TrackAdd, Untouched
    <2>3. QED
      BY <2>1, <2>2
  <1>9. Effect
    BY <1>2, <1>3, <1>4, <1>5, <1>6, <1>7, <1>8 DEF Handler
  <1>10. UNCHANGED <<baseline, engineVars, passVars, charged, restarts, faults>>
    <2>1. ASSUME Write PROVE UNCHANGED <<baseline, engineVars, passVars, charged, restarts, faults>>
      BY <2>1 DEF Write
    <2>2. ASSUME NEW w \in Users, TrackAdd(w)
          PROVE  UNCHANGED <<baseline, engineVars, passVars, charged, restarts, faults>>
      BY <2>2 DEF TrackAdd, bounds
    <2>3. QED
      BY <2>1, <2>2 DEF Handler, CreateUser, SetLimit, DeleteUser, ToggleUser, ResetVolume, TrackCheck
  <1>11. QED
    BY <1>9, <1>10

-----------------------------------------------------------------------------
(***************************************************************************)
(* No byte is lost while nothing restarts or fails.  Between passes the    *)
(* equation holds because no counter ever lies under its baseline, which   *)
(* is a fact about answers taken earlier, and because a sample is charged  *)
(* unless its row went meanwhile.                                          *)
(***************************************************************************)
\* The pass still has to charge the user.
ToCharge(u) == InPass /\ (u \in todo \/ (pc = "charge" /\ cur = u))

\* A user who was never sampled was never charged.
Unsampled(u) == baseline[u] = None => charged[u] + Pending(u) = 0 /\ first[u] = None

\* What the counter gained since the first sample is charged or about to be, and the
\* counter has not gone back since.
Gained(u) ==
    first[u] # None => /\ charged[u] + Pending(u) = baseline[u] - first[u]
                       /\ baseline[u] <= counter[u]

\* Nor is the answer of statsquery behind the baseline it will be compared with ...
AnswerAhead(u) ==
    first[u] # None /\ totals[u] # None /\ (pc = "rows" \/ (InPass /\ u \in todo))
        => baseline[u] <= totals[u]

\* ... or, if no engine restarted since, ahead of the counter.
AnswerThisEngine(u) ==
    pc # "idle" => /\ asOf <= restarts
                   /\ asOf = restarts /\ totals[u] # None => totals[u] <= counter[u]
                   /\ first[u] # None => asOf = restarts

\* The first sample is forgotten together with the row.
Kept(u) == ToCharge(u) /\ ~Exists(u) => first[u] = None

SteadyFor(u) == Unsampled(u) /\ Gained(u) /\ AnswerAhead(u) /\ AnswerThisEngine(u) /\ Kept(u)
Steady == \A u \in Users : SteadyFor(u)

\* Every action keeps the account of a steady engine exact.
LEMMA SteadyNext == Types /\ Types' /\ Steady /\ [Next]_vars => Steady'
  <1> SUFFICES ASSUME Types, Types', Steady, [Next]_vars, NEW u \in Users PROVE SteadyFor(u)'
    BY DEF Steady
  <1>0. TypeOK /\ TypeOK' /\ TodoSampled /\ SteadyFor(u)
    BY DEF Types, Steady
  <1>a. /\ counter[u] \in Nat /\ charged[u] \in Nat /\ delta \in Nat
        /\ baseline[u] \in Nat \cup {None} /\ totals[u] \in Nat \cup {None}
        /\ first[u] \in Nat \cup {None} /\ None \notin Nat
        /\ asOf \in Nat /\ restarts \in Nat
    BY <1>0, NoneIsNoNumber DEF TypeOK, PerUser
  <1> USE DEF SteadyFor, Unsampled, Gained, AnswerAhead, AnswerThisEngine, Kept, ToCharge, Pending, InPass
  <1>1. ASSUME NEW w \in Users, Transfer(w) PROVE SteadyFor(u)'
    <2>1. /\ UNCHANGED <<row, baseline, pc, totals, todo, cur, delta, asOf, charged, first, restarts>>
          /\ counter'[u] = counter[u] \/ counter'[u] = counter[u] + 1
      BY <1>0, <1>1 DEF Transfer, tableVars, passVars, ghostVars, bounds, TypeOK, PerUser
    <2>2. QED
      BY <1>0, <1>a, <2>1 DEF Exists
  <1>2. ASSUME EngineRestart PROVE SteadyFor(u)'
    <2>1. /\ UNCHANGED <<row, baseline, pc, totals, todo, cur, delta, asOf, charged>>
          /\ first'[u] = None /\ restarts' = restarts + 1
      BY <1>2 DEF EngineRestart, passVars, tableVars
    <2>2. QED
      BY <1>0, <1>a, <2>1
  <1>3. ASSUME Query PROVE SteadyFor(u)'
    <2>1. /\ UNCHANGED <<row, baseline, counter, todo, cur, delta, charged, first, restarts>>
          /\ pc = "idle" /\ pc' = "rows" /\ asOf' = restarts
          /\ totals'[u] = counter[u] \/ totals'[u] = None
      BY <1>3 DEF Query, tableVars, engineVars, ghostVars, bounds
    <2>2. QED
      BY <1>0, <1>a, <2>1
  <1>4. ASSUME ReadRows PROVE SteadyFor(u)'
    <2>1. /\ UNCHANGED <<row, baseline, counter, totals, cur, delta, asOf, charged, first, restarts>>
          /\ pc = "rows" /\ pc' = "users" /\ (u \in todo' => Exists(u))
      BY <1>4 DEF ReadRows, tableVars, engineVars, ghostVars, bounds, Active
    <2>2. QED
      BY <1>0, <1>a, <2>1 DEF Exists
  <1>5. ASSUME NEW w \in Users, Sample(w) PROVE SteadyFor(u)'
    <2>1. UNCHANGED <<row, counter, totals, asOf, charged, restarts>>
      BY <1>5 DEF Sample, engineVars, bounds
    <2>2. /\ pc = "users" /\ pc' = (IF Delta(w) > 0 THEN "charge" ELSE "users")
          /\ w \in todo /\ todo' = todo \ {w} /\ cur' = w /\ delta' = Delta(w)
          /\ baseline' = [baseline EXCEPT ![w] = totals[w]]
          /\ first' = IF baseline[w] = None /\ asOf = restarts THEN [first EXCEPT ![w] = totals[w]] ELSE first
      BY <1>5 DEF Sample
    <2>3. CASE u = w
      <3>1. totals[u] \in Nat /\ totals[u] # None
        BY <1>0, <1>a, <2>2, <2>3 DEF TodoSampled
      <3>2. /\ baseline'[u] = totals[u]
            /\ first'[u] = IF baseline[u] = None /\ asOf = restarts THEN totals[u] ELSE first[u]
        BY <1>0, <2>2, <2>3 DEF TypeOK, PerUser
      <3>3. Delta(u) = IF baseline[u] = None \/ totals[u] < baseline[u] THEN 0 ELSE totals[u] - baseline[u]
        BY <1>a, <3>1 DEF Delta
      <3>4. delta' = Delta(u) /\ cur' = u /\ (pc' = "charge" <=> Delta(u) > 0)
            /\ (pc' = "charge" \/ pc' = "users") /\ u \notin todo'
        BY <2>2, <2>3
      <3>5. CASE baseline[u] = None
        BY <1>0, <1>a, <2>1, <2>2, <3>1, <3>2, <3>3, <3>4, <3>5
      <3>6. CASE baseline[u] # None /\ first[u] = None
        BY <1>0, <1>a, <2>1, <2>2, <3>1, <3>2, <3>3, <3>4, <3>6
      <3>7. CASE baseline[u] # None /\ first[u] # None
        <4>1. baseline[u] \in Nat /\ first[u] \in Nat /\ baseline[u] <= totals[u]
              /\ charged[u] = baseline[u] - first[u] /\ asOf = restarts /\ totals[u] <= counter[u]
          BY <1>0, <1>a, <2>2, <2>3, <3>1, <3>7
        <4>2. Exists(u) /\ Exists(u)'
          BY <1>0, <2>1, <2>2, <2>3, <3>7 DEF Exists
        <4>3. QED
          BY <1>a, <2>1, <2>2, <3>1, <3>2, <3>3, <3>4, <3>7, <4>1, <4>2
      <3>8. QED
        BY <3>5, <3>6, <3>7
    <2>4. CASE u # w
      <3>1. baseline'[u] = baseline[u] /\ first'[u] = first[u] /\ (u \in todo' <=> u \in todo)
        BY <1>0, <2>2, <2>4 DEF TypeOK, PerUser
      <3>2. QED
        BY <1>0, <1>a, <2>1, <2>2, <2>4, <3>1 DEF Exists
    <2>5. QED
      BY <2>3, <2>4
  <1>6. ASSUME Charge PROVE SteadyFor(u)'
    <2>1. /\ UNCHANGED <<baseline, counter, totals, todo, cur, delta, asOf, first, restarts>>
          /\ pc = "charge" /\ pc' \in {"users", "disable"}
      BY <1>6 DEF Charge, engineVars, bounds
    <2>2. CASE Exists(cur)
      <3>1. \A v \in Users : Exists(v) => Exists(v)'
        <4>1. cur \in Users /\ row' = Add(cur, delta)
          BY <1>0, <1>6, <2>1, <2>2 DEF Charge, TypeOK
        <4>2. Grown(cur, delta) /\ \A v \in Users \ {cur} : row'[v] = row[v]
          BY <1>0, <1>a, <2>2, <4>1, AddGrows
        <4>3. QED
          BY <4>2 DEF Grown, Exists
      <3>2. charged'[u] = IF u = cur THEN charged[u] + delta ELSE charged[u]
        BY <1>0, <1>6, <2>2 DEF Charge, TypeOK, PerUser
      <3>3. u = cur => u \notin todo
        BY <1>0, <2>1 DEF TodoSampled
      <3>4. CASE u = cur
        BY <1>0, <1>a, <2>1, <2>2, <3>2, <3>3, <3>4
      <3>5. CASE u # cur
        BY <1>0, <1>a, <2>1, <3>1, <3>2, <3>5
      <3>6. QED
        BY <3>4, <3>5
    <2>3. CASE ~Exists(cur)
      <3>1. UNCHANGED <<row, charged>>
        BY <1>6, <2>3 DEF Charge
      <3>2. QED
        BY <1>0, <1>a, <2>1, <2>3, <3>1 DEF Exists
    <2>4. QED
      BY <2>2, <2>3
  <1>7. ASSUME Disable PROVE SteadyFor(u)'
    <2>1. /\ UNCHANGED <<baseline, counter, totals, todo, cur, delta, asOf, charged, first, restarts>>
          /\ pc = "disable" /\ pc' = "users"
      BY <1>7 DEF Disable, engineVars, bounds, ghostVars
    <2>2. Exists(u) => Exists(u)'
      <3>1. row[u] \in Row => [row[u] EXCEPT !.active = FALSE] \in Row
        BY DEF Row
      <3>2. row'[u] = row[u] \/ (Exists(u) /\ row'[u] = [row[u] EXCEPT !.active = FALSE])
        BY <1>0, <1>7 DEF Disable, TypeOK, PerUser
      <3>3. QED
        BY <1>0, <3>1, <3>2, NoneIsNoRow DEF TypeOK, PerUser, Exists
    <2>3. QED
      BY <1>0, <1>a, <2>1, <2>2
  <1>8. ASSUME PassDone PROVE SteadyFor(u)'
    BY <1>0, <1>a, <1>8 DEF PassDone, tableVars, engineVars, ghostVars
  <1>9. ASSUME PassFails PROVE SteadyFor(u)'
    BY <1>0, <1>a, <1>9 DEF PassFails, tableVars, engineVars
  <1>10. ASSUME Handler PROVE SteadyFor(u)'
    <2>1. UNCHANGED <<baseline, counter, pc, totals, todo, cur, delta, asOf, charged, restarts>>
      BY <1>10, HandlerEffect DEF engineVars, passVars
    <2>2. \/ first'[u] = None
          \/ first'[u] = first[u] /\ (Exists(u) => Exists(u)')
      BY <1>10, HandlerEffect DEF Untouched, Rewritten, Grown, Exists
    <2>3. QED
      BY <1>0, <1>a, <2>1, <2>2
  <1>11. ASSUME UNCHANGED vars PROVE SteadyFor(u)'
    BY <1>0, <1>11 DEF vars, tableVars, engineVars, passVars, ghostVars, bounds, Exists
  <1>12. QED
    BY <1>1, <1>2, <1>3, <1>4, <1>5, <1>6, <1>7, <1>8, <1>9, <1>10, <1>11 DEF Next, Pass

\* On an engine that did not restart since a user's first sample, between passes that did
\* not fail, exactly what its counter gained since is charged (xray.sync_traffic_stats):
\* for any users, however handlers and answers of statsquery fall between the statements.
THEOREM NoByteLost == Spec => []SteadyStateExact
  <1>1. Init => Steady
    BY DEF Init, Steady, SteadyFor, Unsampled, Gained, AnswerAhead, AnswerThisEngine, Kept, ToCharge,
           Pending, InPass, Zero
  <1>2. TypeOK /\ Steady => SteadyStateExact
    <2> SUFFICES ASSUME TypeOK, Steady, NEW u \in Users, pc \in {"idle", "rows"}, first[u] # None
                 PROVE  charged[u] = baseline[u] - first[u]
      BY DEF SteadyStateExact
    <2>1. Pending(u) = 0 /\ charged[u] \in Nat
      BY DEF Pending, TypeOK, PerUser
    <2>2. charged[u] + Pending(u) = baseline[u] - first[u]
      BY DEF Steady, SteadyFor, Gained
    <2>3. QED
      BY <2>1, <2>2
  <1>3. Types => TypeOK
    BY DEF Types
  <1>4. QED
    BY <1>1, <1>2, <1>3, TypesInit, TypesNext, SteadyNext, PTL DEF Spec
-----------------------------------------------------------------------------
(***************************************************************************)
(* How long a user at the quota stays active.  A charge above the quota is *)
(* followed by a decision, and the decision is taken on what the SELECT    *)
(* returned: the one pass whose SELECT came too early is the reason for    *)
(* the second charge, and a pass that fails before its UPDATE for one      *)
(* more.                                                                   *)
(***************************************************************************)
\* The UPDATE that disables the user is the pass's next statement.
Disabling(u) == pc = "disable" /\ cur = u

\* The row the pass works with is at the quota, or no charge was made above it that
\* a failed pass does not account for.
SeenAtQuota(u) ==
    ToCharge(u) => over[u] <= faults \/ AtQuota(snap[u].used, snap[u].limit)

BoundedFor(u) ==
    /\ over[u] <= 2 + faults
    /\ u \in Active => /\ over[u] > 0 => AtQuota(row[u].used, row[u].limit)
                       /\ Disabling(u) \/ over[u] <= 1 + faults
                       /\ SeenAtQuota(u)
Bounded == \A u \in Users : BoundedFor(u)

\* A quota that was reached stays reached while the counter grows.
LEMMA AtQuotaGrows ==
    ASSUME NEW used \in Nat, NEW more \in Nat, used <= more, NEW limit \in Quotas \cup {None},
           AtQuota(used, limit)
    PROVE  AtQuota(more, limit)
  BY QuotasAreNat DEF AtQuota

\* Every action keeps the overshoot bounded.
LEMMA BoundedNext == Types /\ Types' /\ Bounded /\ [Next]_vars => Bounded'
  <1> SUFFICES ASSUME Types, Types', Bounded, [Next]_vars, NEW u \in Users PROVE BoundedFor(u)'
    BY DEF Bounded
  <1>0. TypeOK /\ TypeOK' /\ TodoSampled /\ BoundedFor(u)
    BY DEF Types, Bounded
  <1>a. /\ over[u] \in Nat /\ over'[u] \in Nat /\ faults \in Nat /\ None \notin Nat
        /\ Exists(u) => row[u].used \in Nat /\ row[u].limit \in Quotas \cup {None}
    BY <1>0, NoneIsNoNumber DEF TypeOK, PerUser, Row, Exists
  <1> USE DEF BoundedFor, SeenAtQuota, Disabling, ToCharge, InPass, Active
  <1>1. ASSUME UNCHANGED <<row, pc, todo, cur, snap, over, faults>> PROVE BoundedFor(u)'
    BY <1>0, <1>1 DEF Exists
  <1>2. ASSUME \/ \E w \in Users : Transfer(w)
               \/ EngineRestart \/ UNCHANGED vars
        PROVE  BoundedFor(u)'
    BY <1>1, <1>2 DEF Transfer, EngineRestart, vars, tableVars, passVars, ghostVars, bounds
  <1>3. ASSUME Query \/ PassDone PROVE BoundedFor(u)'
    <2>1. UNCHANGED <<row, over, faults>> /\ pc' \in {"idle", "rows"} /\ pc \in {"idle", "users"}
      BY <1>3 DEF Query, PassDone, tableVars, ghostVars, bounds
    <2>2. QED
      BY <1>0, <2>1 DEF Exists
  <1>4. ASSUME ReadRows PROVE BoundedFor(u)'
    <2>1. /\ UNCHANGED <<row, over, faults>> /\ pc = "rows" /\ pc' = "users"
          /\ u \in Active => snap'[u].used = row[u].used /\ snap'[u].limit = row[u].limit
      BY <1>4 DEF ReadRows, tableVars, ghostVars, bounds
    <2>2. QED
      BY <1>0, <1>a, <2>1 DEF Exists
  <1>5. ASSUME NEW w \in Users, Sample(w) PROVE BoundedFor(u)'
    <2>1. /\ UNCHANGED <<row, snap, over, faults>>
          /\ pc = "users" /\ pc' \in {"charge", "users"}
          /\ w \in todo /\ todo' = todo \ {w} /\ cur' = w
      BY <1>5 DEF Sample, bounds
    <2>2. QED
      BY <1>0, <2>1 DEF Exists
  <1>6. ASSUME Charge PROVE BoundedFor(u)'
    <2>1. /\ UNCHANGED <<snap, todo, cur, delta, faults>> /\ cur \in Users
          /\ pc = "charge" /\ pc' = (IF ReachesQuota(cur) THEN "disable" ELSE "users")
      BY <1>0, <1>6 DEF Charge, bounds, TypeOK
    <2>2. CASE ~Exists(cur) \/ u # cur
      <3>1. row'[u] = row[u] /\ over'[u] = over[u]
        <4>1. CASE ~Exists(cur)
          BY <1>6, <4>1 DEF Charge
        <4>2. CASE Exists(cur) /\ u # cur
          BY <1>0, <1>6, <4>2 DEF Charge, Add, TypeOK, PerUser
        <4>3. QED
          BY <2>2, <4>1, <4>2
      <3>2. QED
        BY <1>0, <2>1, <2>2, <3>1 DEF Exists
    <2>3. CASE Exists(cur) /\ u = cur
      <3>1. Grown(u, delta)
        BY <1>0, <1>6, <2>1, <2>3, AddGrows DEF Charge, TypeOK
      <3>2. delta \in Nat /\ row'[u].used \in Nat /\ row[u].used <= row'[u].used
        BY <1>0, <1>a, <2>3, <3>1 DEF Grown, TypeOK
      <3>3. AtQuota(row[u].used, row[u].limit) => AtQuota(row'[u].used, row'[u].limit)
        BY <1>a, <2>3, <3>1, <3>2, AtQuotaGrows DEF Grown
      <3>4. over'[u] = IF row[u].active /\ AtQuota(row[u].used, row[u].limit)
                       THEN over[u] + 1 ELSE over[u]
        BY <1>0, <1>6, <2>3 DEF Charge, TypeOK, PerUser
      <3>5. AtQuota(snap[u].used, snap[u].limit) => pc' = "disable"
        <4>1. snap[u].used \in Nat /\ snap[u].limit \in Quotas \cup {None} /\ delta \in Nat
          BY <1>0 DEF TypeOK, PerUser, Snap
        <4>2. snap[u].used + delta \in Nat /\ snap[u].used <= snap[u].used + delta
          BY <4>1
        <4>3. QED
          BY <2>1, <2>3, <4>1, <4>2, AtQuotaGrows DEF ReachesQuota
      <3>6. u \notin todo' /\ pc' \in {"disable", "users"} /\ cur' = u
        BY <1>0, <2>1, <2>3 DEF TodoSampled
      <3>7. row'[u].active = row[u].active
        BY <3>1 DEF Grown
      <3>8. CASE row[u].active /\ AtQuota(row[u].used, row[u].limit)
        <4>1. over'[u] = over[u] + 1 /\ over[u] <= 1 + faults
          BY <1>0, <2>1, <2>3, <3>4, <3>8
        <4>2. over[u] <= faults \/ pc' = "disable"
          BY <1>0, <2>1, <2>3, <3>5, <3>8
        <4>3. QED
          BY <1>a, <2>1, <3>3, <3>6, <3>8, <4>1, <4>2
      <3>9. CASE ~(row[u].active /\ AtQuota(row[u].used, row[u].limit))
        <4>1. over'[u] = over[u]
          BY <3>4, <3>9
        <4>2. row[u].active => ~(over[u] > 0)
          BY <1>0, <2>3, <3>9
        <4>3. QED
          BY <1>0, <1>a, <2>1, <3>6, <3>7, <4>1, <4>2
      <3>10. QED
        BY <3>8, <3>9
    <2>4. QED
      BY <2>2, <2>3
  <1>7. ASSUME Disable PROVE BoundedFor(u)'
    <2>1. /\ UNCHANGED <<snap, todo, cur, over, faults>>
          /\ pc = "disable" /\ pc' = "users" /\ cur \in Users
      BY <1>0, <1>7 DEF Disable, ghostVars, bounds, TypeOK
    <2>2. CASE u = cur
      <3>1. u \notin Active'
        <4>1. Exists(u) => row'[u] = [row[u] EXCEPT !.active = FALSE] /\ row[u] \in Row
          BY <1>0, <1>7, <2>2 DEF Disable, TypeOK, PerUser, Exists
        <4>2. Exists(u) => ~row'[u].active
          BY <4>1 DEF Row
        <4>3. ~Exists(u) => row'[u] = None
          BY <1>7, <2>2 DEF Disable, Exists
        <4>4. QED
          BY <4>2, <4>3 DEF Exists
      <3>2. QED
        BY <1>0, <2>1, <3>1
    <2>3. CASE u # cur
      <3>1. row'[u] = row[u]
        BY <1>0, <1>7, <2>3 DEF Disable, TypeOK, PerUser
      <3>2. QED
        BY <1>0, <2>1, <2>3, <3>1 DEF Exists
    <2>4. QED
      BY <2>2, <2>3
  <1>8. ASSUME PassFails PROVE BoundedFor(u)'
    <2>1. UNCHANGED <<row, over>> /\ faults' = faults + 1 /\ pc' = "idle"
      BY <1>8 DEF PassFails, tableVars
    <2>2. QED
      BY <1>0, <1>a, <2>1 DEF Exists
  <1>9. ASSUME Handler PROVE BoundedFor(u)'
    <2>1. UNCHANGED <<pc, snap, todo, cur, faults>>
      BY <1>9, HandlerEffect DEF passVars
    <2>2. CASE Untouched(u)
      BY <1>0, <2>1, <2>2 DEF Untouched, Exists
    <2>3. CASE Rewritten(u)
      BY <1>a, <2>1, <2>3 DEF Rewritten
    <2>4. CASE Grown(u, 1) /\ over'[u] = over[u]
      <3>1. AtQuota(row[u].used, row[u].limit) => AtQuota(row'[u].used, row'[u].limit)
        BY <1>a, <2>4, AtQuotaGrows DEF Grown
      <3>2. QED
        BY <1>0, <2>1, <2>4, <3>1 DEF Grown, Exists
    <2>5. QED
      BY <1>9, <2>2, <2>3, <2>4, HandlerEffect
  <1>10. QED
    BY <1>2, <1>3, <1>4, <1>5, <1>6, <1>7, <1>8, <1>9 DEF Next, Pass

\* A user at the quota is charged at most twice before the pass has disabled the user,
\* and once more per pass that failed (xray.sync_traffic_stats: the decision is taken on
\* the values the SELECT returned), however many users, quotas and handlers there are.
THEOREM QuotaOvershootBounded == Spec => []OverQuotaBounded
  <1>1. Init => Bounded
    BY DEF Init, Bounded, BoundedFor, Active, Exists, Zero
  <1>2. Bounded => OverQuotaBounded
    BY DEF Bounded, BoundedFor, OverQuotaBounded
  <1>3. QED
    BY <1>1, <1>2, TypesInit, TypesNext, BoundedNext, PTL DEF Spec
-----------------------------------------------------------------------------
(***************************************************************************)
(* Why a user is disabled.                                                 *)
(***************************************************************************)
\* Unless a handler rewrote it, the row the pass read is a lower bound of the row.
RowGrew(u) ==
    ToCharge(u) /\ u \notin touched =>
        Exists(u) /\ row[u].limit = snap[u].limit /\ row[u].used >= snap[u].used

\* ... and so the quota the pass found reached is reached.
DueDisabled(u) ==
    Disabling(u) /\ u \notin touched => Exists(u) /\ AtQuota(row[u].used, row[u].limit)

Justified == \A u \in Users : RowGrew(u) /\ DueDisabled(u)

\* Every action keeps the grounds of a decision.
LEMMA JustifiedNext == Types /\ Types' /\ Justified /\ [Next]_vars => Justified'
  <1> SUFFICES ASSUME Types, Types', Justified, [Next]_vars, NEW u \in Users
               PROVE  (RowGrew(u) /\ DueDisabled(u))'
    BY DEF Justified
  <1> DEFINE Just == RowGrew(u) /\ DueDisabled(u)
  <1>0. TypeOK /\ TypeOK' /\ TodoSampled /\ Just
    BY DEF Types, Justified
  <1>a. /\ Exists(u) => row[u].used \in Nat /\ row[u].limit \in Quotas \cup {None}
        /\ snap[u].used \in Nat /\ snap[u].limit \in Quotas \cup {None} /\ delta \in Nat
    BY <1>0 DEF TypeOK, PerUser, Row, Snap, Exists
  <1> USE DEF RowGrew, DueDisabled, Disabling, ToCharge, InPass
  <1>1. ASSUME UNCHANGED <<row, pc, todo, cur, snap, touched>> PROVE Just'
    BY <1>0, <1>1 DEF Exists
  <1>2. ASSUME \/ \E w \in Users : Transfer(w)
               \/ EngineRestart \/ UNCHANGED vars
        PROVE  Just'
    BY <1>1, <1>2 DEF Transfer, EngineRestart, vars, tableVars, passVars
  <1>3. ASSUME Query \/ PassDone \/ PassFails PROVE Just'
    BY <1>3 DEF Query, PassDone, PassFails
  <1>4. ASSUME ReadRows PROVE Just'
    <2>1. /\ UNCHANGED row /\ pc' = "users" /\ (u \in todo' => u \in Active)
          /\ u \in Active => snap'[u].used = row[u].used /\ snap'[u].limit = row[u].limit
      BY <1>4 DEF ReadRows, tableVars
    <2>2. QED
      BY <1>a, <2>1 DEF Active, Exists
  <1>5. ASSUME NEW w \in Users, Sample(w) PROVE Just'
    <2>1. /\ UNCHANGED <<row, snap, touched>>
          /\ pc = "users" /\ pc' \in {"charge", "users"}
          /\ w \in todo /\ todo' = todo \ {w} /\ cur' = w
      BY <1>5 DEF Sample
    <2>2. QED
      BY <1>0, <2>1 DEF Exists
  <1>6. ASSUME Charge PROVE Just'
    <2>1. /\ UNCHANGED <<snap, todo, cur, delta, touched>> /\ cur \in Users
          /\ pc = "charge" /\ pc' = (IF ReachesQuota(cur) THEN "disable" ELSE "users")
      BY <1>0, <1>6 DEF Charge, TypeOK
    <2>2. CASE ~Exists(cur) \/ u # cur
      <3>1. row'[u] = row[u]
        <4>1. CASE ~Exists(cur)
          BY <1>6, <4>1 DEF Charge
        <4>2. CASE Exists(cur) /\ u # cur
          BY <1>0, <1>6, <4>2 DEF Charge, Add, TypeOK, PerUser
        <4>3. QED
          BY <2>2, <4>1, <4>2
      <3>2. QED
        BY <1>0, <2>1, <2>2, <3>1 DEF Exists
    <2>3. CASE Exists(cur) /\ u = cur
      <3>1. Grown(u, delta)
        BY <1>0, <1>6, <2>1, <2>3, AddGrows DEF Charge, TypeOK
      <3>2. Exists(u)' /\ row'[u].used = row[u].used + delta /\ row'[u].limit = row[u].limit
        BY <3>1 DEF Grown, Exists
      <3>3. u \notin todo' /\ pc' \in {"disable", "users"}
        BY <1>0, <2>1, <2>3 DEF TodoSampled
      <3>4. ASSUME u \notin touched, ReachesQuota(u) PROVE AtQuota(row'[u].used, row'[u].limit)
        <4>1. row[u].limit = snap[u].limit /\ row[u].used >= snap[u].used
          BY <1>0, <2>1, <2>3, <3>4
        <4>2. /\ snap[u].used + delta \in Nat /\ row[u].used + delta \in Nat
              /\ snap[u].used + delta <= row[u].used + delta
          BY <1>a, <2>3, <4>1
        <4>3. AtQuota(snap[u].used + delta, snap[u].limit)
          BY <3>4 DEF ReachesQuota
        <4>4. AtQuota(row[u].used + delta, snap[u].limit)
          BY <1>a, <4>2, <4>3, AtQuotaGrows
        <4>5. QED
          BY <3>2, <4>1, <4>4
      <3>5. QED
        BY <2>1, <2>3, <3>2, <3>3, <3>4
    <2>4. QED
      BY <2>2, <2>3
  <1>7. ASSUME Disable PROVE Just'
    <2>1. /\ UNCHANGED <<snap, todo, cur, touched>>
          /\ pc = "disable" /\ pc' = "users" /\ cur \in Users
      BY <1>0, <1>7 DEF Disable, TypeOK
    <2>2. Exists(u) => Exists(u)' /\ row'[u].used = row[u].used /\ row'[u].limit = row[u].limit
      <3>1. row[u] \in Row => [row[u] EXCEPT !.active = FALSE] \in Row
        BY DEF Row
      <3>2. row'[u] = row[u] \/ (Exists(u) /\ row'[u] = [row[u] EXCEPT !.active = FALSE])
        BY <1>0, <1>7 DEF Disable, TypeOK, PerUser
      <3>3. row[u] \in Row \/ ~Exists(u)
        BY <1>0 DEF TypeOK, PerUser, Exists
      <3>4. Exists(u) => Exists(u)'
        BY <3>1, <3>2, <3>3, NoneIsNoRow DEF Exists
      <3>5. QED
        BY <3>2, <3>3, <3>4 DEF Row
    <2>3. QED
      BY <1>0, <2>1, <2>2
  <1>8. ASSUME Handler PROVE Just'
    <2>1. UNCHANGED <<pc, snap, todo, cur>>
      BY <1>8, HandlerEffect DEF passVars
    <2>2. CASE Untouched(u)
      BY <1>0, <2>1, <2>2 DEF Untouched, Exists
    <2>3. CASE Rewritten(u)
      BY <2>3 DEF Rewritten
    <2>4. CASE Grown(u, 1) /\ (u \in touched' <=> u \in touched)
      <3>1. /\ Exists(u) /\ Exists(u)' /\ row'[u].limit = row[u].limit
            /\ row'[u].used = row[u].used + 1 /\ row'[u].used \in Nat
        BY <1>a, <2>4 DEF Grown, Exists
      <3>2. AtQuota(row[u].used, row[u].limit) => AtQuota(row'[u].used, row'[u].limit)
        BY <1>a, <3>1, AtQuotaGrows
      <3>3. QED
        BY <1>0, <1>a, <2>1, <2>4, <3>1, <3>2
    <2>5. QED
      BY <1>8, <2>2, <2>3, <2>4, HandlerEffect
  <1>9. QED
    BY <1>2, <1>3, <1>4, <1>5, <1>6, <1>7, <1>8 DEF Next, Pass

\* The pass (xray.sync_traffic_stats) disables a user only at the quota, unless a handler
\* rewrote the user's row since the pass's SELECT.
THEOREM NoUserDisabledEarly == Spec => DisableJustified
  <1>1. Init => Justified
    BY DEF Init, Justified, RowGrew, DueDisabled, Disabling, ToCharge, InPass
  <1>2. ASSUME Justified, NEW u \in Users, pc = "disable" /\ cur = u /\ u \notin touched
        PROVE  AtQuota(row[u].used, row[u].limit)
    BY <1>2 DEF Justified, DueDisabled, Disabling
  <1>3. Justified => \A u \in Users :
          (pc = "disable" /\ cur = u /\ Exists(u) /\ row'[u] # row[u] /\ u \notin touched)
              => AtQuota(row[u].used, row[u].limit)
    BY <1>2
  <1>4. QED
    BY <1>1, <1>3, TypesInit, TypesNext, JustifiedNext, PTL DEF Spec, DisableJustified
=============================================================================
