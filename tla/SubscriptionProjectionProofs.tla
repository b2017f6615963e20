-------------------- MODULE SubscriptionProjectionProofs --------------------
(***************************************************************************)
(* Proofs about SubscriptionProjection for every number of subscriptions,  *)
(* customer rows, workers, periods, changes and deletions: a cancellation  *)
(* sticks, and histories that only move forward converge.                  *)
(***************************************************************************)
EXTENDS SubscriptionProjection, FiniteSetTheorems, WellFoundedInduction, TLAPS

States == Snapshot \cup StoredRow

\* A cancelled subscription alone has the highest rank.
LEMMA RankFacts ==
    ASSUME NEW st \in Statuses
    PROVE  /\ StatusRank(st) \in 0 .. 3
           /\ StatusRank(st) = 3 <=> st = "canceled"
BY DEF StatusRank, Statuses

\* The types of what the order of the upsert compares.
LEMMA StateFacts ==
    ASSUME NEW x \in States
    PROVE  /\ x.end \in Nat
           /\ x.status \in Statuses
           /\ StatusRank(x.status) \in 0 .. 3
           /\ StatusRank(x.status) = 3 <=> x.status = "canceled"
<1>1. x.end \in Nat /\ x.status \in Statuses
  BY BoundsAssumption DEF States, Snapshot, StoredRow
<1>2. QED
  BY <1>1, RankFacts

\* Going on from a later state keeps an earlier one behind.
LEMMA ForwardTransitive ==
    ASSUME NEW x \in States, NEW y \in States, NEW z \in States,
           Forward(x, y), StrictlyAfter(z, y)
    PROVE  Forward(x, z)
BY StateFacts DEF Forward, SameState, StrictlyAfter, Supersedes

\* The moves Stripe makes keep what came before in the past.
LEMMA BeforeMoves ==
    ASSUME NEW x \in States, NEW y \in Snapshot, NEW z \in Snapshot,
           Before(x, y), z.status \in Moves[y.status],
           z.end \in {y.end, y.end + 1}
    PROVE  Before(x, z)
<1>1. y.status # "canceled"
  BY DEF Moves, Snapshot, Statuses
<1>2. y \in States /\ z \in States
  BY DEF States
<1>3. QED
  BY <1>1, <1>2, StateFacts DEF Before

\* A snapshot of a cancelled subscription always wins, and then nothing that
\* came before it does.
LEMMA CanceledWins ==
    ASSUME NEW x \in States, NEW y \in States, NEW z \in States,
           Before(x, z), Before(y, z)
    PROVE  /\ x.status = "canceled" => Supersedes(x, y)
           /\ y.status = "canceled" /\ Supersedes(x, y) => x.status = "canceled"
BY StateFacts DEF Before, Supersedes

\* The upsert takes Stripe's current state and keeps it.
LEMMA CurrentWins ==
    ASSUME NEW x \in States, NEW y \in States, NEW z \in States
    PROVE  /\ Forward(y, z) /\ SameState(x, z) => Supersedes(x, y)
           /\ Forward(x, z) /\ SameState(y, z) /\ Supersedes(x, y) => SameState(x, z)
BY StateFacts DEF Forward, SameState, StrictlyAfter, Supersedes

\* What the counting of workers needs of finite sets.
LEMMA Counting ==
    ASSUME NEW S \in SUBSET Workers
    PROVE  /\ Cardinality(S) \in Nat
           /\ \A T \in SUBSET S : Cardinality(T) \in Nat /\ Cardinality(T) <= Cardinality(S)
           /\ \A w \in S : Cardinality(S \ {w}) = Cardinality(S) - 1
           /\ \A w \in Workers \ S : Cardinality(S \cup {w}) = Cardinality(S) + 1
<1>1. IsFiniteSet(S)
  BY FS_Subset, WorkersAssumption
<1>2. Cardinality(S) \in Nat
  BY <1>1, FS_CardinalityType
<1>3. \A T \in SUBSET S : Cardinality(T) \in Nat /\ Cardinality(T) <= Cardinality(S)
  BY <1>1, FS_Subset, FS_CardinalityType
<1>4. \A w \in S : Cardinality(S \ {w}) = Cardinality(S) - 1
  BY <1>1, FS_RemoveElement
<1>5. \A w \in Workers \ S : Cardinality(S \cup {w}) = Cardinality(S) + 1
  BY <1>1, FS_AddElement
<1>6. QED
  BY <1>2, <1>3, <1>4, <1>5

-----------------------------------------------------------------------------
\* A change at Stripe sets a subscription to a state that does not undo what
\* was: new, or reached by one of Stripe's moves.
LEMMA StripeMoves ==
    ASSUME NEW s \in Subs, Subscribe(s) \/ ChangeSubscription(s)
    PROVE  \E new \in Snapshot :
              /\ StripeSets(s, new)
              /\ \/ stripe[s] = NoSub /\ UNCHANGED ambiguous
                 \/ /\ stripe[s] # NoSub
                    /\ new.status \in Moves[stripe[s].status]
                    /\ new.end \in {stripe[s].end, stripe[s].end + 1}
                    /\ ambiguous' = IF StrictlyAfter(new, stripe[s])
                                    THEN ambiguous ELSE ambiguous \cup {s}
<1>1. CASE Subscribe(s)
  <2>1. PICK status \in {"incomplete", "trialing", "active"}, price \in Prices :
            StripeSets(s, [status |-> status, price |-> price, end |-> 1])
    BY <1>1 DEF Subscribe
  <2>2. [status |-> status, price |-> price, end |-> 1] \in Snapshot
    BY BoundsAssumption DEF Snapshot, Statuses
  <2>3. QED
    BY <1>1, <2>1, <2>2 DEF Subscribe
<1>2. CASE ChangeSubscription(s)
  BY <1>2 DEF ChangeSubscription
<1>3. QED
  BY <1>1, <1>2

\* The types the other steps rest on.  A projection's batch and the deletion
\* only write rows of their tables; a worker that resolved a customer has one.
LEMMA TypesStep == ProjectionInv /\ [Next]_vars => ProjectionTypes'
<1> SUFFICES ASSUME ProjectionInv, [Next]_vars PROVE ProjectionTypes'
  OBVIOUS
<1> USE NullAssumption, NoSubAssumption, BoundsAssumption
<1> USE DEF ProjectionTypes, Projecting, tables, people, worker, history
<1>0. ProjectionTypes
  BY DEF ProjectionInv
<1>1. ASSUME NEW s \in Subs, NEW new \in Snapshot, StripeSets(s, new)
      PROVE  ProjectionTypes'
  BY <1>0, <1>1 DEF StripeSets
<1>2. ASSUME NEW w \in Workers, NEW s \in Subs, NEW b \in BOOLEAN, Start(w, s, b)
      PROVE  ProjectionTypes'
  BY <1>0, <1>2 DEF Start
<1>3. ASSUME NEW w \in Workers, LookupCustomer(w) PROVE ProjectionTypes'
  <2>1. CASE linked # NoRow /\ Aim(w, "resolved", linked)
    BY <1>0, <1>3, <2>1 DEF LookupCustomer, Aim
  <2>2. CASE EndWorker(w)
    BY <1>0, <1>3, <2>2 DEF LookupCustomer, EndWorker
  <2>3. CASE Aim(w, "unlinked", NoRow)
    BY <1>0, <1>3, <2>3 DEF LookupCustomer, Aim
  <2>4. QED
    BY <1>3, <2>1, <2>2, <2>3 DEF LookupCustomer
<1>14. ASSUME NEW w \in Workers, LookupEmail(w) PROVE ProjectionTypes'
  BY <1>0, <1>14 DEF LookupEmail, Aim
<1>4. ASSUME NEW w \in Workers, LinkCustomer(w) PROVE ProjectionTypes'
  BY <1>0, <1>4 DEF LinkCustomer, Aim
<1>5. ASSUME NEW w \in Workers, InsertCustomer(w) PROVE ProjectionTypes'
  BY <1>0, <1>5 DEF InsertCustomer, InsertRow, Aim
<1>6. ASSUME NEW w \in Workers, ApplyProjection(w) PROVE ProjectionTypes'
  <2> DEFINE s == sub[w]
  <2>1. s \in Subs /\ snap[w] \in Snapshot /\ target[w] \in Rows /\ phase[w] # "idle"
    BY <1>0, <1>6 DEF ApplyProjection
  <2>2. store' \in [Subs -> StoredRow \cup {NoSub}]
    <3>1. [status |-> snap[w].status, price |-> snap[w].price,
           end |-> snap[w].end, customer |-> target[w]] \in StoredRow
      BY <2>1 DEF Snapshot, StoredRow
    <3>2. QED
      BY <1>0, <1>6, <2>1, <3>1 DEF ApplyProjection, Upsert, Written
  <2>3. due' \in [Subs -> Nat]
    <3>1. CASE signal[w] /\ due' = [due EXCEPT ![s] = @ - 1]
      <4>1. w \in Serving(s) /\ Serving(s) \in SUBSET Workers
        BY <2>1, <3>1 DEF Serving
      <4>2. /\ Cardinality(Serving(s)) \in Nat /\ Cardinality(Serving(s) \ {w}) \in Nat
            /\ Cardinality(Serving(s) \ {w}) = Cardinality(Serving(s)) - 1
        BY <4>1, Counting
      <4>3. Cardinality(Serving(s)) <= due[s] /\ due[s] \in Nat
        BY <1>0, <2>1 DEF ProjectionInv, PendingCovers
      <4>4. due[s] - 1 \in Nat
        BY <4>2, <4>3
      <4>5. QED
        BY <1>0, <3>1, <4>4
    <3>2. CASE UNCHANGED due
      BY <1>0, <3>2
    <3>3. QED
      BY <1>6, <3>1, <3>2 DEF ApplyProjection
  <2>4. QED
    BY <1>0, <1>6, <2>2, <2>3 DEF ApplyProjection, EndWorker
<1>7. ASSUME NEW w \in Workers, Drop(w) PROVE ProjectionTypes'
  BY <1>0, <1>7 DEF Drop, EndWorker
<1>8. ASSUME NEW w \in Workers, SyncSelect(w) PROVE ProjectionTypes'
  BY <1>0, <1>8 DEF SyncSelect, Aim
<1>9. ASSUME NEW w \in Workers, SyncWrite(w) PROVE ProjectionTypes'
  BY <1>0, <1>9 DEF SyncWrite, InsertRow, EndWorker
<1>10. ASSUME NEW c \in Rows, SignUp(c) \/ ProvisionLicense(c) \/ DeleteMyData(c)
       PROVE  ProjectionTypes'
  BY <1>0, <1>10 DEF SignUp, ProvisionLicense, DeleteMyData, EndAccount
<1>11. CASE UNCHANGED vars
  BY <1>0, <1>11 DEF vars
<1>12. ASSUME NEW s \in Subs, Subscribe(s) \/ ChangeSubscription(s)
       PROVE  \E new \in Snapshot : StripeSets(s, new)
  BY <1>12, StripeMoves
<1>13. ASSUME NEW w \in Workers, NEW s \in Subs,
              FetchSubscription(w, s) \/ ListSubscription(w, s)
       PROVE  \E b \in BOOLEAN : Start(w, s, b)
  BY <1>13 DEF FetchSubscription, ListSubscription
<1>15. QED
  BY <1>1, <1>2, <1>3, <1>4, <1>5, <1>6, <1>7, <1>8, <1>9, <1>10, <1>11,
     <1>12, <1>13, <1>14 DEF Next

\* Snapshots and rows stay behind Stripe's state whatever step is taken.
LEMMA OrderStep == ProjectionInv /\ [Next]_vars => HistoryOrdered'
<1> SUFFICES ASSUME ProjectionInv, [Next]_vars PROVE HistoryOrdered'
  OBVIOUS
<1> USE NullAssumption, NoSubAssumption
<1> USE DEF tables, people, worker, history
<1>0. ProjectionTypes /\ HistoryOrdered /\ ProjectionTypes'
  BY TypesStep DEF ProjectionInv
<1>1. ASSUME NEW s \in Subs, Subscribe(s) \/ ChangeSubscription(s)
      PROVE  HistoryOrdered'
  <2>1. PICK new \in Snapshot :
            /\ StripeSets(s, new)
            /\ \/ stripe[s] = NoSub /\ UNCHANGED ambiguous
               \/ /\ stripe[s] # NoSub
                  /\ new.status \in Moves[stripe[s].status]
                  /\ new.end \in {stripe[s].end, stripe[s].end + 1}
                  /\ ambiguous' = IF StrictlyAfter(new, stripe[s])
                                  THEN ambiguous ELSE ambiguous \cup {s}
    BY <1>1, StripeMoves
  <2>2. stripe' = [stripe EXCEPT ![s] = new] /\ UNCHANGED <<store, snap, sub, phase>>
    BY <2>1 DEF StripeSets
  <2>3. stripe \in [Subs -> Snapshot \cup {NoSub}]
    BY <1>0 DEF ProjectionTypes
  <2>4. ASSUME NEW x \in States, NEW t \in Subs, Behind(x, t)
        PROVE  /\ stripe'[t] # NoSub /\ Before(x, stripe'[t])
               /\ t \notin ambiguous' => Forward(x, stripe'[t])
    <3>1. CASE t = s
      <4>1. stripe[s] # NoSub /\ stripe[s] \in Snapshot /\ stripe'[t] = new
        BY <2>2, <2>3, <2>4, <3>1 DEF Behind
      <4>2. Before(x, new)
        BY <2>1, <2>4, <3>1, <4>1, BeforeMoves DEF Behind
      <4>3. t \notin ambiguous' => Forward(x, new)
        <5>1. ASSUME t \notin ambiguous' PROVE Forward(x, new)
          <6>1. t \notin ambiguous /\ StrictlyAfter(new, stripe[s])
            BY <2>1, <3>1, <4>1, <5>1
          <6>2. Forward(x, stripe[s])
            BY <2>4, <3>1, <6>1 DEF Behind
          <6>3. QED
            BY <4>1, <6>1, <6>2, ForwardTransitive DEF States
        <5>2. QED
          BY <5>1
      <4>4. QED
        BY <4>1, <4>2, <4>3
    <3>2. CASE t # s
      <4>1. stripe'[t] = stripe[t] /\ (t \notin ambiguous' => t \notin ambiguous)
        BY <2>1, <2>2, <2>3, <3>2
      <4>2. QED
        BY <2>4, <4>1 DEF Behind
    <3>3. QED
      BY <3>1, <3>2
  <2>5. ASSUME NEW w \in Workers, phase[w] \in Projecting
        PROVE  /\ snap[w] \in States /\ sub[w] \in Subs /\ Behind(snap[w], sub[w])
    BY <1>0, <2>5 DEF ProjectionTypes, HistoryOrdered, States
  <2>6. ASSUME NEW t \in Subs, store[t] # NoSub
        PROVE  store[t] \in States /\ Behind(store[t], t)
    BY <1>0, <2>6 DEF ProjectionTypes, HistoryOrdered, States
  <2>7. QED
    BY <2>2, <2>4, <2>5, <2>6 DEF HistoryOrdered, Behind
<1>2. ASSUME NEW w \in Workers, NEW s \in Subs,
             FetchSubscription(w, s) \/ ListSubscription(w, s)
      PROVE  HistoryOrdered'
  <2>1. /\ stripe[s] # NoSub /\ snap' = [snap EXCEPT ![w] = stripe[s]]
        /\ sub' = [sub EXCEPT ![w] = s] /\ phase' = [phase EXCEPT ![w] = "fetched"]
        /\ UNCHANGED <<stripe, store, ambiguous>>
    BY <1>2 DEF FetchSubscription, ListSubscription, Start
  <2>2. stripe[s] \in Snapshot /\ stripe[s] \in States
    BY <1>0, <2>1 DEF ProjectionTypes, States
  <2>3. Before(stripe[s], stripe[s]) /\ Forward(stripe[s], stripe[s])
    BY <2>2, StateFacts DEF Before, Forward, SameState
  <2>4. QED
    BY <1>0, <2>1, <2>3 DEF HistoryOrdered, Behind, ProjectionTypes
<1>3. ASSUME NEW w \in Workers, ApplyProjection(w) PROVE HistoryOrdered'
  <2> DEFINE s == sub[w]
             new == [status |-> snap[w].status, price |-> snap[w].price,
                     end |-> snap[w].end, customer |-> target[w]]
  <2>1. /\ s \in Subs /\ phase[w] \in Projecting
        /\ phase' = [phase EXCEPT ![w] = "idle"]
        /\ snap' = [snap EXCEPT ![w] = NoSub] /\ sub' = [sub EXCEPT ![w] = NoSub]
        /\ store' \in {store, [store EXCEPT ![s] = new]}
        /\ UNCHANGED <<stripe, ambiguous>>
    BY <1>0, <1>3 DEF ApplyProjection, EndWorker, Upsert, Written, ProjectionTypes, Projecting
  <2>2. Behind(snap[w], s)
    BY <1>0, <2>1 DEF HistoryOrdered
  <2>3. Behind(new, s)
    BY <2>2 DEF Behind, Before, Forward, SameState, StrictlyAfter, Supersedes
  <2>4. \A v \in Workers : phase'[v] \in Projecting => Behind(snap[v], sub[v])
                                                    /\ snap'[v] = snap[v] /\ sub'[v] = sub[v]
    BY <1>0, <2>1 DEF HistoryOrdered, ProjectionTypes, Projecting
  <2>5. \A t \in Subs : store'[t] # NoSub =>
            \/ store'[t] = new /\ t = s
            \/ store'[t] = store[t] /\ Behind(store[t], t)
    BY <1>0, <2>1 DEF HistoryOrdered, ProjectionTypes
  <2> HIDE DEF new, s
  <2>6. QED
    BY <2>1, <2>3, <2>4, <2>5 DEF HistoryOrdered, Behind
<1>4. ASSUME UNCHANGED <<stripe, store, ambiguous>>,
             \A v \in Workers : phase'[v] \in Projecting =>
                 phase[v] \in Projecting /\ snap'[v] = snap[v] /\ sub'[v] = sub[v]
      PROVE  HistoryOrdered'
  BY <1>0, <1>4 DEF HistoryOrdered, Behind
<1>5. ASSUME NEW w \in Workers,
             \/ LookupCustomer(w) \/ LookupEmail(w) \/ LinkCustomer(w) \/ InsertCustomer(w)
             \/ Drop(w) \/ SyncSelect(w) \/ SyncWrite(w)
      PROVE  HistoryOrdered'
  <2>1. UNCHANGED <<stripe, store, ambiguous>>
    BY <1>5 DEF LookupCustomer, LookupEmail, LinkCustomer, InsertCustomer, Drop, SyncSelect, SyncWrite
  <2>2. ASSUME NEW v \in Workers, phase'[v] \in Projecting
        PROVE  phase[v] \in Projecting /\ snap'[v] = snap[v] /\ sub'[v] = sub[v]
    BY <1>0, <1>5, <2>2 DEF LookupCustomer, LookupEmail, LinkCustomer, InsertCustomer, Drop,
       SyncSelect, SyncWrite, Aim, EndWorker, ProjectionTypes, Projecting
  <2>3. QED
    BY <1>4, <2>1, <2>2
<1>6. ASSUME NEW c \in Rows, SignUp(c) \/ ProvisionLicense(c) \/ DeleteMyData(c)
      PROVE  HistoryOrdered'
  BY <1>4, <1>6 DEF SignUp, ProvisionLicense, DeleteMyData, EndAccount
<1>7. CASE UNCHANGED vars
  BY <1>4, <1>7 DEF vars
<1>8. QED
  BY <1>1, <1>2, <1>3, <1>5, <1>6, <1>7 DEF Next

\* What a projection's upsert leaves in its row: Stripe's state if either the
\* snapshot or the row showed it, and a cancellation if either had one.
LEMMA UpsertStep ==
    ASSUME ProjectionInv, NEW w \in Workers, ApplyProjection(w)
    PROVE  \E s \in Subs :
           /\ s = sub[w] /\ snap[w] \in Snapshot /\ phase[w] \in Projecting
           /\ \A t \in Subs \ {s} : store'[t] = store[t]
           /\ store'[s] # NoSub
           /\ (snap[w].status = "canceled"
                \/ (store[s] # NoSub /\ store[s].status = "canceled"))
                => store'[s].status = "canceled"
           /\ s \notin ambiguous /\ (SameState(snap[w], stripe[s]) \/ Shows(s))
                => store'[s] # NoSub /\ SameState(store'[s], stripe[s])
<1> DEFINE s == sub[w]
           x == snap[w]
           y == store[s]
           z == stripe[s]
           new == [status |-> x.status, price |-> x.price, end |-> x.end,
                   customer |-> target[w]]
<1> USE NoSubAssumption, NullAssumption
<1>1. ProjectionTypes /\ HistoryOrdered
  BY DEF ProjectionInv
<1>2. s \in Subs /\ x \in Snapshot /\ phase[w] \in Projecting /\ target[w] \in Rows
  BY <1>1 DEF ApplyProjection, ProjectionTypes, Projecting
<1>3. new \in StoredRow /\ new # NoSub
  BY <1>2 DEF Snapshot, StoredRow
<1>4. /\ stripe' = stripe
      /\ store' = IF y = NoSub \/ Supersedes(x, y)
                  THEN [store EXCEPT ![s] = new] ELSE store
  BY DEF ApplyProjection, Upsert, Written
<1>5. z \in Snapshot /\ Before(x, z) /\ (s \notin ambiguous => Forward(x, z))
  BY <1>1, <1>2 DEF HistoryOrdered, Behind, ProjectionTypes
<1>6. y # NoSub => /\ y \in StoredRow /\ Before(y, z)
                   /\ s \notin ambiguous => Forward(y, z)
  BY <1>1, <1>2 DEF HistoryOrdered, Behind, ProjectionTypes
<1>7. store'[s] = IF y = NoSub \/ Supersedes(x, y) THEN new ELSE y
  BY <1>1, <1>2, <1>4 DEF ProjectionTypes
<1>8. \A t \in Subs \ {s} : store'[t] = store[t]
  BY <1>1, <1>4 DEF ProjectionTypes
<1>9. ASSUME x.status = "canceled" \/ (y # NoSub /\ y.status = "canceled")
      PROVE  store'[s].status = "canceled"
  <2>1. CASE y = NoSub
    BY <1>7, <1>9, <2>1
  <2>2. CASE y # NoSub
    <3>1. /\ x.status = "canceled" => Supersedes(x, y)
          /\ y.status = "canceled" /\ Supersedes(x, y) => x.status = "canceled"
      BY <1>2, <1>5, <1>6, <2>2, CanceledWins DEF States
    <3>2. QED
      BY <1>7, <1>9, <2>2, <3>1
  <2>3. QED
    BY <2>1, <2>2
<1>10. ASSUME s \notin ambiguous, SameState(x, z) \/ Shows(s)
       PROVE  store'[s] # NoSub /\ SameState(store'[s], z)
  <2>1. CASE y = NoSub
    BY <1>3, <1>7, <1>10, <2>1 DEF Shows, SameState
  <2>2. CASE y # NoSub
    <3>1. /\ SameState(x, z) => Supersedes(x, y)
          /\ SameState(y, z) /\ Supersedes(x, y) => SameState(x, z)
      BY <1>2, <1>5, <1>6, <1>10, <2>2, CurrentWins DEF States
    <3>2. SameState(x, z) => SameState(new, z)
      BY DEF SameState
    <3>3. QED
      BY <1>3, <1>7, <1>10, <2>2, <3>1, <3>2 DEF Shows
  <2>3. QED
    BY <2>1, <2>2
<1>11. store'[s] # NoSub
  BY <1>3, <1>7
<1>12. QED
  BY <1>2, <1>8, <1>9, <1>10, <1>11

\* A projected cancellation stays: every later snapshot came before it.
LEMMA CanceledStep ==
    ProjectionInv /\ [Next]_vars =>
        CancellationSticks' /\ (canceledSeen \subseteq {s \in Subs : store[s] # NoSub})'
<1> SUFFICES ASSUME ProjectionInv, [Next]_vars
             PROVE  /\ CancellationSticks'
                    /\ canceledSeen' \subseteq {s \in Subs : store'[s] # NoSub}
  OBVIOUS
<1> USE DEF CancellationSticks, tables, people, worker, history
<1>0. canceledSeen \subseteq {s \in Subs : store[s] # NoSub} /\ CancellationSticks
  BY DEF ProjectionInv
<1>1. ASSUME NEW w \in Workers, ApplyProjection(w)
      PROVE  /\ CancellationSticks'
             /\ canceledSeen' \subseteq {s \in Subs : store'[s] # NoSub}
  <2>1. PICK s \in Subs :
            /\ s = sub[w] /\ store'[s] # NoSub
            /\ \A t \in Subs \ {s} : store'[t] = store[t]
            /\ (snap[w].status = "canceled"
                \/ (store[s] # NoSub /\ store[s].status = "canceled"))
                 => store'[s].status = "canceled"
    BY <1>1, UpsertStep
  <2>2. canceledSeen' = IF snap[w].status = "canceled"
                        THEN canceledSeen \cup {s} ELSE canceledSeen
    BY <1>1, <2>1 DEF ApplyProjection
  <2>3. ASSUME NEW t \in canceledSeen'
        PROVE  t \in Subs /\ store'[t] # NoSub /\ store'[t].status = "canceled"
    <3>1. CASE t \in canceledSeen
      <4>1. t \in Subs /\ store[t] # NoSub /\ store[t].status = "canceled"
        BY <1>0, <3>1
      <4>2. CASE t = s
        BY <2>1, <4>1, <4>2
      <4>3. CASE t # s
        <5>1. store'[t] = store[t]
          BY <2>1, <4>1, <4>3
        <5>2. QED
          BY <4>1, <5>1
      <4>4. QED
        BY <4>2, <4>3
    <3>2. CASE t \notin canceledSeen
      <4>1. t = s /\ snap[w].status = "canceled"
        BY <2>2, <2>3, <3>2
      <4>2. store'[s] # NoSub /\ store'[s].status = "canceled"
        BY <2>1, <4>1
      <4>3. QED
        BY <4>1, <4>2
    <3>3. QED
      BY <3>1, <3>2
  <2>4. QED
    BY <2>3
<1>2. UNCHANGED <<store, canceledSeen>> =>
          /\ CancellationSticks'
          /\ canceledSeen' \subseteq {s \in Subs : store'[s] # NoSub}
  BY <1>0
<1>3. ASSUME NEW s \in Subs, Subscribe(s) \/ ChangeSubscription(s)
      PROVE  UNCHANGED <<store, canceledSeen>>
  BY <1>3, StripeMoves DEF StripeSets
<1>4. ASSUME NEW w \in Workers, NEW s \in Subs,
             FetchSubscription(w, s) \/ ListSubscription(w, s)
      PROVE  UNCHANGED <<store, canceledSeen>>
  BY <1>4 DEF FetchSubscription, ListSubscription, Start
<1>5. ASSUME NEW w \in Workers,
             \/ LookupCustomer(w) \/ LookupEmail(w) \/ LinkCustomer(w) \/ InsertCustomer(w)
             \/ Drop(w) \/ SyncSelect(w) \/ SyncWrite(w)
      PROVE  UNCHANGED <<store, canceledSeen>>
  BY <1>5 DEF LookupCustomer, LookupEmail, LinkCustomer, InsertCustomer, Drop, SyncSelect, SyncWrite
<1>6. ASSUME NEW c \in Rows, SignUp(c) \/ ProvisionLicense(c) \/ DeleteMyData(c)
      PROVE  UNCHANGED <<store, canceledSeen>>
  BY <1>6 DEF SignUp, ProvisionLicense, DeleteMyData, EndAccount
<1>7. UNCHANGED vars => UNCHANGED <<store, canceledSeen>>
  BY DEF vars
<1>8. QED
  BY <1>1, <1>2, <1>3, <1>4, <1>5, <1>6, <1>7 DEF Next

\* Workers that leave, and rows and events that stay, keep every event covered.
LEMMA FewerWorkers ==
    ASSUME PendingCovers, UNCHANGED <<stripe, store, due, ambiguous>>,
           \A t \in Subs : Serving(t)' \subseteq Serving(t) /\ Stale(t)' \subseteq Stale(t),
           due \in [Subs -> Nat]
    PROVE  PendingCovers'
<1>1. ASSUME NEW t \in Subs
      PROVE  /\ Cardinality(Serving(t)') <= due[t]
             /\ t \notin ambiguous /\ stripe[t] # NoSub =>
                    Shows(t) \/ Cardinality(Stale(t)') < due[t]
  <2>1. Serving(t) \in SUBSET Workers /\ Stale(t) \in SUBSET Workers
    BY DEF Serving, Stale
  <2>2. /\ Cardinality(Serving(t)') \in Nat /\ Cardinality(Serving(t)) \in Nat
        /\ Cardinality(Serving(t)') <= Cardinality(Serving(t))
    BY <2>1, Counting
  <2>3. /\ Cardinality(Stale(t)') \in Nat /\ Cardinality(Stale(t)) \in Nat
        /\ Cardinality(Stale(t)') <= Cardinality(Stale(t))
    BY <2>1, Counting
  <2>4. /\ Cardinality(Serving(t)) <= due[t] /\ due[t] \in Nat
        /\ t \notin ambiguous /\ stripe[t] # NoSub =>
               Shows(t) \/ Cardinality(Stale(t)) < due[t]
    BY DEF PendingCovers
  <2>5. QED
    BY <2>2, <2>3, <2>4
<1>2. QED
  BY <1>1 DEF PendingCovers, Shows

\* A change at Stripe adds an event for which no worker has an old snapshot.
LEMMA ChangeCovered ==
    ASSUME ProjectionInv, NEW s \in Subs, Subscribe(s) \/ ChangeSubscription(s)
    PROVE  PendingCovers'
<1>1. PICK new \in Snapshot :
          /\ StripeSets(s, new)
          /\ ambiguous \subseteq ambiguous'
  BY StripeMoves
<1>2. /\ stripe' = [stripe EXCEPT ![s] = new] /\ due' = [due EXCEPT ![s] = @ + 1]
      /\ UNCHANGED <<store, phase, sub, snap, signal>>
  BY <1>1 DEF StripeSets, tables, worker
<1>3. ProjectionTypes /\ PendingCovers
  BY DEF ProjectionInv
<1>4. \A t \in Subs : Serving(t)' = Serving(t)
  BY <1>2 DEF Serving
<1>5. ASSUME NEW t \in Subs, t # s
      PROVE  /\ Cardinality(Serving(t)') <= due'[t]
             /\ t \notin ambiguous' /\ stripe'[t] # NoSub =>
                    Shows(t)' \/ Cardinality(Stale(t)') < due'[t]
  <2>1. stripe'[t] = stripe[t] /\ due'[t] = due[t] /\ store'[t] = store[t]
    BY <1>2, <1>3, <1>5 DEF ProjectionTypes
  <2>2. Stale(t)' = Stale(t) /\ (Shows(t)' <=> Shows(t))
    BY <1>2, <1>4, <2>1 DEF Stale, Shows
  <2>3. QED
    BY <1>1, <1>3, <1>4, <2>1, <2>2 DEF PendingCovers
<1>6. /\ Cardinality(Serving(s)') <= due'[s]
      /\ Cardinality(Stale(s)') < due'[s]
  <2>1. Serving(s) \in SUBSET Workers /\ Stale(s)' \in SUBSET Serving(s)
    BY <1>4 DEF Serving, Stale
  <2>2. /\ Cardinality(Serving(s)) \in Nat /\ Cardinality(Stale(s)') \in Nat
        /\ Cardinality(Stale(s)') <= Cardinality(Serving(s))
    BY <2>1, Counting
  <2>3. Cardinality(Serving(s)) <= due[s] /\ due[s] \in Nat /\ due'[s] = due[s] + 1
    BY <1>2, <1>3 DEF ProjectionTypes, PendingCovers
  <2>4. QED
    BY <1>4, <2>2, <2>3
<1>7. QED
  BY <1>5, <1>6 DEF PendingCovers

\* A worker that starts takes an event nobody serves, with a current snapshot.
LEMMA StartCovered ==
    ASSUME ProjectionInv, NEW w \in Workers, NEW s \in Subs,
           FetchSubscription(w, s) \/ ListSubscription(w, s)
    PROVE  PendingCovers'
<1>1. ProjectionTypes /\ PendingCovers
  BY DEF ProjectionInv
<1>2. PICK b \in BOOLEAN : Start(w, s, b) /\ (b => Cardinality(Serving(s)) < due[s])
  BY DEF FetchSubscription, ListSubscription
<1>3. /\ phase[w] = "idle" /\ phase' = [phase EXCEPT ![w] = "fetched"]
      /\ sub' = [sub EXCEPT ![w] = s] /\ snap' = [snap EXCEPT ![w] = stripe[s]]
      /\ signal' = [signal EXCEPT ![w] = b]
      /\ UNCHANGED <<stripe, store, due, ambiguous>>
  BY <1>2 DEF Start, tables, history
<1>4. \A t \in Subs : Serving(t)' = IF t = s /\ b THEN Serving(t) \cup {w} ELSE Serving(t)
  BY <1>1, <1>3 DEF Serving, ProjectionTypes
<1>5. \A t \in Subs : Stale(t)' = Stale(t)
  BY <1>1, <1>3 DEF Serving, Stale, ProjectionTypes
<1>6. CASE ~b
  BY <1>1, <1>3, <1>4, <1>5, <1>6, FewerWorkers DEF ProjectionTypes
<1>7. CASE b
  <2>1. w \in Workers \ Serving(s) /\ Serving(s) \in SUBSET Workers
    BY <1>3 DEF Serving
  <2>2. /\ Cardinality(Serving(s)) \in Nat
        /\ Cardinality(Serving(s) \cup {w}) = Cardinality(Serving(s)) + 1
    BY <2>1, Counting
  <2>3. Cardinality(Serving(s)') <= due[s]
    <3>1. due[s] \in Nat /\ Cardinality(Serving(s)) < due[s]
      BY <1>1, <1>2, <1>7 DEF ProjectionTypes
    <3>2. Serving(s)' = Serving(s) \cup {w}
      BY <1>4, <1>7
    <3>3. QED
      BY <2>2, <3>1, <3>2
  <2>4. \A t \in Subs : Cardinality(Serving(t)') <= due'[t]
    BY <1>1, <1>3, <1>4, <2>3 DEF PendingCovers
  <2>5. \A t \in Subs : Shows(t)' <=> Shows(t)
    BY <1>3 DEF Shows
  <2>6. QED
    BY <1>1, <1>3, <1>5, <2>4, <2>5 DEF PendingCovers
<1>8. QED
  BY <1>6, <1>7

\* A projection that uses up an event either had Stripe's current state, which
\* the row then shows, or was itself one of the outdated ones.
LEMMA ApplyCovered ==
    ASSUME ProjectionInv, NEW w \in Workers, ApplyProjection(w)
    PROVE  PendingCovers'
<1>1. ProjectionTypes /\ PendingCovers
  BY DEF ProjectionInv
<1>2. PICK s \in Subs :
          /\ s = sub[w] /\ snap[w] \in Snapshot /\ phase[w] \in Projecting
          /\ \A t \in Subs \ {s} : store'[t] = store[t]
          /\ s \notin ambiguous /\ (SameState(snap[w], stripe[s]) \/ Shows(s))
               => store'[s] # NoSub /\ SameState(store'[s], stripe[s])
  BY UpsertStep
<1>3. /\ phase' = [phase EXCEPT ![w] = "idle"] /\ sub' = [sub EXCEPT ![w] = NoSub]
      /\ snap' = [snap EXCEPT ![w] = NoSub] /\ signal' = [signal EXCEPT ![w] = FALSE]
      /\ UNCHANGED <<stripe, ambiguous>>
  BY DEF ApplyProjection, EndWorker
<1>4. \/ signal[w] /\ due' = [due EXCEPT ![s] = @ - 1]
      \/ UNCHANGED due
  BY <1>2 DEF ApplyProjection
<1>5. \A t \in Subs : /\ Serving(t)' = Serving(t) \ {w}
                     /\ Stale(t)' = Stale(t) \ {w}
  BY <1>1, <1>3 DEF Serving, Stale, ProjectionTypes
<1>6. ASSUME NEW t \in Subs
      PROVE  /\ Serving(t) \in SUBSET Workers /\ Stale(t) \in SUBSET Workers
             /\ Cardinality(Serving(t)) \in Nat /\ Cardinality(Serving(t)') \in Nat
             /\ Cardinality(Serving(t)') <= Cardinality(Serving(t))
             /\ Cardinality(Stale(t)) \in Nat /\ Cardinality(Stale(t)') \in Nat
             /\ Cardinality(Stale(t)') <= Cardinality(Stale(t))
  <2>1. Serving(t) \in SUBSET Workers /\ Stale(t) \in SUBSET Workers
    BY DEF Serving, Stale
  <2>2. Serving(t)' \in SUBSET Serving(t) /\ Stale(t)' \in SUBSET Stale(t)
    BY <1>5
  <2>3. QED
    BY <2>1, <2>2, Counting
<1>7. ASSUME NEW t \in Subs, t # s
      PROVE  /\ Cardinality(Serving(t)') <= due'[t]
             /\ t \notin ambiguous /\ stripe[t] # NoSub =>
                    Shows(t)' \/ Cardinality(Stale(t)') < due'[t]
  <2>1. due'[t] = due[t] /\ due[t] \in Nat
    BY <1>1, <1>4, <1>7 DEF ProjectionTypes
  <2>2. Shows(t)' <=> Shows(t)
    BY <1>2, <1>3, <1>7 DEF Shows
  <2>3. /\ Cardinality(Serving(t)) <= due[t]
        /\ t \notin ambiguous /\ stripe[t] # NoSub =>
               Shows(t) \/ Cardinality(Stale(t)) < due[t]
    BY <1>1 DEF PendingCovers
  <2>4. QED
    BY <1>6, <2>1, <2>2, <2>3
<1>8. due[s] \in Nat
  BY <1>1 DEF ProjectionTypes
<1>9. /\ Cardinality(Serving(s)) <= due[s]
      /\ s \notin ambiguous /\ stripe[s] # NoSub =>
             Shows(s) \/ Cardinality(Stale(s)) < due[s]
  BY <1>1 DEF PendingCovers
<1>10. CASE UNCHANGED due
  <2>1. Cardinality(Serving(s)') <= due'[s]
    BY <1>6, <1>8, <1>9, <1>10
  <2>2. ASSUME s \notin ambiguous, stripe[s] # NoSub
        PROVE  Shows(s)' \/ Cardinality(Stale(s)') < due'[s]
    <3>1. CASE Shows(s)
      BY <1>2, <1>3, <2>2, <3>1 DEF Shows
    <3>2. CASE Cardinality(Stale(s)) < due[s]
      BY <1>6, <1>8, <1>10, <3>2
    <3>3. QED
      BY <1>9, <2>2, <3>1, <3>2
  <2>3. QED
    BY <1>3, <1>7, <2>1, <2>2 DEF PendingCovers
<1>11. CASE signal[w] /\ due' = [due EXCEPT ![s] = @ - 1]
  <2>1. due'[s] = due[s] - 1
    BY <1>1, <1>11 DEF ProjectionTypes
  <2>2. w \in Serving(s)
    BY <1>2, <1>11 DEF Serving, Projecting
  <2>3. Cardinality(Serving(s)') = Cardinality(Serving(s)) - 1
    BY <1>5, <1>6, <2>2, Counting
  <2>4. Cardinality(Serving(s)') <= due'[s]
    BY <1>6, <1>8, <1>9, <2>1, <2>3
  <2>5. ASSUME s \notin ambiguous, stripe[s] # NoSub
        PROVE  Shows(s)' \/ Cardinality(Stale(s)') < due'[s]
    <3>1. CASE Shows(s) \/ snap[w] = stripe[s]
      <4>1. SameState(snap[w], stripe[s]) \/ Shows(s)
        BY <3>1 DEF SameState
      <4>2. QED
        BY <1>2, <1>3, <2>5, <4>1 DEF Shows
    <3>2. CASE ~Shows(s) /\ snap[w] # stripe[s]
      <4>1. w \in Stale(s) /\ Cardinality(Stale(s)) < due[s]
        BY <1>9, <2>2, <2>5, <3>2 DEF Stale
      <4>2. Cardinality(Stale(s)') = Cardinality(Stale(s)) - 1
        BY <1>5, <1>6, <4>1, Counting
      <4>3. QED
        BY <1>6, <1>8, <2>1, <4>1, <4>2
    <3>3. QED
      BY <3>1, <3>2
  <2>6. QED
    BY <1>3, <1>7, <2>4, <2>5 DEF PendingCovers
<1>12. QED
  BY <1>4, <1>10, <1>11

\* Whatever step is taken, a row behind Stripe has an event that will fix it.
LEMMA PendingStep == ProjectionInv /\ [Next]_vars => PendingCovers'
<1> SUFFICES ASSUME ProjectionInv, [Next]_vars PROVE PendingCovers'
  OBVIOUS
<1>0. ProjectionTypes /\ PendingCovers
  BY DEF ProjectionInv
<1>1. ASSUME UNCHANGED <<stripe, store, due, ambiguous>>,
             \A v \in Workers :
                 \/ phase'[v] = "idle" \/ sub'[v] = NoSub
                 \/ /\ phase[v] # "idle" /\ snap'[v] = snap[v]
                    /\ sub'[v] = sub[v] /\ signal'[v] = signal[v]
      PROVE  PendingCovers'
  <2>1. \A t \in Subs : Serving(t)' \subseteq Serving(t) /\ Stale(t)' \subseteq Stale(t)
    BY <1>1, NullAssumption DEF Serving, Stale
  <2>2. QED
    BY <1>0, <1>1, <2>1, FewerWorkers DEF ProjectionTypes
<1> USE DEF tables, people, worker, history
<1>2. ASSUME NEW w \in Workers,
             \/ LookupCustomer(w) \/ LookupEmail(w) \/ LinkCustomer(w) \/ InsertCustomer(w)
             \/ Drop(w) \/ SyncSelect(w) \/ SyncWrite(w)
      PROVE  PendingCovers'
  <2>1. UNCHANGED <<stripe, store, due, ambiguous>>
    BY <1>2 DEF LookupCustomer, LookupEmail, LinkCustomer, InsertCustomer, Drop, SyncSelect, SyncWrite
  <2>2. ASSUME NEW v \in Workers
        PROVE  \/ phase'[v] = "idle" \/ sub'[v] = NoSub
               \/ /\ phase[v] # "idle" /\ snap'[v] = snap[v]
                  /\ sub'[v] = sub[v] /\ signal'[v] = signal[v]
    BY <1>0, <1>2 DEF LookupCustomer, LookupEmail, LinkCustomer, InsertCustomer, Drop,
       SyncSelect, SyncWrite, Aim, EndWorker, ProjectionTypes, Projecting
  <2>3. QED
    BY <1>1, <2>1, <2>2
<1>3. ASSUME NEW c \in Rows, SignUp(c) \/ ProvisionLicense(c) \/ DeleteMyData(c)
      PROVE  PendingCovers'
  BY <1>0, <1>3, FewerWorkers
     DEF SignUp, ProvisionLicense, DeleteMyData, EndAccount, Serving, Stale, ProjectionTypes
<1>4. CASE UNCHANGED vars
  BY <1>0, <1>4, FewerWorkers DEF vars, Serving, Stale, ProjectionTypes
<1>5. QED
  BY <1>2, <1>3, <1>4, ChangeCovered, StartCovered, ApplyCovered DEF Next

\* The inductive invariant holds in every behaviour.
THEOREM ProjectionInvariant == Spec => []ProjectionInv
<1>1. Init => ProjectionInv
  <2> SUFFICES ASSUME Init PROVE ProjectionInv
    OBVIOUS
  <2>1. ProjectionTypes
    BY NullAssumption DEF Init, ProjectionTypes, Projecting
  <2>2. HistoryOrdered /\ CancellationSticks
        /\ canceledSeen \subseteq {s \in Subs : store[s] # NoSub}
    BY DEF Init, HistoryOrdered, CancellationSticks, Projecting
  <2>3. PendingCovers
    <3>1. \A s \in Subs : Serving(s) = {}
      BY DEF Init, Serving
    <3>2. QED
      BY <3>1, FS_EmptySet DEF Init, PendingCovers
  <2>4. QED
    BY <2>1, <2>2, <2>3 DEF ProjectionInv
<1>2. ProjectionInv /\ [Next]_vars => ProjectionInv'
  BY TypesStep, OrderStep, CanceledStep, PendingStep DEF ProjectionInv
<1>3. QED
  BY <1>1, <1>2, PTL DEF Spec

\* A stale snapshot never resurrects a cancelled subscription.
COROLLARY CancellationHolds == Spec => []CancellationSticks
<1>1. ProjectionInv => CancellationSticks
  BY DEF ProjectionInv
<1>2. QED
  BY <1>1, ProjectionInvariant, PTL

\* Deliveries in any order, repeated, dropped or stale, converge on Stripe's
\* state whenever the subscription's history only moves forward.
COROLLARY ForwardConverges == Spec => []ForwardHistoriesConverge
<1>1. ProjectionInv => ForwardHistoriesConverge
  <2> SUFFICES ASSUME ProjectionInv, NEW s \in Subs \ ambiguous,
                      Quiet(s), stripe[s] # NoSub
               PROVE  Shows(s)
    BY DEF ForwardHistoriesConverge
  <2>1. Shows(s) \/ Cardinality(Stale(s)) < due[s]
    BY DEF ProjectionInv, PendingCovers
  <2>2. Stale(s) \in SUBSET Workers
    BY DEF Stale, Serving
  <2>3. Cardinality(Stale(s)) \in Nat /\ due[s] = 0
    BY <2>2, Counting DEF Quiet
  <2>4. QED
    BY <2>1, <2>3
<1>2. QED
  BY <1>1, ProjectionInvariant, PTL

-----------------------------------------------------------------------------
(***************************************************************************)
(* The account.  The row the Stripe id points at is the only one, of those *)
(* not deleted, that a projection writes and that stored subscriptions     *)
(* belong to: the Stripe id leaves a row only when its customer deletes    *)
(* their data.                                                             *)
(***************************************************************************)
AccountTypes ==
    /\ rows \subseteq Rows /\ deleted \subseteq rows
    /\ {payer, linked} \subseteq rows \cup {NoRow}
    /\ target  \in [Workers -> rows \cup {NoRow}]
    /\ tier    \in [Rows -> {"free", "pro", "team"}]
    /\ license \in [Rows -> License \cup {NoLicense}]

ResolvedIsLinked ==
    \A w \in Workers : phase[w] = "resolved" => target[w] = linked \/ target[w] \in deleted

OwnerIsLinked ==
    \A s \in Subs : store[s] # NoSub =>
        /\ store[s].customer \in rows
        /\ store[s].customer = linked \/ store[s].customer \in deleted

\* No worker is on its way to a customer deleted without a contest.
NobodyReturns == \A c \in deleted \ contested : payer # c /\ \A w \in Workers : target[w] # c

AccountInv ==
    /\ AccountTypes /\ ResolvedIsLinked /\ OwnerIsLinked /\ NobodyReturns
    /\ EntitlementIsAggregate /\ UncontestedDeletionIsFinal

\* A finite set of naturals has a largest element: the one whose set of larger
\* elements has no strict subset among the others'.
LEMMA LargestOf ==
    ASSUME NEW S \in SUBSET Nat, IsFiniteSet(S), S # {}
    PROVE  Max(S) \in S /\ \A x \in S : x <= Max(S)
<1> DEFINE Above(x) == {y \in S : y > x}
           Tails == {Above(x) : x \in S}
<1>1. Tails \subseteq FiniteSubsetsOf(S) /\ Tails # {}
  <2>1. \A x \in S : Above(x) \in SUBSET S /\ Above(x) \in Tails
    OBVIOUS
  <2>2. \A T \in SUBSET S : IsFiniteSet(T)
    BY FS_Subset
  <2>3. \A T \in Tails : T \in SUBSET S
    BY <2>1
  <2> HIDE DEF Tails, Above
  <2> QED BY <2>1, <2>2, <2>3 DEF FiniteSubsetsOf
<1>2. PICK T \in Tails : \A U \in Tails : <<U, T>> \notin StrictSubsetOrdering(S)
  BY <1>1, FS_StrictSubsetOrderingWellFounded, WFMin
<1>3. PICK m \in S : T = Above(m)
  OBVIOUS
<1>4. ASSUME NEW x \in S, x > m PROVE FALSE
  <2>1. \A y \in S : y > x => y > m
    BY <1>4
  <2>2. Above(x) \in SUBSET S /\ Above(m) \in SUBSET S /\ Above(x) \subseteq Above(m)
    BY <2>1
  <2>3. x \in Above(m) /\ x \notin Above(x)
    BY <1>4
  <2>4. Above(x) \in Tails /\ <<Above(x), Above(m)>> \in StrictSubsetOrdering(S)
    BY <2>2, <2>3 DEF StrictSubsetOrdering
  <2> QED BY <1>2, <1>3, <2>4
<1>5. \A x \in S : x <= m
  BY <1>4
<1> QED BY <1>5 DEF Max

\* What the account of a customer shows if it is the aggregate of their rows.
Granted(c) ==
    LET t == EffectiveTier(store, c) IN
    /\ tier[c] = t
    /\ t # "free" => license[c] # NoLicense /\ license[c].seats = Seats[t]
    /\ license[c] # NoLicense =>
        /\ license[c].tier = t
        /\ \/ /\ license[c].status = IF t = "free" THEN "cancelled" ELSE "active"
              /\ license[c].expires = Expiry(store, c)
           \/ license[c] = FreeLicense

\* The property says so of every customer with a stored subscription.
LEMMA AggregateGranted ==
    EntitlementIsAggregate <=>
        \A c \in rows \ deleted : contested = {} /\ Owned(store, c) # {} => Granted(c)
BY DEF EntitlementIsAggregate, Granted

\* The tier is one of three.
LEMMA TierFacts ==
    ASSUME NEW st, NEW c
    PROVE  EffectiveTier(st, c) \in {"free", "pro", "team"}
BY DEF EffectiveTier

\* An expiry is the end of one of the periods, or none.
LEMMA ExpiryBound ==
    ASSUME NEW st \in [Subs -> StoredRow \cup {NoSub}], NEW c
    PROVE  Expiry(st, c) \in 0 .. MaxPeriod
<1>1. ASSUME NEW S \in SUBSET Owned(st, c), S # {}
      PROVE  Max({st[s].end : s \in S}) \in 0 .. MaxPeriod
  <2> DEFINE ends == {st[s].end : s \in S}
  <2>1. \A s \in S : st[s].end \in 1 .. MaxPeriod
    BY DEF Owned, StoredRow
  <2>2. ends \subseteq 1 .. MaxPeriod /\ ends # {}
    BY <1>1, <2>1
  <2>3. IsFiniteSet(1 .. MaxPeriod) /\ 1 .. MaxPeriod \subseteq Nat
    BY BoundsAssumption, FS_Interval
  <2>4. IsFiniteSet(ends) /\ ends \in SUBSET Nat
    BY <2>2, <2>3, FS_Subset
  <2>5. Max(ends) \in ends
    BY <2>2, <2>4, LargestOf
  <2> QED BY <2>2, <2>5, BoundsAssumption
<1>2. EntitlingRows(st, c) \in SUBSET Owned(st, c) /\ Owned(st, c) \in SUBSET Owned(st, c)
  BY DEF EntitlingRows
<1>3. 0 \in 0 .. MaxPeriod
  BY BoundsAssumption
<1> QED BY <1>1, <1>2, <1>3 DEF Expiry

\* The licence a batch leaves is the aggregate.
LEMMA LicenseFacts ==
    ASSUME NEW st \in [Subs -> StoredRow \cup {NoSub}], NEW c \in Rows,
           license[c] \in License \cup {NoLicense}
    PROVE  LET t == EffectiveTier(st, c)  new == ProjectedLicense(st, c) IN
           /\ new \in License \cup {NoLicense}
           /\ t # "free" => new # NoLicense /\ new.seats = Seats[t]
           /\ new # NoLicense =>
                /\ new.tier = t /\ new.expires = Expiry(st, c)
                /\ new.status = IF t = "free" THEN "cancelled" ELSE "active"
<1> DEFINE t == EffectiveTier(st, c)
           new == ProjectedLicense(st, c)
<1>1. t \in {"free", "pro", "team"} /\ Expiry(st, c) \in 0 .. MaxPeriod
  BY TierFacts, ExpiryBound
<1>2. CASE t # "free"
  <2>1. new = [tier |-> t, status |-> "active", seats |-> Seats[t], expires |-> Expiry(st, c)]
    BY <1>2 DEF ProjectedLicense
  <2>2. Seats[t] \in {FreeSeats, 3, 10}
    BY <1>1, <1>2 DEF Seats
  <2>3. new \in License
    BY <1>1, <2>1, <2>2 DEF License
  <2> QED BY <1>2, <2>1, <2>3, NoLicenseAssumption
<1>3. CASE t = "free" /\ license[c] # NoLicense
  <2>1. new = [license[c] EXCEPT !.tier = t, !.status = "cancelled", !.expires = Expiry(st, c)]
    BY <1>3 DEF ProjectedLicense
  <2>2. license[c] \in License
    BY <1>3
  <2> QED BY <1>1, <1>3, <2>1, <2>2 DEF License
<1>4. CASE t = "free" /\ license[c] = NoLicense
  <2>1. new = NoLicense
    BY <1>4 DEF ProjectedLicense
  <2> QED BY <1>4, <2>1
<1> QED BY <1>1, <1>2, <1>3, <1>4

\* Customers come and workers move on: the tables stay as they are, the Stripe
\* id is only set where there was none, and nobody gets hold of a row deleted
\* without a contest.
LEMMA PeopleMove ==
    ASSUME ProjectionTypes, AccountInv, UNCHANGED <<store, tier, license, deleted, contested>>,
           rows \subseteq rows', rows' \subseteq Rows,
           linked' = linked \/ linked = NoRow,
           {linked', payer'} \subseteq (rows' \cup {NoRow}) \ (deleted \ contested),
           target' \in [Workers -> (rows' \cup {NoRow}) \ (deleted \ contested)],
           \A w \in Workers : phase'[w] = "resolved" =>
               \/ target'[w] = linked'
               \/ phase[w] = "resolved" /\ target'[w] = target[w]
    PROVE  AccountInv'
<1>1. AccountTypes'
  BY DEF AccountInv, AccountTypes
<1>2. ResolvedIsLinked'
  BY NullAssumption DEF AccountInv, ResolvedIsLinked, ProjectionTypes
<1>3. OwnerIsLinked'
  BY NullAssumption DEF AccountInv, AccountTypes, OwnerIsLinked
<1>4. NobodyReturns' /\ UncontestedDeletionIsFinal'
  BY DEF AccountInv, NobodyReturns, UncontestedDeletionIsFinal
<1>5. EntitlementIsAggregate'
  <2>1. ASSUME NEW c \in rows' \ deleted', contested' = {}, Owned(store, c) # {}
        PROVE  Granted(c)
    <3>1. c \in rows
      BY <2>1 DEF AccountInv, OwnerIsLinked, Owned
    <3> QED BY <2>1, <3>1, AggregateGranted DEF AccountInv
  <2> QED BY <2>1 DEF EntitlementIsAggregate, Granted
<1> QED BY <1>1, <1>2, <1>3, <1>4, <1>5 DEF AccountInv

\* The rows that are not deleted without a contest, and no row.
Open == (rows \cup {NoRow}) \ (deleted \ contested)

\* Nobody's row is one that was deleted without a contest; nor is a new one.
LEMMA OpenRows ==
    ASSUME AccountInv
    PROVE  /\ linked \in Open /\ payer \in Open /\ NoRow \in Open
           /\ target \in [Workers -> Open]
           /\ \A c \in Rows \ rows : c \notin deleted
<1>1. NoRow \notin deleted
  BY NullAssumption DEF AccountInv, AccountTypes
<1> QED BY <1>1 DEF AccountInv, AccountTypes, NobodyReturns, UncontestedDeletionIsFinal, Open

\* Steps at Stripe and the worker's own: only workers move.
LEMMA WorkersKeep ==
    ASSUME ProjectionTypes, AccountInv,
           UNCHANGED <<store, tier, license, rows, payer, linked, deleted, contested>>,
           \/ UNCHANGED target
           \/ \E w \in Workers, c \in {NoRow, linked, payer} : target' = [target EXCEPT ![w] = c],
           \A w \in Workers : phase'[w] = "resolved" =>
               \/ target'[w] = linked
               \/ phase[w] = "resolved" /\ target'[w] = target[w]
    PROVE  AccountInv'
<1>1. /\ linked \in Open /\ payer \in Open /\ NoRow \in Open
      /\ target \in [Workers -> Open]
  BY OpenRows
<1>2. target' \in [Workers -> Open]
  BY <1>1
<1>3. rows \subseteq Rows
  BY DEF AccountInv, AccountTypes
<1> QED BY <1>1, <1>2, <1>3, PeopleMove DEF Open

\* A customer is linked or inserted, or signs up.
LEMMA PeopleKeep ==
    ASSUME ProjectionTypes, AccountInv,
           \/ \E w \in Workers : LinkCustomer(w) \/ InsertCustomer(w) \/ SyncWrite(w)
           \/ \E c \in Rows : SignUp(c)
    PROVE  AccountInv'
<1> USE DEF tables, people, worker, history
<1>1. /\ linked \in Open /\ payer \in Open /\ NoRow \in Open
      /\ target \in [Workers -> Open] /\ \A c \in Rows \ rows : c \notin deleted
      /\ rows \subseteq Rows
  BY OpenRows DEF AccountInv, AccountTypes
<1>2. ASSUME NEW w \in Workers, LinkCustomer(w) PROVE AccountInv'
  <2>1. /\ UNCHANGED <<store, tier, license, rows, payer, deleted, contested>>
        /\ linked \in {NoRow, target[w]} /\ linked' = target[w]
        /\ target' = [target EXCEPT ![w] = target[w]]
        /\ phase' = [phase EXCEPT ![w] = "resolved"]
    BY <1>2 DEF LinkCustomer, Aim
  <2>2. target' = target /\ linked' \in Open
    BY <1>1, <2>1
  <2>3. \A v \in Workers : phase'[v] = "resolved" =>
            target'[v] = linked' \/ (phase[v] = "resolved" /\ target'[v] = target[v])
    BY <2>1, <2>2 DEF ProjectionTypes
  <2> QED BY <1>1, <2>1, <2>2, <2>3, PeopleMove DEF Open
<1>3. ASSUME NEW w \in Workers, InsertCustomer(w) PROVE AccountInv'
  <2>1. PICK c \in Rows : InsertRow(c) /\ Aim(w, "resolved", c)
    BY <1>3 DEF InsertCustomer
  <2>2. /\ UNCHANGED <<store, tier, license, deleted, contested>>
        /\ linked = NoRow /\ c \notin rows /\ rows' = rows \cup {c} /\ payer' = c /\ linked' = c
        /\ target' = [target EXCEPT ![w] = c] /\ phase' = [phase EXCEPT ![w] = "resolved"]
    BY <1>3, <2>1 DEF InsertCustomer, InsertRow, Aim
  <2>3. /\ {linked', payer'} \subseteq (rows' \cup {NoRow}) \ (deleted \ contested)
        /\ target' \in [Workers -> (rows' \cup {NoRow}) \ (deleted \ contested)]
    BY <1>1, <2>2 DEF Open
  <2>4. \A v \in Workers : phase'[v] = "resolved" =>
            target'[v] = linked' \/ (phase[v] = "resolved" /\ target'[v] = target[v])
    BY <1>1, <2>2 DEF ProjectionTypes
  <2> QED BY <1>1, <2>2, <2>3, <2>4, PeopleMove
<1>4. ASSUME NEW w \in Workers, SyncWrite(w) PROVE AccountInv'
  <2>1. /\ UNCHANGED <<store, tier, license, deleted, contested>>
        /\ target' = [target EXCEPT ![w] = NoRow] /\ phase' = [phase EXCEPT ![w] = "idle"]
    BY <1>4 DEF SyncWrite, EndWorker
  <2>2. /\ rows \subseteq rows' /\ rows' \subseteq Rows
        /\ linked' = linked \/ linked = NoRow
        /\ {linked', payer'} \subseteq (rows' \cup {NoRow}) \ (deleted \ contested)
    <3>1. CASE \E c \in Rows : InsertRow(c)
      BY <1>1, <3>1 DEF InsertRow
    <3>2. CASE /\ target[w] # NoRow /\ {linked, payer} \subseteq {NoRow, target[w]}
               /\ linked' = target[w] /\ payer' = target[w] /\ UNCHANGED rows
      BY <1>1, <3>2 DEF Open
    <3> QED BY <1>4, <3>1, <3>2 DEF SyncWrite
  <2>3. target' \in [Workers -> (rows' \cup {NoRow}) \ (deleted \ contested)]
    <3>1. Open \subseteq (rows' \cup {NoRow}) \ (deleted \ contested)
      BY <2>2 DEF Open
    <3>2. target' \in [Workers -> Open]
      BY <1>1, <2>1
    <3> QED BY <3>1, <3>2
  <2>4. \A v \in Workers : phase'[v] = "resolved" =>
            target'[v] = linked' \/ (phase[v] = "resolved" /\ target'[v] = target[v])
    BY <1>1, <2>1 DEF ProjectionTypes
  <2> QED BY <2>1, <2>2, <2>3, <2>4, PeopleMove
<1>5. ASSUME NEW c \in Rows, SignUp(c) PROVE AccountInv'
  <2>1. /\ UNCHANGED <<store, tier, license, linked, deleted, contested, phase, target>>
        /\ c \notin rows /\ rows' = rows \cup {c} /\ payer' = c
    BY <1>5 DEF SignUp
  <2>2. /\ {linked', payer'} \subseteq (rows' \cup {NoRow}) \ (deleted \ contested)
        /\ target' \in [Workers -> (rows' \cup {NoRow}) \ (deleted \ contested)]
    BY <1>1, <2>1 DEF Open
  <2> QED BY <1>1, <2>1, <2>2, PeopleMove
<1> QED BY <1>2, <1>3, <1>4, <1>5

\* A batch writes the account of the customer its worker resolved: the linked
\* one, or one whose deletion was contested.
LEMMA ApplyKeeps ==
    ASSUME ProjectionTypes, AccountInv, NEW w \in Workers, ApplyProjection(w)
    PROVE  AccountInv'
<1> USE DEF tables, people, worker, history
<1> DEFINE s == sub[w]
           c == target[w]
           st == Upsert(s, snap[w], c)
<1>1. /\ phase[w] = "resolved" /\ s \in Subs /\ snap[w] \in Snapshot
      /\ c \in Rows /\ c \in rows /\ c \in Open /\ (c = linked \/ c \in deleted)
  BY OpenRows, NullAssumption DEF ApplyProjection, ProjectionTypes, Projecting, AccountInv,
     AccountTypes, ResolvedIsLinked
<1>2. /\ store' = st /\ tier' = [tier EXCEPT ![c] = EffectiveTier(st, c)]
      /\ license' = [license EXCEPT ![c] = ProjectedLicense(st, c)]
      /\ UNCHANGED <<rows, payer, linked, deleted, contested>>
      /\ phase' = [phase EXCEPT ![w] = "idle"] /\ target' = [target EXCEPT ![w] = NoRow]
  BY DEF ApplyProjection, EndWorker
<1>3. /\ st \in [Subs -> StoredRow \cup {NoSub}]
      /\ \A t \in Subs : \/ st[t] = store[t]
                         \/ st[t] # NoSub /\ st[t].customer = c
  <2>1. [status |-> snap[w].status, price |-> snap[w].price,
         end |-> snap[w].end, customer |-> c] \in StoredRow
    BY <1>1 DEF Snapshot, StoredRow
  <2>2. store \in [Subs -> StoredRow \cup {NoSub}]
    BY DEF ProjectionTypes
  <2> QED BY <1>1, <2>1, <2>2, NoSubAssumption DEF Upsert, Written
<1> HIDE DEF st, c
<1>4. LET t == EffectiveTier(st, c)  new == ProjectedLicense(st, c) IN
      /\ t \in {"free", "pro", "team"}
      /\ new \in License \cup {NoLicense}
      /\ t # "free" => new # NoLicense /\ new.seats = Seats[t]
      /\ new # NoLicense =>
           /\ new.tier = t /\ new.expires = Expiry(st, c)
           /\ new.status = IF t = "free" THEN "cancelled" ELSE "active"
  BY <1>1, <1>3, TierFacts, LicenseFacts DEF AccountInv, AccountTypes
<1>5. /\ tier' \in [Rows -> {"free", "pro", "team"}] /\ license' \in [Rows -> License \cup {NoLicense}]
      /\ tier'[c] = EffectiveTier(st, c) /\ license'[c] = ProjectedLicense(st, c)
      /\ \A d \in Rows \ {c} : tier'[d] = tier[d] /\ license'[d] = license[d]
  BY <1>1, <1>2, <1>4 DEF AccountInv, AccountTypes
<1>6. /\ phase'[w] = "idle" /\ target' \in [Workers -> Open] /\ target'[w] = NoRow
      /\ \A v \in Workers \ {w} : phase'[v] = phase[v] /\ target'[v] = target[v]
  BY <1>2, OpenRows DEF ProjectionTypes
<1>7. AccountTypes'
  BY <1>2, <1>5, <1>6 DEF AccountInv, AccountTypes, Open
<1>8. ResolvedIsLinked' /\ NobodyReturns'
  BY <1>2, <1>6, OpenRows, NullAssumption DEF AccountInv, ResolvedIsLinked, NobodyReturns, Open, AccountTypes
<1>9. OwnerIsLinked'
  BY <1>1, <1>2, <1>3 DEF AccountInv, OwnerIsLinked
<1>10. UncontestedDeletionIsFinal'
  <2>1. \A d \in deleted \ contested : d # c /\ d \in Rows
    BY <1>1 DEF Open, AccountInv, AccountTypes
  <2> QED BY <1>2, <1>5, <2>1 DEF AccountInv, UncontestedDeletionIsFinal
<1>11. EntitlementIsAggregate'
  <2>1. ASSUME NEW d \in rows \ deleted, contested = {}, Owned(st, d) # {} PROVE d = c
    <3>1. c \notin deleted /\ c = linked
      BY <1>1, <2>1 DEF Open
    <3>2. PICK t \in Subs : st[t] # NoSub /\ st[t].customer = d
      BY <2>1 DEF Owned
    <3> QED BY <1>3, <2>1, <3>1, <3>2 DEF AccountInv, OwnerIsLinked
  <2>2. ASSUME NEW d \in rows \ deleted, contested = {}, Owned(st, d) # {}
        PROVE  LET t == EffectiveTier(st, d) IN
               /\ tier'[d] = t
               /\ t # "free" => license'[d] # NoLicense /\ license'[d].seats = Seats[t]
               /\ license'[d] # NoLicense =>
                   /\ license'[d].tier = t
                   /\ license'[d].status = IF t = "free" THEN "cancelled" ELSE "active"
                   /\ license'[d].expires = Expiry(st, d)
    <3>1. d = c
      BY <2>1, <2>2
    <3> QED BY <1>4, <1>5, <3>1
  <2> QED BY <1>2, <2>2 DEF EntitlementIsAggregate
<1> QED BY <1>7, <1>8, <1>9, <1>10, <1>11 DEF AccountInv

\* A login provisions a licence only where there is none.
LEMMA ProvisionKeeps ==
    ASSUME ProjectionTypes, AccountInv, NEW c \in Rows, ProvisionLicense(c)
    PROVE  AccountInv'
<1> USE DEF people, worker
<1>1. /\ c \in rows /\ license[c] = NoLicense /\ license' = [license EXCEPT ![c] = FreeLicense]
      /\ contested' = contested \cup ({c} \cap deleted)
      /\ UNCHANGED <<store, tier, rows, payer, linked, deleted, phase, target>>
  BY DEF ProvisionLicense
<1>2. FreeLicense \in License
  BY BoundsAssumption DEF FreeLicense, License
<1>3. /\ license' \in [Rows -> License \cup {NoLicense}] /\ license'[c] = FreeLicense
      /\ \A d \in Rows \ {c} : license'[d] = license[d]
  BY <1>1, <1>2 DEF AccountInv, AccountTypes
<1>4. AccountTypes'
  BY <1>1, <1>3 DEF AccountInv, AccountTypes
<1>5. ResolvedIsLinked' /\ OwnerIsLinked' /\ NobodyReturns'
  BY <1>1 DEF AccountInv, ResolvedIsLinked, OwnerIsLinked, NobodyReturns
<1>6. UncontestedDeletionIsFinal'
  BY <1>1, <1>3 DEF AccountInv, AccountTypes, UncontestedDeletionIsFinal
<1>7. EntitlementIsAggregate'
  <2>1. ASSUME NEW d \in rows \ deleted, contested = {}, Owned(store, d) # {} PROVE Granted(d)'
    <3>1. Granted(d)
      BY <2>1, AggregateGranted DEF AccountInv
    <3>2. CASE d # c
      BY <1>1, <1>3, <2>1, <3>1, <3>2 DEF Granted, AccountInv, AccountTypes
    <3>3. CASE d = c
      <4>1. EffectiveTier(store, c) = "free" /\ tier[c] = "free"
        BY <1>1, <3>1, <3>3 DEF Granted
      <4> QED BY <1>1, <1>3, <3>3, <4>1 DEF Granted, FreeLicense
    <3> QED BY <3>2, <3>3
  <2> QED BY <1>1, <2>1 DEF EntitlementIsAggregate, Granted
<1> QED BY <1>4, <1>5, <1>6, <1>7 DEF AccountInv

\* A deletion takes the Stripe id off the row; a worker aiming at it contests it.
LEMMA DeletionKeeps ==
    ASSUME ProjectionTypes, AccountInv, NEW c \in Rows, DeleteMyData(c)
    PROVE  AccountInv'
<1> USE DEF worker
<1>1. /\ c \in rows \ deleted /\ deleted' = deleted \cup {c}
      /\ license' = [license EXCEPT ![c] =
                        IF @ = NoLicense THEN @ ELSE [@ EXCEPT !.status = "deleted_by_user"]]
      /\ payer' = IF payer = c THEN NoRow ELSE payer
      /\ linked' = IF linked = c THEN NoRow ELSE linked
      /\ contested' = IF \E w \in Workers : target[w] = c THEN contested \cup {c} ELSE contested
      /\ UNCHANGED <<store, tier, rows, phase, target>>
  BY DEF DeleteMyData, EndAccount
<1>2. /\ license' \in [Rows -> License \cup {NoLicense}]
      /\ license'[c] # NoLicense => license'[c].status = "deleted_by_user"
      /\ \A d \in Rows \ {c} : license'[d] = license[d]
  <2>1. ASSUME license[c] # NoLicense
        PROVE  /\ [license[c] EXCEPT !.status = "deleted_by_user"] \in License
               /\ [license[c] EXCEPT !.status = "deleted_by_user"].status = "deleted_by_user"
    <3>1. license[c] \in License
      BY <2>1 DEF AccountInv, AccountTypes
    <3> QED BY <3>1 DEF License
  <2> QED BY <1>1, <2>1 DEF AccountInv, AccountTypes
<1>3. contested \subseteq contested' /\ c # NoRow
  BY <1>1, NullAssumption
<1>4. AccountTypes'
  BY <1>1, <1>2 DEF AccountInv, AccountTypes
<1>5. ResolvedIsLinked' /\ OwnerIsLinked'
  BY <1>1, <1>3 DEF AccountInv, ResolvedIsLinked, OwnerIsLinked
<1>6. NobodyReturns' /\ UncontestedDeletionIsFinal'
  <2>1. SUFFICES ASSUME NEW d \in deleted' \ contested'
                 PROVE  /\ payer' # d /\ linked' # d /\ \A w \in Workers : target[w] # d
                        /\ license'[d] # NoLicense => license'[d].status = "deleted_by_user"
    BY <1>1 DEF NobodyReturns, UncontestedDeletionIsFinal
  <2>2. d \in Rows /\ d # NoRow
    BY <1>1, <2>1, NullAssumption DEF AccountInv, AccountTypes
  <2>3. CASE d = c
    BY <1>1, <1>2, <2>1, <2>2, <2>3
  <2>4. CASE d # c
    <3>1. d \in deleted \ contested
      BY <1>1, <1>3, <2>1, <2>4
    <3> QED BY <1>1, <1>2, <2>2, <2>4, <3>1 DEF AccountInv, NobodyReturns, UncontestedDeletionIsFinal
  <2> QED BY <2>3, <2>4
<1>7. EntitlementIsAggregate'
  <2>1. ASSUME NEW d \in rows \ deleted', contested' = {}, Owned(store, d) # {} PROVE Granted(d)'
    <3>1. Granted(d) /\ d # c /\ d \in Rows
      BY <1>1, <1>3, <2>1, AggregateGranted DEF AccountInv, AccountTypes
    <3> QED BY <1>1, <1>2, <3>1 DEF Granted
  <2> QED BY <1>1, <2>1 DEF EntitlementIsAggregate, Granted
<1> QED BY <1>4, <1>5, <1>6, <1>7 DEF AccountInv

\* Every step keeps the account in order.
LEMMA AccountStep == ProjectionInv /\ AccountInv /\ [Next]_vars => AccountInv'
<1> SUFFICES ASSUME ProjectionTypes, AccountInv, [Next]_vars PROVE AccountInv'
  BY DEF ProjectionInv
<1> USE DEF tables, people, worker, history
<1>1. ASSUME NEW s \in Subs, Subscribe(s) \/ ChangeSubscription(s) PROVE AccountInv'
  <2>1. PICK new \in Snapshot : StripeSets(s, new)
    BY <1>1, StripeMoves
  <2>2. UNCHANGED <<store, tier, license, rows, payer, linked, deleted, contested, phase, target>>
    BY <2>1 DEF StripeSets
  <2> QED BY <2>2, WorkersKeep
<1>2. ASSUME NEW w \in Workers, NEW s \in Subs, FetchSubscription(w, s) \/ ListSubscription(w, s)
      PROVE  AccountInv'
  <2>1. /\ UNCHANGED <<store, tier, license, rows, payer, linked, deleted, contested, target>>
        /\ phase' = [phase EXCEPT ![w] = "fetched"]
    BY <1>2 DEF FetchSubscription, ListSubscription, Start
  <2>2. \A v \in Workers : phase'[v] = "resolved" => phase[v] = "resolved"
    BY <2>1 DEF ProjectionTypes
  <2> QED BY <2>1, <2>2, WorkersKeep
<1>3. ASSUME NEW w \in Workers, LookupCustomer(w) \/ LookupEmail(w) \/ Drop(w) \/ SyncSelect(w)
      PROVE  AccountInv'
  <2>1. /\ UNCHANGED <<store, tier, license, rows, payer, linked, deleted, contested>>
        /\ \/ Aim(w, "resolved", linked)
           \/ \E next \in {"unlinked", "found", "missing", "syncing"}, c \in {NoRow, linked, payer} :
                 Aim(w, next, c)
           \/ EndWorker(w)
    BY <1>3 DEF LookupCustomer, LookupEmail, Drop, SyncSelect
  <2>2. \E next \in {"resolved", "unlinked", "found", "missing", "syncing", "idle"},
           c \in {NoRow, linked, payer} :
           /\ phase' = [phase EXCEPT ![w] = next] /\ target' = [target EXCEPT ![w] = c]
           /\ next = "resolved" => c = linked
    BY <2>1 DEF Aim, EndWorker
  <2>3. \A v \in Workers : phase'[v] = "resolved" =>
           target'[v] = linked \/ (phase[v] = "resolved" /\ target'[v] = target[v])
    BY <2>2 DEF ProjectionTypes
  <2> QED BY <2>1, <2>2, <2>3, WorkersKeep
<1>4. CASE UNCHANGED vars
  <2>1. UNCHANGED <<store, tier, license, rows, payer, linked, deleted, contested, phase, target>>
    BY <1>4 DEF vars
  <2> QED BY <2>1, WorkersKeep
<1> QED BY <1>1, <1>2, <1>3, <1>4, PeopleKeep, ApplyKeeps, ProvisionKeeps, DeletionKeeps DEF Next

\* Accounts are in order in every behaviour.
THEOREM AccountInvariant == Spec => []AccountInv
<1>1. Init => AccountInv
  <2> SUFFICES ASSUME Init PROVE AccountInv
    OBVIOUS
  <2>1. AccountTypes
    <3>1. FreeLicense \in License /\ rows \subseteq Rows
      BY BoundsAssumption DEF Init, FreeLicense, License
    <3>2. license \in [Rows -> License \cup {NoLicense}]
      BY <3>1 DEF Init
    <3> QED BY <3>1, <3>2 DEF Init, AccountTypes
  <2>2. ResolvedIsLinked /\ OwnerIsLinked /\ NobodyReturns /\ UncontestedDeletionIsFinal
    BY DEF Init, ResolvedIsLinked, OwnerIsLinked, NobodyReturns, UncontestedDeletionIsFinal
  <2>3. EntitlementIsAggregate
    <3>1. \A c : Owned(store, c) = {}
      BY DEF Init, Owned
    <3> QED BY <3>1 DEF EntitlementIsAggregate
  <2> QED BY <2>1, <2>2, <2>3 DEF AccountInv
<1> QED BY <1>1, AccountStep, ProjectionInvariant, PTL DEF Spec

\* The types of Stripe's objects, of the tables and of the workers.
COROLLARY ProjectionTypeOK == Spec => []TypeOK
<1>1. ProjectionInv /\ AccountInv => TypeOK
  BY DEF ProjectionInv, ProjectionTypes, Projecting, AccountInv, AccountTypes, TypeOK
<1> QED BY <1>1, ProjectionInvariant, AccountInvariant, PTL

\* What a customer is granted is the aggregate of the rows, in whatever order
\* the snapshots were projected.
COROLLARY EntitlementHolds == Spec => []EntitlementIsAggregate
<1>1. AccountInv => EntitlementIsAggregate
  BY DEF AccountInv
<1> QED BY <1>1, AccountInvariant, PTL

\* A deletion no projection was running over is final.
COROLLARY DeletionFinal == Spec => []UncontestedDeletionIsFinal
<1>1. AccountInv => UncontestedDeletionIsFinal
  BY DEF AccountInv
<1> QED BY <1>1, AccountInvariant, PTL
=============================================================================
