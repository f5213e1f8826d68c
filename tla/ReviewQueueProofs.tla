------------------------- MODULE ReviewQueueProofs -------------------------
(* The status of every queue item follows from its audit trail, for any items,      *)
(* payloads and number of concurrent refreshers.                                    *)
EXTENDS ReviewQueue, TLAPS

\* A decided item still holds the payload it was decided on unless it was rewritten.
BasisAgrees ==
  \A i \in Items :
    /\ audit[i] = None <=> basis[i] = None
    /\ audit[i] # None /\ ~rewritten[i] => queue[i].payload = basis[i]

IInv == TypeOK /\ StatusFollowsAudit /\ BasisAgrees

\* The queue starts empty and undecided.
LEMMA InitHolds == Init => IInv
<1> SUFFICES ASSUME Init PROVE IInv
  OBVIOUS
<1>1. TypeOK
  BY DEF Init, TypeOK, Stages, NothingRead
<1>2. StatusFollowsAudit /\ BasisAgrees
  BY DEF Init, StatusFollowsAudit, BasisAgrees
<1> QED
  BY <1>1, <1>2 DEF IInv

\* What a refresher reads is a payload or nothing.
LEMMA DetectedType ==
  ASSUME TypeOK, NEW i \in Items
  PROVE  Detected(i) \in Payload \cup {Absent}
BY DEF TypeOK, Detected, Payload

\* One item under a synchronisation: it stays an item, reopened if and only if it was
\* settled and its payload differs.
LEMMA SyncedItem ==
  ASSUME NEW item \in Item, NEW payload \in Payload \cup {Absent}
  PROVE  /\ Synced(item, payload) \in Item
         /\ payload = Absent => /\ Synced(item, payload).status = item.status
                                /\ Synced(item, payload).payload = item.payload
         /\ payload # Absent => /\ Synced(item, payload).status = Reopened(item, payload)
                                /\ Synced(item, payload).payload = payload
<1>1. item # NoItem
  BY QueueAssumption
<1>2. CASE payload = Absent
  BY <1>1, <1>2 DEF Synced, Item
<1>3. CASE payload # Absent
  <2>1. Reopened(item, payload) \in Statuses
    BY DEF Reopened, Item, Statuses
  <2> QED
    BY <1>1, <1>3, <2>1 DEF Synced, Item
<1> QED
  BY <1>2, <1>3

\* A new item is pending.
LEMMA SyncedNew ==
  ASSUME NEW payload \in Payload \cup {Absent}
  PROVE  /\ Synced(NoItem, payload) \in Item \cup {NoItem}
         /\ Synced(NoItem, payload) # NoItem => Synced(NoItem, payload).status = "pending"
BY DEF Synced, Item, Statuses

\* A synchronisation, of however old a reading, keeps queue and audit trail in step.
LEMMA SyncHolds ==
  ASSUME IInv, NEW p \in Refreshers, Sync(p)
  PROVE  IInv'
<1>1. /\ queue \in [Items -> Item \cup {NoItem}] /\ audit \in [Items -> Statuses \cup {None}]
      /\ basis \in [Items -> Payload \cup {None}] /\ rewritten \in [Items -> BOOLEAN]
      /\ read[p] \in [Items -> Payload \cup {Absent}]
      /\ \A i \in Items : queue[i] = NoItem => audit[i] = None
  BY DEF IInv, TypeOK
<1>2. /\ queue' = [i \in Items |-> Synced(queue[i], read[p][i])]
      /\ rewritten' = [i \in Items |-> rewritten[i] \/ (basis[i] # None /\ read[p][i] \notin {Absent, basis[i]})]
      /\ stage' = [stage EXCEPT ![p] = 0]
      /\ read' = [read EXCEPT ![p] = NothingRead]
      /\ UNCHANGED <<facts, order, audit, basis>>
  BY DEF Sync
<1>3. ASSUME NEW i \in Items
      PROVE  /\ queue'[i] \in Item \cup {NoItem}
             /\ queue'[i] = NoItem => audit[i] = None
             /\ queue'[i] # NoItem => queue'[i].status = StatusByAudit(i)'
             /\ audit[i] # None /\ ~rewritten'[i] => queue'[i].payload = basis[i]
  <2> DEFINE payload == read[p][i]
  <2>1. payload \in Payload \cup {Absent} /\ queue'[i] = Synced(queue[i], payload)
        /\ rewritten'[i] = (rewritten[i] \/ (basis[i] # None /\ payload \notin {Absent, basis[i]}))
        /\ audit'[i] = audit[i]
    BY <1>1, <1>2
  <2> HIDE DEF payload
  <2>2. CASE queue[i] = NoItem
    <3>1. audit[i] = None
      BY <1>1, <2>2
    <3>2. /\ queue'[i] \in Item \cup {NoItem}
          /\ queue'[i] # NoItem => queue'[i].status = "pending"
      BY <2>1, <2>2, SyncedNew
    <3>3. StatusByAudit(i)' = "pending"
      BY <2>1, <3>1 DEF StatusByAudit
    <3>4. queue'[i] # NoItem => queue'[i].status = StatusByAudit(i)'
      BY <3>2, <3>3, Zenon
    <3> QED
      BY <3>1, <3>2, <3>4
  <2>3. CASE queue[i] # NoItem
    <3>1. queue[i] \in Item /\ NoItem \notin Item
      BY <1>1, <2>3, QueueAssumption
    <3>2. /\ queue[i].status = StatusByAudit(i)
          /\ audit[i] = None <=> basis[i] = None
          /\ audit[i] # None /\ ~rewritten[i] => queue[i].payload = basis[i]
      BY <2>3 DEF IInv, StatusFollowsAudit, BasisAgrees
    <3>3. CASE payload = Absent
      <4>1. /\ queue'[i] \in Item /\ queue'[i].status = queue[i].status
            /\ queue'[i].payload = queue[i].payload
        BY <2>1, <3>1, <3>3, SyncedItem
      <4>2. rewritten'[i] = rewritten[i]
        BY <1>1, <2>1, <3>3
      <4>3. StatusByAudit(i)' = StatusByAudit(i)
        BY <2>1, <4>2 DEF StatusByAudit
      <4>4. queue'[i].status = StatusByAudit(i)'
        BY <3>2, <4>1, <4>3, Zenon
      <4>5. audit[i] # None /\ ~rewritten'[i] => queue'[i].payload = basis[i]
        BY <3>2, <4>1, <4>2
      <4> QED
        BY <3>1, <4>1, <4>4, <4>5
    <3>4. CASE payload # Absent
      <4>1. /\ queue'[i] \in Item /\ queue'[i].payload = payload
            /\ queue'[i].status = IF queue[i].status \in Settled /\ queue[i].payload # payload
                                  THEN "pending" ELSE queue[i].status
        BY <2>1, <3>1, <3>4, SyncedItem DEF Reopened
      <4>2. rewritten'[i] = (rewritten[i] \/ (audit[i] # None /\ payload # basis[i]))
        BY <2>1, <3>2, <3>4
      <4>3. audit[i] # None /\ ~rewritten'[i] => queue'[i].payload = basis[i]
        BY <4>1, <4>2
      <4>4. queue'[i].status = StatusByAudit(i)'
        <5>1. CASE audit[i] = None
          BY <2>1, <3>2, <4>1, <5>1 DEF StatusByAudit
        <5>2. CASE audit[i] # None /\ rewritten[i]
          BY <2>1, <3>2, <4>1, <4>2, <5>2 DEF StatusByAudit, Settled
        <5>3. CASE audit[i] # None /\ ~rewritten[i]
          BY <2>1, <3>2, <4>1, <4>2, <5>3 DEF StatusByAudit
        <5> QED
          BY <5>1, <5>2, <5>3
      <4> QED
        BY <3>1, <4>1, <4>3, <4>4
    <3> QED
      BY <3>3, <3>4
  <2> QED
    BY <2>2, <2>3
<1>4. TypeOK'
  <2>1. read' \in [Refreshers -> [Items -> Payload \cup {Absent}]]
    BY <1>2 DEF IInv, TypeOK, NothingRead
  <2>2. stage' \in [Refreshers -> Stages] /\ rewritten' \in [Items -> BOOLEAN]
    BY <1>1, <1>2 DEF IInv, TypeOK, Stages
  <2>3. queue' \in [Items -> Item \cup {NoItem}]
    BY <1>2, <1>3
  <2> QED
    BY <1>2, <1>3, <2>1, <2>2, <2>3 DEF IInv, TypeOK
<1>5. StatusFollowsAudit' /\ BasisAgrees'
  BY <1>2, <1>3 DEF StatusFollowsAudit, BasisAgrees, IInv
<1> QED
  BY <1>4, <1>5 DEF IInv

\* A decision brings status, audit row and basis together.
LEMMA DecisionHolds ==
  ASSUME IInv, NEW i \in Items, NEW decision \in Decisions, RecordDecision(i, decision)
  PROVE  IInv'
<1>1. /\ queue \in [Items -> Item \cup {NoItem}] /\ audit \in [Items -> Statuses \cup {None}]
      /\ basis \in [Items -> Payload \cup {None}] /\ rewritten \in [Items -> BOOLEAN]
      /\ decision \in Statuses /\ None \notin Statuses \cup Payload
  BY QueueAssumption DEF IInv, TypeOK
<1>2. /\ queue[i] \in Item
      /\ queue' = [queue EXCEPT ![i].status = decision]
      /\ audit' = [audit EXCEPT ![i] = decision]
      /\ basis' = [basis EXCEPT ![i] = queue[i].payload]
      /\ rewritten' = [rewritten EXCEPT ![i] = FALSE]
      /\ UNCHANGED <<facts, order, stage, read>>
  BY <1>1 DEF RecordDecision, refresh
<1>3. queue'[i] \in Item /\ queue'[i].status = decision /\ queue'[i].payload = queue[i].payload
      /\ queue[i].payload \in Payload /\ NoItem \notin Item
  BY <1>1, <1>2, QueueAssumption DEF Item
<1>4. \A j \in Items \ {i} : /\ queue'[j] = queue[j] /\ audit'[j] = audit[j]
                             /\ basis'[j] = basis[j] /\ rewritten'[j] = rewritten[j]
  BY <1>1, <1>2
<1>5. audit'[i] = decision /\ basis'[i] = queue[i].payload /\ rewritten'[i] = FALSE
  BY <1>1, <1>2
<1>6. TypeOK'
  <2>1. queue' \in [Items -> Item \cup {NoItem}]
    BY <1>1, <1>2, <1>3
  <2>2. audit' \in [Items -> Statuses \cup {None}] /\ basis' \in [Items -> Payload \cup {None}]
        /\ rewritten' \in [Items -> BOOLEAN]
    BY <1>1, <1>2, <1>3
  <2>3. \A j \in Items : queue'[j] = NoItem => audit'[j] = None
    BY <1>3, <1>4 DEF IInv, TypeOK
  <2> QED
    BY <1>2, <2>1, <2>2, <2>3 DEF IInv, TypeOK
<1>7. StatusFollowsAudit'
  <2>1. SUFFICES ASSUME NEW j \in Items, queue'[j] # NoItem
                 PROVE  queue'[j].status = StatusByAudit(j)'
    BY DEF StatusFollowsAudit
  <2>2. CASE j = i
    BY <1>1, <1>3, <1>5, <2>2 DEF StatusByAudit
  <2>3. CASE j # i
    BY <1>4, <2>1, <2>3 DEF StatusByAudit, IInv, StatusFollowsAudit
  <2> QED
    BY <2>2, <2>3
<1>8. BasisAgrees'
  BY <1>1, <1>3, <1>4, <1>5 DEF BasisAgrees, IInv
<1> QED
  BY <1>6, <1>7, <1>8 DEF IInv

\* Every step keeps the invariant.
LEMMA StepHolds == IInv /\ [Next]_vars => IInv'
<1> SUFFICES ASSUME IInv, [Next]_vars PROVE IInv'
  OBVIOUS
<1>1. ASSUME TypeOK', UNCHANGED <<queue, audit, basis, rewritten>> PROVE IInv'
  BY <1>1 DEF IInv, StatusFollowsAudit, StatusByAudit, BasisAgrees
<1>2. ASSUME NEW i \in Items, NEW f \in Facts \cup {Absent}, FactsChange(i, f) PROVE IInv'
  <2>1. TypeOK'
    BY <1>2 DEF FactsChange, refresh, IInv, TypeOK
  <2> QED
    BY <1>1, <1>2, <2>1 DEF FactsChange
<1>3. ASSUME NEW i \in Items, Reingest(i) PROVE IInv'
  <2>1. TypeOK'
    BY <1>3 DEF Reingest, refresh, IInv, TypeOK
  <2> QED
    BY <1>1, <1>3, <2>1 DEF Reingest
<1>4. ASSUME NEW p \in Refreshers, BeginRefresh(p) PROVE IInv'
  <2>1. TypeOK'
    BY <1>4 DEF BeginRefresh, IInv, TypeOK, Stages
  <2> QED
    BY <1>1, <1>4, <2>1 DEF BeginRefresh
<1>5. ASSUME NEW p \in Refreshers, ReadKind(p) PROVE IInv'
  <2>1. stage' \in [Refreshers -> Stages]
    BY <1>5 DEF ReadKind, IInv, TypeOK, Stages, Kinds
  <2> DEFINE now == [i \in Items |-> IF KindOf[i] = stage[p] THEN Detected(i) ELSE read[p][i]]
  <2>2. now \in [Items -> Payload \cup {Absent}]
    BY DetectedType DEF IInv, TypeOK
  <2>3. read' = [read EXCEPT ![p] = now]
    BY <1>5 DEF ReadKind
  <2> HIDE DEF now
  <2>4. read' \in [Refreshers -> [Items -> Payload \cup {Absent}]]
    BY <2>2, <2>3 DEF IInv, TypeOK
  <2>5. TypeOK'
    BY <1>5, <2>1, <2>4 DEF ReadKind, IInv, TypeOK
  <2> QED
    BY <1>1, <1>5, <2>5 DEF ReadKind
<1>6. ASSUME NEW p \in Refreshers, Sync(p) PROVE IInv'
  BY <1>6, SyncHolds
<1>7. ASSUME NEW p \in Refreshers, Abandon(p) PROVE IInv'
  <2>1. TypeOK'
    BY <1>7 DEF Abandon, IInv, TypeOK, Stages, NothingRead
  <2> QED
    BY <1>1, <1>7, <2>1 DEF Abandon
<1>8. ASSUME NEW i \in Items, NEW decision \in Decisions, RecordDecision(i, decision) PROVE IInv'
  BY <1>8, DecisionHolds
<1>9. CASE UNCHANGED vars
  <2>1. TypeOK'
    BY <1>9 DEF vars, refresh, IInv, TypeOK
  <2> QED
    BY <1>1, <1>9, <2>1 DEF vars
<1> QED
  BY <1>2, <1>3, <1>4, <1>5, <1>6, <1>7, <1>8, <1>9 DEF Next

\* The base of the results below.
THEOREM InvariantHolds == Spec => []IInv
BY InitHolds, StepHolds, PTL DEF Spec

\* The tables stay well formed and every audited decision has its item.
THEOREM TablesAreWellFormed == Spec => []TypeOK
<1>1. IInv => TypeOK
  BY DEF IInv
<1> QED
  BY <1>1, InvariantHolds, PTL

\* No decision is lost, and none outlives the payload it was taken on
\* (sync_review_queue_items, record_review_queue_decision).
THEOREM DecisionsAreFollowed == Spec => []StatusFollowsAudit
<1>1. IInv => StatusFollowsAudit
  BY DEF IInv
<1> QED
  BY <1>1, InvariantHolds, PTL
=============================================================================
