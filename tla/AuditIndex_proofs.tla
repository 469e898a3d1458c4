-------------------------- MODULE AuditIndex_proofs --------------------------
(***************************************************************************)
(* Proofs about AuditIndex, for any number of events, messages, failures   *)
(* and restarts: no acknowledged event is missing (Inv), and a prune keeps *)
(* exactly the newest rows (Numbered, inductive together with Inv).        *)
(***************************************************************************)
EXTENDS AuditIndex, FiniteSetTheorems, TLAPS

\* An event that has its row, or had one.
Recorded == Indexed \cup pruned

\* What was delivered had been published.
DeliveredIsPublished ==
    \A m \in Messages : delivery[m] # "waiting" \/ m \in batch
                          => content[m] # Unpublished

\* After parsing, a batch holds nothing but events; after the commit, events
\* that are recorded.
BatchOK ==
    /\ at = "ingest" => \A m \in batch : content[m] \in Events
    /\ at = "ack" => \A m \in batch : content[m] \in Recorded

Inv == TypeOK /\ DeliveredIsPublished /\ BatchOK /\ AcknowledgedIsIndexed

-----------------------------------------------------------------------------

\* The initial state satisfies the invariant.
LEMMA InitInv == Init => Inv
<1> SUFFICES ASSUME Init PROVE Inv
  OBVIOUS
<1>0. ok \in BOOLEAN
  BY Zenon DEF Init
<1>1. TypeOK
  BY <1>0, BoundsAssumption DEF BoundsAssumption, Init, TypeOK
<1>2. DeliveredIsPublished /\ BatchOK /\ AcknowledgedIsIndexed
  BY DEF Init, DeliveredIsPublished, BatchOK, AcknowledgedIsIndexed
<1> QED
  BY <1>1, <1>2 DEF Inv

\* A failed call leaves the stream and the table to the rest of its step: the
\* batch is dropped, so nothing is claimed about it.
LEMMA FailLemma ==
    ASSUME Fail
    PROVE  /\ link' \in {"none", "live", "dead"} /\ at' = "poll" /\ batch' = {}
           /\ ok' \in BOOLEAN
<1>1. ok' \in BOOLEAN
  BY Zenon DEF Fail
<1> QED
  BY <1>1 DEF Fail

\* The same of a call that fails although it could have worked, and of the bounds.
LEMMA CallFailsLemma ==
    ASSUME Inv, CallFails
    PROVE  /\ link' \in {"none", "live", "dead"} /\ at' = "poll" /\ batch' = {}
           /\ ok' \in BOOLEAN
           /\ failures' \in 0..MaxFailures /\ restarts' \in 0..MaxRestarts
<1>1. failures' \in 0..MaxFailures /\ restarts' \in 0..MaxRestarts
  BY BoundsAssumption DEF BoundsAssumption, CallFails, Inv, TypeOK
<1> QED
  BY <1>1, FailLemma DEF CallFails

\* What a delivery does to the consumer's records.
LEMMA DeliverLemma ==
    ASSUME Inv, NEW ms \in SUBSET Messages,
           NEW state \in {"waiting", "out", "settled"}, Deliver(ms, state)
    PROVE  /\ delivery' \in [Messages -> {"waiting", "out", "settled"}]
           /\ \A m \in ms : delivery'[m] = state
           /\ \A m \in Messages \ ms : delivery'[m] = delivery[m]
  BY DEF Inv, TypeOK, Deliver

\* A batch that is settled only as far as it is recorded keeps the promise.
LEMMA SettleLemma ==
    ASSUME Inv, NEW ms \in SUBSET batch, Deliver(ms, "settled"),
           \A m \in ms : content[m] \in Events => content[m] \in Recorded,
           UNCHANGED <<content, table>>, batch' \subseteq batch
    PROVE  /\ delivery' \in [Messages -> {"waiting", "out", "settled"}]
           /\ DeliveredIsPublished'
           /\ AcknowledgedIsIndexed'
<1>1. ms \in SUBSET Messages
  BY DEF Inv, TypeOK
<1>2. /\ delivery' \in [Messages -> {"waiting", "out", "settled"}]
      /\ \A m \in ms : delivery'[m] = "settled"
      /\ \A m \in Messages \ ms : delivery'[m] = delivery[m]
  BY <1>1, DeliverLemma
<1>3. DeliveredIsPublished'
  BY <1>2 DEF Inv, DeliveredIsPublished
<1>4. AcknowledgedIsIndexed'
  BY <1>2 DEF Inv, AcknowledgedIsIndexed, Recorded, Indexed, table
<1> QED
  BY <1>2, <1>3, <1>4

\* Inserting numbers only what had no number, from one above the top.
LEMMA InsertLemma ==
    ASSUME Inv, NEW new \in SUBSET Events, Insert(new)
    PROVE  /\ seq' \in [Events -> Nat]
           /\ highest' \in Nat
           /\ \A e \in new : seq'[e] # 0
           /\ \A e \in Events \ new : seq'[e] = seq[e]
<1>1. Cardinality(new) \in Nat
  BY EventsAssumption, FS_Subset, FS_CardinalityType DEF EventsAssumption
<1>2. PICK top \in {0} \cup {seq[e] : e \in Events} :
        /\ \E number \in Bijection(new, (top + 1)..(top + Cardinality(new))) :
              seq' = [e \in Events |-> IF e \in new THEN number[e] ELSE seq[e]]
        /\ highest' = IF top + Cardinality(new) > highest
                      THEN top + Cardinality(new) ELSE highest
  BY DEF Insert
<1>3. top \in Nat
  BY <1>2 DEF Inv, TypeOK
<1>4. PICK number \in [new -> (top + 1)..(top + Cardinality(new))] :
        seq' = [e \in Events |-> IF e \in new THEN number[e] ELSE seq[e]]
  BY <1>2 DEF Bijection, Injection
<1>5. \A e \in new : number[e] \in Nat /\ number[e] # 0
  BY <1>1, <1>3, <1>4
<1>6. highest' \in Nat
  BY <1>1, <1>2, <1>3 DEF Inv, TypeOK
<1>7. seq' \in [Events -> Nat]
  BY <1>4, <1>5 DEF Inv, TypeOK
<1> QED
  BY <1>4, <1>5, <1>6, <1>7

\* A prune moves events from the table to the history.
LEMMA PruneLemma ==
    ASSUME Inv, Prune
    PROVE  /\ seq' \in [Events -> Nat]
           /\ pruned' \subseteq Events
           /\ highest' \in Nat
           /\ Recorded' = Recorded
<1> DEFINE kept == Indexed \ aged
           gone == (Indexed \cap aged) \cup BelowFloor(kept)
<1>1. /\ seq' = [e \in Events |-> IF e \in gone THEN 0 ELSE seq[e]]
      /\ pruned' = pruned \cup gone
      /\ highest' = highest
  BY DEF Prune
<1>2. gone \subseteq Indexed
  BY DEF BelowFloor
<1> HIDE DEF gone
<1>3. Recorded' = Recorded
  BY <1>1, <1>2 DEF Inv, TypeOK, Recorded, Indexed
<1> QED
  BY <1>1, <1>2, <1>3 DEF Inv, TypeOK, Indexed

\* Every step keeps the invariant.
LEMMA NextInv == Inv /\ [Next]_vars => Inv'
<1> SUFFICES ASSUME Inv, [Next]_vars PROVE Inv'
  OBVIOUS
<1> USE DEF stream, loop, table, bounds
<1>1. CASE Connect
  <2>1. CASE CallFails
    <3>1. TypeOK'
      BY <1>1, <2>1, CallFailsLemma DEF Connect, Inv, TypeOK
    <3> QED
      BY <1>1, <2>1, <3>1, CallFailsLemma
         DEF Connect, Inv, DeliveredIsPublished, BatchOK, AcknowledgedIsIndexed, Recorded, Indexed
  <2>2. CASE link' = "live" /\ UNCHANGED <<at, batch, ok, bounds>>
    BY <1>1, <2>2 DEF Connect, Inv, TypeOK, DeliveredIsPublished, BatchOK,
                      AcknowledgedIsIndexed, Recorded, Indexed
  <2> QED
    BY <1>1, <2>1, <2>2 DEF Connect
<1>2. CASE Fetch
  <2>1. CASE CallFails /\ UNCHANGED delivery
    <3>1. TypeOK'
      BY <1>2, <2>1, CallFailsLemma DEF Fetch, Inv, TypeOK
    <3> QED
      BY <1>2, <2>1, <3>1, CallFailsLemma
         DEF Fetch, Inv, DeliveredIsPublished, BatchOK, AcknowledgedIsIndexed, Recorded, Indexed
  <2>2. CASE Deliverable = {} /\ at' = "polled" /\ UNCHANGED <<delivery, link, batch, ok, bounds>>
    BY <1>2, <2>2 DEF Fetch, Inv, TypeOK, DeliveredIsPublished, BatchOK,
                      AcknowledgedIsIndexed, Recorded, Indexed
  <2>3. ASSUME NEW b \in SUBSET Deliverable, batch' = b, Deliver(b, "out"),
               at' = "parse", UNCHANGED <<link, ok, bounds>>
        PROVE  Inv'
    <3>1. b \in SUBSET Messages /\ \A m \in b : content[m] # Unpublished
      BY DEF Deliverable
    <3>2. /\ delivery' \in [Messages -> {"waiting", "out", "settled"}]
          /\ \A m \in b : delivery'[m] = "out"
          /\ \A m \in Messages \ b : delivery'[m] = delivery[m]
      BY <2>3, <3>1, DeliverLemma
    <3>3. UNCHANGED <<content, table, aged>>
      BY <1>2 DEF Fetch
    <3>4. TypeOK'
      BY <2>3, <3>1, <3>2, <3>3 DEF Inv, TypeOK
    <3>5. DeliveredIsPublished'
      BY <2>3, <3>1, <3>2, <3>3 DEF Inv, DeliveredIsPublished
    <3>6. AcknowledgedIsIndexed'
      BY <3>2, <3>3 DEF Inv, AcknowledgedIsIndexed, Indexed
    <3> QED
      BY <2>3, <3>4, <3>5, <3>6 DEF Inv, BatchOK
  <2> QED
    BY <1>2, <2>1, <2>2, <2>3 DEF Fetch
<1>3. CASE FetchFromDead
  <2>1. TypeOK'
    BY <1>3, FailLemma DEF FetchFromDead, Inv, TypeOK
  <2> QED
    BY <1>3, <2>1, FailLemma
       DEF FetchFromDead, Inv, DeliveredIsPublished, BatchOK, AcknowledgedIsIndexed, Recorded, Indexed
<1>4. CASE Parse
  <2> DEFINE bad == {m \in batch : content[m] = Malformed}
  <2>1. UNCHANGED <<content, table, aged>>
    BY <1>4 DEF Parse
  <2>2. bad \subseteq batch /\ \A m \in bad : content[m] \notin Events
    BY ContentAssumption DEF ContentAssumption
  <2>3. CASE /\ Deliver(bad, "settled") /\ batch' = batch \ bad
             /\ at' = (IF batch = bad THEN "polled" ELSE "ingest")
             /\ UNCHANGED <<link, ok, bounds>>
    <3>1. /\ delivery' \in [Messages -> {"waiting", "out", "settled"}]
          /\ DeliveredIsPublished' /\ AcknowledgedIsIndexed'
      BY <2>1, <2>2, <2>3, SettleLemma
    <3>2. TypeOK'
      BY <2>1, <2>3, <3>1 DEF Inv, TypeOK
    <3>3. \A m \in batch' : content'[m] \in Events
      BY <2>1, <2>3 DEF Inv, TypeOK, DeliveredIsPublished
    <3>4. BatchOK'
      BY <2>3, <3>3 DEF BatchOK
    <3> QED
      BY <3>1, <3>2, <3>4 DEF Inv
  <2>4. ASSUME NEW done \in SUBSET bad, Deliver(done, "settled"), CallFails
        PROVE  Inv'
    <3>1. batch' \subseteq batch
      BY <2>4, CallFailsLemma
    <3>2. /\ delivery' \in [Messages -> {"waiting", "out", "settled"}]
          /\ DeliveredIsPublished' /\ AcknowledgedIsIndexed'
      BY <2>1, <2>2, <2>4, <3>1, SettleLemma
    <3>3. TypeOK'
      BY <2>1, <2>4, <3>2, CallFailsLemma DEF Inv, TypeOK
    <3> QED
      BY <2>4, <3>2, <3>3, CallFailsLemma DEF Inv, BatchOK
  <2> QED
    BY <1>4, <2>3, <2>4 DEF Parse
<1>5. CASE Ingest
  <2>1. UNCHANGED <<content, delivery, aged>>
    BY <1>5 DEF Ingest
  <2>2. CASE CallFails /\ UNCHANGED table
    <3>1. TypeOK'
      BY <2>1, <2>2, CallFailsLemma DEF Inv, TypeOK
    <3> QED
      BY <2>1, <2>2, <3>1, CallFailsLemma
         DEF Inv, DeliveredIsPublished, BatchOK, AcknowledgedIsIndexed, Recorded, Indexed
  <2>3. CASE /\ Insert(BatchEvents \ Indexed) /\ at' = "ack"
             /\ UNCHANGED <<pruned, link, batch, ok, bounds>>
    <3>1. BatchEvents \subseteq Events
      BY <1>5 DEF Ingest, Inv, BatchOK, BatchEvents
    <3>2. BatchEvents \ Indexed \in SUBSET Events
      BY <3>1
    <3>3. /\ seq' \in [Events -> Nat] /\ highest' \in Nat
          /\ \A e \in BatchEvents \ Indexed : seq'[e] # 0
          /\ \A e \in Events \ (BatchEvents \ Indexed) : seq'[e] = seq[e]
      BY <2>3, <3>2, InsertLemma
    <3>4. Indexed \subseteq Indexed' /\ BatchEvents \subseteq Indexed'
      BY <3>1, <3>3 DEF Indexed
    <3>5. TypeOK'
      BY <2>1, <2>3, <3>3 DEF Inv, TypeOK
    <3>6. BatchOK'
      BY <2>1, <2>3, <3>4 DEF BatchOK, Recorded, BatchEvents
    <3>7. AcknowledgedIsIndexed'
      BY <2>1, <2>3, <3>4 DEF Inv, AcknowledgedIsIndexed
    <3> QED
      BY <2>1, <2>3, <3>5, <3>6, <3>7 DEF Inv, DeliveredIsPublished
  <2> QED
    BY <1>5, <2>2, <2>3 DEF Ingest
<1>6. CASE Ack
  <2>1. UNCHANGED <<content, table, aged>>
    BY <1>6 DEF Ack
  <2>2. ASSUME NEW done \in SUBSET batch, Deliver(done, "settled"), batch' = {},
               link' \in {"none", "live", "dead"}, at' \in {"poll", "polled"},
               ok' \in BOOLEAN,
               failures' \in 0..MaxFailures, restarts' \in 0..MaxRestarts
        PROVE  Inv'
    <3>1. \A m \in done : content[m] \in Recorded
      BY <1>6 DEF Ack, Inv, BatchOK
    <3>2. /\ delivery' \in [Messages -> {"waiting", "out", "settled"}]
          /\ DeliveredIsPublished' /\ AcknowledgedIsIndexed'
      BY <2>1, <2>2, <3>1, SettleLemma
    <3>3. TypeOK'
      BY <2>1, <2>2, <3>2 DEF Inv, TypeOK
    <3> QED
      BY <2>2, <3>2, <3>3 DEF Inv, BatchOK
  <2>3. CASE /\ Deliver(batch, "settled") /\ at' = "polled" /\ batch' = {}
             /\ UNCHANGED <<link, ok, bounds>>
    BY <2>2, <2>3 DEF Inv, TypeOK
  <2>4. ASSUME NEW done \in SUBSET batch, Deliver(done, "settled"), CallFails
        PROVE  Inv'
    BY <2>2, <2>4, CallFailsLemma
  <2>5. ASSUME NEW done \in SUBSET batch, Deliver(done, "settled"),
               failures < MaxFailures, failures' = failures + 1,
               at' = "polled", batch' = {}, UNCHANGED <<link, ok, restarts>>
        PROVE  Inv'
    <3>1. failures' \in 0..MaxFailures
      BY <2>5, BoundsAssumption DEF BoundsAssumption, Inv, TypeOK
    <3> QED
      BY <2>2, <2>5, <3>1 DEF Inv, TypeOK
  <2> QED
    BY <1>6, <2>3, <2>4, <2>5 DEF Ack
<1>7. CASE Polled
  <2>1. UNCHANGED <<content, delivery, aged>>
    BY <1>7 DEF Polled
  <2>2. Prune \/ UNCHANGED table
    BY <1>7 DEF Polled
  <2>3. /\ seq' \in [Events -> Nat] /\ pruned' \subseteq Events
        /\ highest' \in Nat /\ Recorded' = Recorded
    BY <2>2, PruneLemma DEF Inv, TypeOK, Recorded, Indexed
  <2>4. AcknowledgedIsIndexed'
    BY <2>1, <2>3 DEF Inv, AcknowledgedIsIndexed, Recorded
  <2>5. /\ link' \in {"none", "live", "dead"} /\ at' = "poll" /\ batch' = {}
        /\ failures' \in 0..MaxFailures /\ restarts' \in 0..MaxRestarts
    BY <1>7, CallFailsLemma DEF Polled, Inv, TypeOK
  <2>6. ok' \in BOOLEAN
    <3>1. CASE CallFails
      BY <3>1, CallFailsLemma
    <3>2. CASE ok' = TRUE
      BY <3>2, Zenon
    <3> QED
      BY <1>7, <3>1, <3>2, ZenonT(30) DEF Polled
  <2>7. TypeOK'
    BY <2>1, <2>3, <2>5, <2>6 DEF Inv, TypeOK
  <2>8. DeliveredIsPublished'
    BY <2>1, <2>5 DEF Inv, DeliveredIsPublished
  <2>9. BatchOK'
    BY <2>5 DEF BatchOK
  <2> QED
    BY <2>4, <2>7, <2>8, <2>9 DEF Inv
<1>0. CASE OpenStore
  <2>1. failures' \in 0..MaxFailures /\ restarts' \in 0..MaxRestarts
    BY <1>0, BoundsAssumption DEF BoundsAssumption, OpenStore, Inv, TypeOK
  <2>2. TypeOK'
    BY <1>0, <2>1 DEF OpenStore, Inv, TypeOK
  <2> QED
    BY <1>0, <2>2 DEF OpenStore, Inv, DeliveredIsPublished, BatchOK,
                      AcknowledgedIsIndexed, Recorded, Indexed
<1>8. ASSUME NEW m \in Messages, Publish(m) PROVE Inv'
  <2>1. PICK c \in Events \cup {Malformed} : content' = [content EXCEPT ![m] = c]
    BY <1>8, ZenonT(30) DEF Publish
  <2>2. /\ content[m] = Unpublished
        /\ UNCHANGED <<delivery, loop, table, aged, bounds>>
    BY <1>8 DEF Publish
  <2>3. delivery[m] = "waiting" /\ m \notin batch
    BY <2>2 DEF Inv, DeliveredIsPublished
  <2>4. content' \in [Messages -> Events \cup {Malformed, Unpublished}]
    BY <2>1 DEF Inv, TypeOK
  <2>5. \A n \in Messages \ {m} : content'[n] = content[n]
    BY <2>1 DEF Inv, TypeOK
  <2>6. TypeOK'
    BY <2>2, <2>4 DEF Inv, TypeOK
  <2>7. DeliveredIsPublished' /\ BatchOK' /\ AcknowledgedIsIndexed'
    BY <2>2, <2>3, <2>5
       DEF Inv, TypeOK, DeliveredIsPublished, BatchOK, AcknowledgedIsIndexed, Recorded, Indexed
  <2> QED
    BY <2>6, <2>7 DEF Inv
<1>9. ASSUME NEW m \in Messages, AckWaitExpires(m) PROVE Inv'
  <2>1. /\ delivery' \in [Messages -> {"waiting", "out", "settled"}]
        /\ \A n \in Messages \ {m} : delivery'[n] = delivery[n]
        /\ delivery'[m] = "waiting"
    BY <1>9, DeliverLemma DEF AckWaitExpires
  <2>2. UNCHANGED <<content, loop, table, aged, bounds>>
    BY <1>9 DEF AckWaitExpires
  <2>3. TypeOK'
    BY <2>1, <2>2 DEF Inv, TypeOK
  <2> QED
    BY <2>1, <2>2, <2>3
       DEF Inv, DeliveredIsPublished, BatchOK, AcknowledgedIsIndexed, Recorded, Indexed
<1>10. CASE SubscriptionDies
  <2>1. failures' \in 0..MaxFailures
    BY <1>10, BoundsAssumption DEF BoundsAssumption, SubscriptionDies, Inv, TypeOK
  <2>2. TypeOK'
    BY <1>10, <2>1 DEF SubscriptionDies, Inv, TypeOK
  <2> QED
    BY <1>10, <2>2 DEF SubscriptionDies, Inv, DeliveredIsPublished, BatchOK,
                       AcknowledgedIsIndexed, Recorded, Indexed
<1>11. CASE Restart
  <2>1. restarts' \in 0..MaxRestarts
    BY <1>11, BoundsAssumption DEF BoundsAssumption, Restart, Inv, TypeOK
  <2>2. ok' \in BOOLEAN
    BY <1>11, Zenon DEF Restart
  <2>3. TypeOK'
    BY <1>11, <2>1, <2>2 DEF Restart, Inv, TypeOK
  <2> QED
    BY <1>11, <2>3 DEF Restart, Inv, DeliveredIsPublished, BatchOK,
                       AcknowledgedIsIndexed, Recorded, Indexed
<1>12. ASSUME NEW e \in Events, Age(e) PROVE Inv'
  BY <1>12 DEF Age, Inv, TypeOK, DeliveredIsPublished, BatchOK,
               AcknowledgedIsIndexed, Recorded, Indexed
<1>13. CASE UNCHANGED vars
  BY <1>13 DEF vars, Inv, TypeOK, DeliveredIsPublished, BatchOK,
               AcknowledgedIsIndexed, Recorded, Indexed
<1> QED
  BY <1>0, <1>1, <1>2, <1>3, <1>4, <1>5, <1>6, <1>7, <1>8, <1>9, <1>10, <1>11, <1>12, <1>13
     DEF Next, Task, Bus

\* The invariant holds in every reachable state.
LEMMA Invariance == Spec => []Inv
  BY InitInv, NextInv, PTL DEF Spec

\* Messages, the task of run_audit_indexer and the rows keep their shape.
THEOREM TypeCorrect == Spec => []TypeOK
<1>1. Inv => TypeOK
  BY DEF Inv
<1> QED
  BY <1>1, Invariance, PTL

\* consume_once commits before it acknowledges: whatever fails and wherever the
\* process dies, an event the bus will not deliver again has its row, or had
\* one that a prune deleted.
THEOREM NothingAcknowledgedIsMissing == Spec => []AcknowledgedIsIndexed
<1>1. Inv => AcknowledgedIsIndexed
  BY DEF Inv
<1> QED
  BY <1>1, Invariance, PTL

-----------------------------------------------------------------------------
(* What a prune leaves.  The rows have different numbers; among those that  *)
(* stay the oldest has fewer than MaxRows newer ones, and among those that  *)
(* go the newest had MaxRows newer ones, which all stay.                    *)

\* Two rows have different ingest_seq.
Numbered == \A e, f \in Indexed : seq[e] = seq[f] => e = f

\* Of finitely many numbered things one has the least number.
LEMMA LeastExists ==
    ASSUME NEW C, IsFiniteSet(C), C # {}, NEW h, \A e \in C : h[e] \in Int
    PROVE  \E e \in C : \A f \in C : h[e] <= h[f]
<1> DEFINE Below(e) == {f \in C : h[f] < h[e]}
           T == {Below(e) : e \in C}
           R == StrictSubsetOrdering(C)
<1>1. T \subseteq FiniteSubsetsOf(C)
  <2>1. \A e \in C : IsFiniteSet(Below(e)) /\ Below(e) \subseteq C
    BY FS_Subset
  <2> QED
    BY <2>1 DEF FiniteSubsetsOf
<1>2. T # {} /\ \A x \in T : x \subseteq C
  OBVIOUS
<1>3. IsWellFoundedOn(R, FiniteSubsetsOf(C))
  BY FS_StrictSubsetOrderingWellFounded
<1> HIDE DEF T, R
<1>4. PICK x \in T : \A y \in T : ~(<<y, x>> \in R)
  BY <1>1, <1>2, <1>3, WFMin
<1>5. PICK e \in C : x = Below(e)
  BY DEF T
<1>6. ASSUME NEW f \in C, h[f] < h[e] PROVE FALSE
  <2>1. f \in Below(e) /\ f \notin Below(f)
    BY <1>6
  <2>2. Below(f) \subseteq Below(e)
    BY <1>6
  <2>3. Below(f) \in T /\ Below(f) \subseteq C /\ Below(e) \subseteq C
    BY DEF T
  <2> HIDE DEF Below
  <2>4. <<Below(f), Below(e)>> \in R
    BY <2>1, <2>2, <2>3 DEF R, StrictSubsetOrdering
  <2> QED
    BY <1>4, <1>5, <2>3, <2>4
<1> QED
  BY <1>6

\* ... and one has the greatest.
LEMMA GreatestExists ==
    ASSUME NEW C, IsFiniteSet(C), C # {}, NEW h, \A e \in C : h[e] \in Int
    PROVE  \E e \in C : \A f \in C : h[f] <= h[e]
<1> DEFINE g == [e \in C |-> -h[e]]
<1>1. \A e \in C : g[e] \in Int /\ g[e] = -h[e]
  OBVIOUS
<1> HIDE DEF g
<1>2. PICK e \in C : \A f \in C : g[e] <= g[f]
  BY <1>1, LeastExists
<1>3. \A f \in C : h[f] <= h[e]
  BY <1>1, <1>2
<1> QED
  BY <1>3

\* The rows that BelowFloor leaves are at most MaxRows, and a row it takes leaves at
\* least MaxRows newer ones.
LEMMA FloorLemma ==
    ASSUME Inv, Numbered, NEW rows \in SUBSET Indexed
    PROVE  LET stay == rows \ BelowFloor(rows)
           IN  /\ Cardinality(stay) <= MaxRows
               /\ \A e \in BelowFloor(rows) :
                     Cardinality({f \in stay : seq[f] > seq[e]}) >= MaxRows
<1> DEFINE gone == BelowFloor(rows)
           stay == rows \ gone
           Newer(e) == {f \in rows : seq[f] > seq[e]}
<1>0. /\ IsFiniteSet(rows) /\ MaxRows \in Nat /\ MaxRows # 0
      /\ \A e \in rows : seq[e] \in Nat
      /\ gone \subseteq rows
  <2>1. rows \in SUBSET Events
    BY DEF Indexed
  <2> QED
    BY <2>1, EventsAssumption, BoundsAssumption, FS_Subset
       DEF EventsAssumption, BoundsAssumption, Inv, TypeOK, BelowFloor
<1>1. \A x : x \in SUBSET rows => IsFiniteSet(x) /\ Cardinality(x) \in Nat
  BY <1>0, FS_Subset, FS_CardinalityType
<1>2. \A e \in rows : Newer(e) \in SUBSET rows
  OBVIOUS
<1>3. gone = {e \in rows : Cardinality(Newer(e)) >= MaxRows}
  BY DEF BelowFloor
<1> HIDE DEF gone
<1>4. Cardinality(stay) <= MaxRows
  <2>0. IsFiniteSet(stay) /\ stay \in SUBSET rows
    BY <1>1
  <2>1. CASE stay = {}
    BY <1>0, <2>1, FS_EmptySet
  <2>2. CASE stay # {}
    <3>1. \A e \in stay : seq[e] \in Int
      BY <1>0
    <3>2. PICK e \in stay : \A f \in stay : seq[e] <= seq[f]
      BY <2>0, <2>2, <3>1, LeastExists
    <3>3. stay \ {e} \subseteq Newer(e)
      <4>1. ASSUME NEW f \in stay, f # e PROVE seq[f] > seq[e]
        <5>1. seq[f] # seq[e]
          BY <4>1 DEF Numbered
        <5> QED
          BY <1>0, <3>2, <5>1
      <4> QED
        BY <4>1
    <3>4. Cardinality(Newer(e)) < MaxRows
      BY <1>0, <1>1, <1>2, <1>3
    <3>5. Cardinality(stay \ {e}) = Cardinality(stay) - 1
      BY <2>0, FS_RemoveElement
    <3>6. Cardinality(stay \ {e}) <= Cardinality(Newer(e))
      BY <1>1, <1>2, <3>3, FS_Subset
    <3>7. Cardinality(stay) \in Nat /\ Cardinality(Newer(e)) \in Nat
      BY <1>1, <1>2, <2>0
    <3> QED
      BY <1>0, <3>4, <3>5, <3>6, <3>7
  <2> QED
    BY <2>1, <2>2
<1>5. ASSUME NEW e \in gone
      PROVE  Cardinality({f \in stay : seq[f] > seq[e]}) >= MaxRows
  <2>0. IsFiniteSet(gone) /\ gone \in SUBSET rows
    BY <1>0, <1>1
  <2>1. \A x \in gone : seq[x] \in Int
    BY <1>0
  <2>2. PICK x \in gone : \A y \in gone : seq[y] <= seq[x]
    BY <2>0, <2>1, GreatestExists
  <2>3. Newer(x) \subseteq {f \in stay : seq[f] > seq[e]}
    BY <1>0, <2>2
  <2>4. Cardinality(Newer(x)) >= MaxRows
    BY <1>3
  <2>5. {f \in stay : seq[f] > seq[e]} \in SUBSET rows
    OBVIOUS
  <2>6. Cardinality(Newer(x)) <= Cardinality({f \in stay : seq[f] > seq[e]})
    BY <1>1, <2>3, <2>5, FS_Subset
  <2>7. /\ Cardinality(Newer(x)) \in Nat
        /\ Cardinality({f \in stay : seq[f] > seq[e]}) \in Nat
    BY <1>0, <1>1, <1>2, <2>5
  <2> QED
    BY <1>0, <2>4, <2>6, <2>7
<1> QED
  BY <1>4, <1>5 DEF gone

\* SQLite numbers new rows above all others, so numbers stay different.
LEMMA InsertNumbers ==
    ASSUME Inv, Numbered, NEW new \in SUBSET Events, Insert(new)
    PROVE  Numbered'
<1>1. PICK top \in {0} \cup {seq[e] : e \in Events} :
        /\ \A e \in Events : seq[e] <= top
        /\ \E number \in Bijection(new, (top + 1)..(top + Cardinality(new))) :
              seq' = [e \in Events |-> IF e \in new THEN number[e] ELSE seq[e]]
  BY DEF Insert
<1>2. PICK number \in Bijection(new, (top + 1)..(top + Cardinality(new))) :
        seq' = [e \in Events |-> IF e \in new THEN number[e] ELSE seq[e]]
  BY <1>1
<1>3. /\ number \in [new -> (top + 1)..(top + Cardinality(new))]
      /\ \A e, f \in new : number[e] = number[f] => e = f
  BY DEF Bijection, Injection, IsInjective
<1>4. /\ top \in Nat /\ Cardinality(new) \in Nat /\ \A e \in Events : seq[e] \in Nat
  BY EventsAssumption, FS_Subset, FS_CardinalityType DEF EventsAssumption, Inv, TypeOK
<1>5. \A e \in new : number[e] \in Nat /\ number[e] > top
  BY <1>3, <1>4
<1>6. ASSUME NEW e \in Events, NEW f \in Events, seq'[e] # 0, seq'[f] # 0, seq'[e] = seq'[f]
      PROVE  e = f
  <2>1. CASE e \in new /\ f \in new
    BY <1>2, <1>3, <1>6, <2>1
  <2>2. CASE e \notin new /\ f \notin new
    BY <1>2, <1>6, <2>2 DEF Numbered, Indexed
  <2>3. CASE e \in new /\ f \notin new
    <3>1. seq'[e] > top /\ seq'[f] <= top /\ seq'[e] \in Nat
      BY <1>1, <1>2, <1>5, <2>3
    <3> QED
      BY <1>4, <1>6, <3>1
  <2>4. CASE e \notin new /\ f \in new
    <3>1. seq'[f] > top /\ seq'[e] <= top /\ seq'[f] \in Nat
      BY <1>1, <1>2, <1>5, <2>4
    <3> QED
      BY <1>4, <1>6, <3>1
  <2> QED
    BY <2>1, <2>2, <2>3, <2>4
<1> QED
  BY <1>6 DEF Numbered, Indexed

\* Only two steps write the table: a batch is ingested, or the table is pruned.
LEMMA TableSteps ==
    ASSUME Inv, [Next]_vars
    PROVE  \/ UNCHANGED seq
           \/ Prune /\ UNCHANGED aged
           \/ \E new \in SUBSET Events : Insert(new) /\ new \cap Indexed = {}
<1> USE DEF table
<1>1. CASE Ingest
  <2>1. BatchEvents \subseteq Events
    BY <1>1 DEF Ingest, Inv, BatchOK, BatchEvents
  <2>2. BatchEvents \ Indexed \in SUBSET Events /\ (BatchEvents \ Indexed) \cap Indexed = {}
    BY <2>1
  <2>3. Insert(BatchEvents \ Indexed) \/ UNCHANGED seq
    BY <1>1 DEF Ingest
  <2> QED
    BY <2>2, <2>3
<1>2. CASE Polled
  BY <1>2 DEF Polled
<1>3. CASE OpenStore \/ Connect \/ Fetch \/ FetchFromDead \/ Parse \/ Ack \/ Restart
  BY <1>3 DEF OpenStore, Connect, Fetch, FetchFromDead, Parse, Ack, Restart
<1>4. CASE Bus
  BY <1>4 DEF Bus, Publish, AckWaitExpires, SubscriptionDies
<1>5. ASSUME NEW e \in Events, Age(e) PROVE UNCHANGED seq
  BY <1>5 DEF Age
<1>6. CASE UNCHANGED vars
  BY <1>6 DEF vars
<1> QED
  BY <1>1, <1>2, <1>3, <1>4, <1>5, <1>6 DEF Next, Task

\* What the rows are after a prune.
LEMMA PruneRows ==
    ASSUME Inv, Prune
    PROVE  LET kept == Indexed \ aged
           IN  /\ Indexed' = kept \ BelowFloor(kept)
               /\ \A e \in Indexed' : seq'[e] = seq[e]
<1> DEFINE kept == Indexed \ aged
           floor == BelowFloor(kept)
           gone == (Indexed \cap aged) \cup floor
<1>1. seq' = [e \in Events |-> IF e \in gone THEN 0 ELSE seq[e]]
  BY DEF Prune
<1>2. floor \subseteq kept
  BY DEF BelowFloor
<1> HIDE DEF floor
<1>3. \A e \in Events : seq'[e] # 0 <=> e \in kept \ floor
  BY <1>1, <1>2 DEF Indexed
<1>4. Indexed' = kept \ floor
  BY <1>3 DEF Indexed
<1>5. \A e \in Indexed' : seq'[e] = seq[e]
  BY <1>1, <1>2, <1>4 DEF Indexed
<1> QED
  BY <1>4, <1>5 DEF floor

\* The numbers of the rows are different throughout.
LEMMA NumbersInvariance == Spec => [](Inv /\ Numbered)
<1>1. Init => Numbered
  BY DEF Init, Numbered, Indexed
<1>2. Inv /\ Numbered /\ [Next]_vars => Numbered'
  <2> SUFFICES ASSUME Inv, Numbered, [Next]_vars PROVE Numbered'
    OBVIOUS
  <2>1. CASE UNCHANGED seq
    BY <2>1 DEF Numbered, Indexed
  <2>2. CASE Prune
    <3>1. Indexed' \subseteq Indexed /\ \A e \in Indexed' : seq'[e] = seq[e]
      BY <2>2, PruneRows
    <3> QED
      BY <3>1 DEF Numbered
  <2>3. ASSUME NEW new \in SUBSET Events, Insert(new) PROVE Numbered'
    BY <2>3, InsertNumbers
  <2> QED
    BY <2>1, <2>2, <2>3, TableSteps
<1> QED
  BY <1>1, <1>2, InitInv, NextInv, PTL DEF Spec

\* prune is exact: after it no aged row and at most MaxRows rows remain, and a row that
\* is not too old goes only for MaxRows newer ones that stay; nothing else deletes rows.
THEOREM PruneKeepsTheNewest == Spec => PruneIsExact
<1> DEFINE A == \A e \in Indexed : seq'[e] = 0 =>
                  /\ Indexed' \cap aged = {}
                  /\ Cardinality(Indexed') <= MaxRows
                  /\ e \in aged \/ Cardinality({f \in Indexed' : seq[f] > seq[e]}) >= MaxRows
<1>1. Inv /\ Numbered /\ [Next]_vars => [A]_vars
  <2> SUFFICES ASSUME Inv, Numbered, [Next]_vars PROVE A
    OBVIOUS
  <2>1. CASE UNCHANGED seq
    BY <2>1 DEF Indexed
  <2>2. CASE Prune
    <3> DEFINE kept == Indexed \ aged
               stay == kept \ BelowFloor(kept)
    <3>1. Indexed' = stay
      BY <2>2, PruneRows
    <3>2. /\ Cardinality(stay) <= MaxRows
          /\ \A e \in BelowFloor(kept) :
                Cardinality({f \in stay : seq[f] > seq[e]}) >= MaxRows
      BY FloorLemma
    <3>3. ASSUME NEW e \in Indexed, seq'[e] = 0 PROVE e \in aged \/ e \in BelowFloor(kept)
      BY <3>1, <3>3 DEF Indexed
    <3> QED
      BY <3>1, <3>2, <3>3
  <2>3. ASSUME NEW new \in SUBSET Events, Insert(new), new \cap Indexed = {} PROVE A
    <3>1. \A e \in Events \ new : seq'[e] = seq[e]
      BY <2>3, InsertLemma
    <3>2. \A e \in Indexed : seq'[e] # 0
      BY <2>3, <3>1 DEF Indexed
    <3> QED
      BY <3>2
  <2> QED
    BY <2>1, <2>2, <2>3, TableSteps
<1> QED
  BY <1>1, NumbersInvariance, PTL DEF Spec, PruneIsExact
=============================================================================
