----------------------------- MODULE AuditIndex -----------------------------
(***************************************************************************)
(* The audit index of the Admin process: a SQLite projection of the audit  *)
(* stream, filled by one loop that fetches a batch from a durable          *)
(* JetStream consumer, commits it, acknowledges it and now and then prunes *)
(* the table.                                                              *)
(*                                                                         *)
(* Each await of the task is a value of "at".  A fetch, a commit, an       *)
(* acknowledgement may fail, the subscription may die while its connection *)
(* stays, and the process may be killed at every await; JetStream delivers *)
(* a message again until it is acknowledged or terminated.  What fails in  *)
(* the loop is tried again; what fails before it, when the store is        *)
(* opened, ends the task until the process is restarted.  JetStream and    *)
(* the publishers are external.                                            *)
(***************************************************************************)
EXTENDS Integers, FiniteSets, Functions

CONSTANTS
    Events,        \* event_id values
    Messages,      \* messages of the stream; two may carry the same event
    Malformed,     \* the content of a message that is no AuditEnvelope
    Unpublished,   \* a message that is not in the stream yet
    FetchBatch,    \* AuditJetStreamSettings.fetch_batch
    MaxRows,       \* INDEX_MAX_ROWS
    MaxFailures,   \* bound: calls that fail, acknowledgements that are lost
    MaxRestarts    \* bound: restarts of the process

ASSUME ContentAssumption == Malformed \notin Events /\ Unpublished \notin Events
ASSUME EventsAssumption == IsFiniteSet(Events)
ASSUME BoundsAssumption ==
    /\ FetchBatch \in Nat \ {0}
    /\ MaxRows \in Nat \ {0}
    /\ MaxFailures \in Nat
    /\ MaxRestarts \in Nat

VARIABLES
    content,    \* stream: what each message carries
    delivery,   \* consumer: "waiting", "out" (delivered, ack wait running) or
                \* "settled" (acknowledged or terminated), per message
    link,       \* indexer: _connection and _subscription
    at,         \* the await the task is in, "ended" when the task is over
    batch,      \* messages fetched and not yet dealt with
    ok,         \* AuditIndexerHealth.ok
    seq,        \* table: ingest_seq of each event, 0 for an event without a row
    aged,       \* events whose occurred_at lies before the retention window
    pruned,     \* history: events whose row a prune deleted
    highest,    \* history: the greatest ingest_seq ever assigned
    failures, restarts  \* so far (bounded)

stream == <<content, delivery>>
loop == <<link, at, batch, ok>>
table == <<seq, pruned, highest>>
bounds == <<failures, restarts>>
vars == <<stream, loop, table, aged, bounds>>

Indexed == {e \in Events : seq[e] # 0}
Deliverable ==
    {m \in Messages : content[m] # Unpublished /\ delivery[m] = "waiting"}
BatchEvents == {content[m] : m \in batch}

\* the consumer's view of the messages ms changes
Deliver(ms, state) ==
    delivery' = [m \in Messages |-> IF m \in ms THEN state ELSE delivery[m]]

Init ==
    /\ content = [m \in Messages |-> Unpublished]
    /\ delivery = [m \in Messages |-> "waiting"]
    /\ link = "none" /\ at = "start" /\ batch = {} /\ ok = FALSE
    /\ seq = [e \in Events |-> 0]
    /\ aged = {} /\ pruned = {} /\ highest = 0
    /\ failures = 0 /\ restarts = 0

-----------------------------------------------------------------------------
(* The task of run_audit_indexer: it opens the store, then loops.           *)

\* AuditIndexStore.open and init_schema stand before the loop and its except
\* branch: a failure there ends the task, and nobody starts another one
OpenStore ==
    /\ at = "start"
    /\ \/ at' = "poll" /\ UNCHANGED bounds
       \/ /\ failures < MaxFailures /\ failures' = failures + 1
          /\ at' = "ended"
          /\ UNCHANGED restarts
    /\ UNCHANGED <<stream, link, batch, ok, table, aged>>

\* (faulty variant: the handles survive the failure)
FailKeepsHandles ==
    /\ ok' = FALSE
    /\ at' = "poll" /\ batch' = {}
    /\ UNCHANGED link

\* (faulty variant: the failure is logged only)
FailUnreported ==
    /\ link' = "none"
    /\ at' = "poll" /\ batch' = {}
    /\ UNCHANGED ok

\* the except branch: health.failed, close() clears the handles whatever the
\* drain does, back off, poll again
Fail ==
    /\ ok' = FALSE
    /\ link' = "none"
    /\ at' = "poll" /\ batch' = {}

\* a call fails that could have worked
CallFails ==
    /\ failures < MaxFailures
    /\ failures' = failures + 1
    /\ UNCHANGED restarts
    /\ Fail

Connect ==
    /\ at = "poll" /\ link = "none"
    /\ \/ link' = "live" /\ UNCHANGED <<at, batch, ok, bounds>>
       \/ CallFails
    /\ UNCHANGED <<stream, table, aged>>

\* subscription.fetch: a batch, or nothing before the deadline
Fetch ==
    /\ at = "poll" /\ link = "live"
    /\ \/ /\ \E b \in SUBSET Deliverable :
                /\ b # {} /\ Cardinality(b) <= FetchBatch
                /\ batch' = b /\ Deliver(b, "out")
          /\ at' = "parse"
          /\ UNCHANGED <<link, ok, bounds>>
       \/ /\ Deliverable = {}
          /\ at' = "polled"
          /\ UNCHANGED <<delivery, link, batch, ok, bounds>>
       \/ CallFails /\ UNCHANGED delivery
    /\ UNCHANGED <<content, table, aged>>

\* a dead subscription answers every fetch with an error
FetchFromDead ==
    /\ at = "poll" /\ link = "dead"
    /\ Fail
    /\ UNCHANGED <<stream, table, aged, bounds>>

\* (faulty variant: messages are acknowledged as they are read)
ParseAcknowledges ==
    /\ at = "parse"
    /\ Deliver(batch, "settled")
    /\ at' = "ingest"
    /\ UNCHANGED <<content, link, batch, ok, table, aged, bounds>>

\* what does not parse is terminated, one message after the other
Parse ==
    /\ at = "parse"
    /\ LET bad == {m \in batch : content[m] = Malformed} IN
       \/ /\ Deliver(bad, "settled")
          /\ batch' = batch \ bad
          /\ at' = IF batch = bad THEN "polled" ELSE "ingest"
          /\ UNCHANGED <<link, ok, bounds>>
       \/ /\ \E done \in SUBSET bad : done # bad /\ Deliver(done, "settled")
          /\ CallFails
    /\ UNCHANGED <<content, table, aged>>

(* One INSERT ... ON CONFLICT DO NOTHING for the batch.  The table has no   *)
(* AUTOINCREMENT (sqlite_autoincrement is not set), so SQLite numbers a new *)
(* row one above the greatest ingest_seq in the table.                      *)
Insert(new) ==
    \E top \in {0} \cup {seq[e] : e \in Events} :
        /\ \A e \in Events : seq[e] <= top
        /\ \E number \in Bijection(new, (top + 1)..(top + Cardinality(new))) :
              seq' = [e \in Events |-> IF e \in new THEN number[e] ELSE seq[e]]
        /\ highest' = IF top + Cardinality(new) > highest
                      THEN top + Cardinality(new) ELSE highest

Ingest ==
    /\ at = "ingest"
    /\ \/ /\ Insert(BatchEvents \ Indexed)
          /\ at' = "ack"
          /\ UNCHANGED <<pruned, link, batch, ok, bounds>>
       \/ CallFails /\ UNCHANGED table
    /\ UNCHANGED <<stream, aged>>

\* every message is acknowledged; an acknowledgement may fail, or be lost on
\* its way without anybody noticing
Ack ==
    /\ at = "ack"
    /\ \/ /\ Deliver(batch, "settled")
          /\ at' = "polled" /\ batch' = {}
          /\ UNCHANGED <<link, ok, bounds>>
       \/ /\ \E done \in SUBSET batch : done # batch /\ Deliver(done, "settled")
          /\ \/ CallFails
             \/ /\ failures < MaxFailures /\ failures' = failures + 1
                /\ at' = "polled" /\ batch' = {}
                /\ UNCHANGED <<link, ok, restarts>>
    /\ UNCHANGED <<content, table, aged>>

\* (faulty variant: the floor is one row too high)
BelowFloorTooMany(rows) ==
    {e \in rows : Cardinality({f \in rows : seq[f] > seq[e]}) >= MaxRows - 1}

\* rows below the ingest_seq at offset max_rows - 1 of the newest first
BelowFloor(rows) ==
    {e \in rows : Cardinality({f \in rows : seq[f] > seq[e]}) >= MaxRows}

\* prune: first by age, then all but the newest MaxRows of what is left
Prune ==
    LET kept == Indexed \ aged
        gone == (Indexed \cap aged) \cup BelowFloor(kept)
    IN  /\ seq' = [e \in Events |-> IF e \in gone THEN 0 ELSE seq[e]]
        /\ pruned' = pruned \cup gone
        /\ UNCHANGED highest

\* consume_once returned: health.observed, and the hourly prune when due; the
\* prune may fail, or the VACUUM after it
Polled ==
    /\ at = "polled"
    /\ Prune \/ UNCHANGED table
    /\ \/ /\ ok' = TRUE
          /\ at' = "poll" /\ batch' = {}
          /\ UNCHANGED <<link, bounds>>
       \/ CallFails
    /\ UNCHANGED <<stream, aged>>

\* the process is stopped or killed, and started again with a new task and a
\* new AuditIndexerHealth
Restart ==
    /\ restarts < MaxRestarts
    /\ restarts' = restarts + 1
    /\ link' = "none" /\ at' = "start" /\ batch' = {} /\ ok' = FALSE
    /\ UNCHANGED <<stream, table, aged, failures>>

-----------------------------------------------------------------------------
(* The bus and time.                                                        *)

\* a publisher may publish an event twice, or late
Publish(m) ==
    /\ content[m] = Unpublished
    /\ \E c \in Events \cup {Malformed} : content' = [content EXCEPT ![m] = c]
    /\ UNCHANGED <<delivery, loop, table, aged, bounds>>

\* a delivered message that is not acknowledged in time is delivered again
AckWaitExpires(m) ==
    /\ delivery[m] = "out"
    /\ Deliver({m}, "waiting")
    /\ UNCHANGED <<content, loop, table, aged, bounds>>

\* the consumer is deleted under a connection that stays healthy
SubscriptionDies ==
    /\ link = "live"
    /\ failures < MaxFailures
    /\ failures' = failures + 1
    /\ link' = "dead"
    /\ UNCHANGED <<stream, at, batch, ok, table, aged, restarts>>

Age(e) ==
    /\ e \notin aged
    /\ aged' = aged \cup {e}
    /\ UNCHANGED <<stream, loop, table, bounds>>

-----------------------------------------------------------------------------

Task ==
    \/ OpenStore
    \/ Connect \/ Fetch \/ FetchFromDead \/ Parse \/ Ingest \/ Ack \/ Polled

Bus ==
    \/ \E m \in Messages : Publish(m) \/ AckWaitExpires(m)
    \/ SubscriptionDies

Next == Task \/ Bus \/ Restart \/ \E e \in Events : Age(e)

Spec == Init /\ [][Next]_vars

\* The event loop runs the task for as long as the task has a step to take, and
\* JetStream delivers again what was not acknowledged.
FairSpec ==
    /\ Spec
    /\ WF_vars(Task)
    /\ \A m \in Messages : WF_vars(AckWaitExpires(m))

-----------------------------------------------------------------------------
(* Properties.                                                              *)

\* Messages, the loop and the rows keep their shape.
TypeOK ==
    /\ content \in [Messages -> Events \cup {Malformed, Unpublished}]
    /\ delivery \in [Messages -> {"waiting", "out", "settled"}]
    /\ link \in {"none", "live", "dead"}
    /\ at \in {"start", "poll", "parse", "ingest", "ack", "polled", "ended"}
    /\ batch \subseteq Messages
    /\ ok \in BOOLEAN
    /\ seq \in [Events -> Nat]
    /\ aged \subseteq Events /\ pruned \subseteq Events
    /\ highest \in Nat
    /\ failures \in 0..MaxFailures /\ restarts \in 0..MaxRestarts

\* JetStreamAuditIndexer: a batch is committed before it is acknowledged.  An
\* event the bus will not deliver again has a row, or had one a prune deleted,
\* wherever the process died and whichever call failed.
AcknowledgedIsIndexed ==
    \A m \in Messages : delivery[m] = "settled" /\ content[m] \in Events
                          => content[m] \in Indexed \cup pruned

\* prune deletes by two bounds in one transaction: whenever rows go, no aged
\* row and at most MaxRows rows remain, and a row that is not too old goes
\* only for MaxRows newer ones that stay.
PruneIsExact ==
    [][\A e \in Indexed : seq'[e] = 0 =>
         /\ Indexed' \cap aged = {}
         /\ Cardinality(Indexed') <= MaxRows
         /\ e \in aged \/ Cardinality({f \in Indexed' : seq[f] > seq[e]}) >= MaxRows]_vars

\* Once its store is open the loop does not give up: when failures stop, every
\* event in the stream gets its row, also when the subscription died under a live
\* connection.  A task that could not open its store indexes nothing until the
\* process is restarted, and is the only exception.
EventsAreIndexed ==
    \A e \in Events : (\E m \in Messages : content[m] = e)
                         ~> (e \in Indexed \cup pruned \/ at = "ended")

\* AuditIndexerHealth: an index nobody is filling does not go on saying ok, be
\* it that the subscription died or that the task is over.
DeadFeedIsReported == (link = "dead" \/ at = "ended") ~> ~ok
=============================================================================
