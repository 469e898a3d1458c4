------------------------ MODULE NetworkChange_proofs ------------------------
(***************************************************************************)
(* Proofs about NetworkChange, for any number of operations, requests in   *)
(* flight, networks, resets and restarts.                                  *)
(*                                                                         *)
(* The Host is safe because of one fact about the requests: from the       *)
(* moment an operation is created until the adapter records it as active,  *)
(* nobody but the request that stages it works on it (StagingIsPrivate),   *)
(* so its checkpoint is there when the device leaves its network           *)
(* (ActivationIsGuarded).                                                  *)
(***************************************************************************)
EXTENDS NetworkChange, TLAPS

\* the request has not yet made its operation the adapter's active one
Preparing(t, r) == t[r].at \in {"cfg_checkpoint", "cfg_activate"}

\* waits at which the device has been rolled back, and those without operation
Undone == {"cfg_undo_destroy", "rbk_destroy", "fgt_destroy"}
Detached == {"idle", "rst_snapshot", "fgt_delete", "fgt_reconcile"}

StoppedIsIdle == ~running => \A r \in Requests : task[r] = Idle

UnusedIsUnknown ==
    \A o \in Ops : op[o].state = "none" =>
        /\ active # o /\ checkpoint # o
        /\ \A r \in Requests : task[r].op # o

StagingIsPrivate ==
    \A r \in Requests : Preparing(task, r) =>
        /\ active # task[r].op
        /\ op[task[r].op].state # "succeeded"
        /\ \A q \in Requests \ {r} : task[q].op # task[r].op

ActivationIsGuarded ==
    \A r \in Requests : task[r].at = "cfg_activate" => checkpoint = task[r].op

ConfirmedIsUnguarded ==
    \A r \in Requests : task[r].at = "cnf_snapshot" => checkpoint # task[r].op

\* A checkpoint about to be destroyed after its rollback no longer matters.
UndoneIsConfirmed ==
    \A r \in Requests :
        task[r].at \in Undone /\ checkpoint = task[r].op => ssid \in {committed, NoSsid}

\* Whoever works on an operation works on one that exists.
WorkersHaveOperation ==
    \A r \in Requests : task[r].at \notin Detached => task[r].op \in Ops

RequestsOK ==
    /\ StoppedIsIdle
    /\ UnusedIsUnknown
    /\ StagingIsPrivate
    /\ ActivationIsGuarded
    /\ ConfirmedIsUnguarded
    /\ UndoneIsConfirmed
    /\ WorkersHaveOperation
    /\ SucceededIsFinal

\* a network without checkpoint, and the network a checkpoint restores, are
\* confirmed or none
NetworkOK(guard, restores, current, confirmed) ==
    IF guard = NoOp THEN current \in {confirmed, NoSsid}
                    ELSE restores \in {confirmed, NoSsid}

Inv ==
    /\ TypeOK
    /\ RequestsOK
    /\ NetworkOK(checkpoint, previous, ssid, committed)

-----------------------------------------------------------------------------
(* What a step does to the requests and the rows.                           *)

\* request r now waits at w and works on x; the others have not moved
Moves(r, w, x) ==
    /\ task' \in [Requests -> Task]
    /\ \A q \in Requests \ {r} : task'[q] = task[q]
    /\ task'[r].at = w
    /\ task'[r].op = x

\* Goto moves a request and leaves its operation.
LEMMA GotoMoves ==
    ASSUME task \in [Requests -> Task], NEW r \in Requests, NEW w \in Waits, Goto(r, w)
    PROVE  Moves(r, w, task[r].op)
<1>1. [task[r] EXCEPT !.at = w] \in Task
  BY DEF Task
<1>2. task' = [task EXCEPT ![r] = [task[r] EXCEPT !.at = w]]
  BY DEF Goto, Task
<1>3. [task[r] EXCEPT !.at = w].at = w /\ [task[r] EXCEPT !.at = w].op = task[r].op
  BY DEF Task
<1> QED
  BY <1>1, <1>2, <1>3 DEF Moves

\* The idle request is a request.
LEMMA IdleIsTask == Idle \in Task /\ Idle.at = "idle" /\ Idle.op = NoOp
  BY DEF Idle, WorksOn, Task, Waits, NetworkStates

\* Answering makes a request idle.
LEMMA AnswerMoves ==
    ASSUME task \in [Requests -> Task], NEW r \in Requests, Answer(r)
    PROVE  Moves(r, "idle", NoOp)
  BY IdleIsTask DEF Moves, Answer

\* A request starts on operation o.
LEMMA StartMoves ==
    ASSUME task \in [Requests -> Task], NEW r \in Requests, NEW o \in Ops,
           NEW w \in Waits, NEW b \in NetworkStates,
           task' = [task EXCEPT ![r] = [at |-> w, op |-> o, before |-> b]]
    PROVE  Moves(r, w, o)
<1>1. [at |-> w, op |-> o, before |-> b] \in Task
  BY DEF Task
<1> QED
  BY <1>1 DEF Moves

\* update_operation writes one row's state.
LEMMA UpdateLemma ==
    ASSUME op \in [Ops -> OpRow], NEW o \in Ops, NEW st \in OpStates, NEW n,
           UpdateOperation(o, st, n)
    PROVE  /\ op' \in [Ops -> OpRow]
           /\ op'[o].state = st
           /\ \A x \in Ops \ {o} : op'[x] = op[x]
           /\ networkState' = n /\ resetEpoch' = resetEpoch /\ held' = held
<1>1. /\ [op[o] EXCEPT !.state = st] \in OpRow
      /\ [op[o] EXCEPT !.state = st].state = st
  BY DEF OpRow
<1>2. op' = [op EXCEPT ![o] = [op[o] EXCEPT !.state = st]]
  BY DEF UpdateOperation, OpRow
<1> QED
  BY <1>1, <1>2 DEF UpdateOperation

\* A step of one request that does not begin a staging keeps the requests in
\* order, whatever else happens to the rows and the checkpoint along the way.
LEMMA MoveLemma ==
    ASSUME TypeOK, RequestsOK,
           NEW r \in Requests, NEW w \in Waits, NEW x \in Ops \cup {NoOp},
           Moves(r, w, x),
           running' = TRUE,
           w \notin {"cfg_checkpoint", "cfg_activate"},
           x \in {NoOp, task[r].op, active},
           w \in Detached \/ x \in Ops,
           w = "cnf_snapshot" => checkpoint' # x,
           w \in Undone => ssid' \in {committed', NoSsid},
           \/ ssid' \in {ssid, NoSsid} /\ committed' = committed
           \/ ssid' \in {committed', NoSsid}
           \/ Preparing(task, r) /\ checkpoint = task[r].op,
           active' \in {active, NoOp, task[r].op},
           \A o \in Ops : op'[o].state = "none" => op[o].state = "none",
           \A o \in Ops : op'[o].state = "succeeded" =>
               op[o].state = "succeeded" \/ (o = task[r].op /\ checkpoint' # o),
           checkpoint' = checkpoint \/ (checkpoint' = NoOp /\ checkpoint = task[r].op)
    PROVE  RequestsOK'
<1> USE NoneAssumption DEF NoneAssumption
<1>1. \A q \in Requests \ {r} : task'[q] = task[q]
  BY DEF Moves
<1>2. task'[r].at = w /\ task'[r].op = x
  BY DEF Moves
<1>3. StoppedIsIdle'
  BY DEF StoppedIsIdle
<1>4. UnusedIsUnknown'
  BY <1>1, <1>2 DEF RequestsOK, UnusedIsUnknown
<1>5. StagingIsPrivate'
  <2> SUFFICES ASSUME NEW q \in Requests, Preparing(task', q)
               PROVE  /\ active' # task'[q].op
                      /\ op'[task'[q].op].state # "succeeded"
                      /\ \A p \in Requests \ {q} : task'[p].op # task'[q].op
    BY DEF StagingIsPrivate
  <2>1. q # r /\ task'[q] = task[q] /\ Preparing(task, q)
    BY <1>1, <1>2 DEF Preparing
  <2>2. task[q].op \in Ops
    BY <2>1 DEF RequestsOK, WorkersHaveOperation, Preparing, Detached
  <2>3. /\ active # task[q].op
        /\ op[task[q].op].state # "succeeded"
        /\ \A p \in Requests \ {q} : task[p].op # task[q].op
    BY <2>1 DEF RequestsOK, StagingIsPrivate
  <2> QED
    BY <1>1, <1>2, <2>1, <2>2, <2>3
<1>6. ActivationIsGuarded'
  <2> SUFFICES ASSUME NEW q \in Requests, task'[q].at = "cfg_activate"
               PROVE  checkpoint' = task'[q].op
    BY DEF ActivationIsGuarded
  <2>1. q # r /\ task'[q] = task[q]
    BY <1>1, <1>2
  <2>2. checkpoint = task[q].op /\ task[r].op # task[q].op
    BY <2>1 DEF RequestsOK, ActivationIsGuarded, StagingIsPrivate, Preparing
  <2> QED
    BY <2>1, <2>2
<1>7. ConfirmedIsUnguarded' /\ WorkersHaveOperation'
  BY <1>1, <1>2 DEF RequestsOK, ConfirmedIsUnguarded, WorkersHaveOperation, Detached
<1>8. SucceededIsFinal'
  BY DEF RequestsOK, SucceededIsFinal
<1>9. UndoneIsConfirmed'
  <2> SUFFICES ASSUME NEW q \in Requests, task'[q].at \in Undone, checkpoint' = task'[q].op
               PROVE  ssid' \in {committed', NoSsid}
    BY DEF UndoneIsConfirmed
  <2>1. CASE q = r
    BY <1>2, <2>1
  <2>2. CASE q # r
    <3>1. task'[q] = task[q] /\ checkpoint' = task[q].op
      BY <1>1, <2>2
    <3>2. task[q].op \in Ops
      BY <3>1 DEF RequestsOK, WorkersHaveOperation, Detached, Undone
    <3>3. checkpoint = task[q].op /\ ssid \in {committed, NoSsid}
      BY <3>1, <3>2 DEF RequestsOK, UndoneIsConfirmed
    <3>4. ~ (Preparing(task, r) /\ checkpoint = task[r].op)
      BY <2>2, <3>3 DEF RequestsOK, StagingIsPrivate
    <3> QED
      BY <3>3, <3>4
  <2> QED
    BY <2>1, <2>2
<1> QED
  BY <1>3, <1>4, <1>5, <1>6, <1>7, <1>8, <1>9 DEF RequestsOK

-----------------------------------------------------------------------------
(* The steps of a request.                                                  *)

\* What the record says after a failed staging is a network state.
LEMMA FallbackType == \A b : Fallback(b) \in NetworkStates
  BY DEF Fallback, NetworkStates

\* A failed staging answers its request and fails its row.
LEMMA StagingFailedLemma ==
    ASSUME Inv, NEW r \in Requests, task[r].op \in Ops, StagingFailed(r)
    PROVE  /\ Moves(r, "idle", NoOp)
           /\ op' \in [Ops -> OpRow]
           /\ \A o \in Ops : op'[o].state \in {op[o].state, "failed"}
           /\ networkState' \in NetworkStates
           /\ resetEpoch' = resetEpoch /\ held' = held
<1>1. Moves(r, "idle", NoOp)
  BY AnswerMoves DEF Inv, TypeOK, StagingFailed
<1>2. /\ op' \in [Ops -> OpRow]
      /\ op'[task[r].op].state = "failed"
      /\ \A x \in Ops \ {task[r].op} : op'[x] = op[x]
      /\ networkState' = Fallback(task[r].before)
      /\ resetEpoch' = resetEpoch /\ held' = held
  <2>1. UpdateOperation(task[r].op, "failed", Fallback(task[r].before))
    BY DEF StagingFailed
  <2>2. "failed" \in OpStates
    BY DEF OpStates
  <2> QED
    BY <2>1, <2>2, UpdateLemma DEF Inv, TypeOK
<1> QED
  BY <1>1, <1>2, FallbackType

\* A request at a wait of its own works on an operation.
LEMMA WorkerHasOperation ==
    ASSUME Inv, NEW r \in Requests, task[r].at \notin Detached
    PROVE  task[r].op \in Ops
  BY DEF Inv, RequestsOK, WorkersHaveOperation

\* Answering a request and changing nothing else keeps the invariant.
LEMMA AnswerInv ==
    ASSUME Inv, running, NEW r \in Requests, Answer(r),
           UNCHANGED <<store, process, adapter, manager>>
    PROVE  Inv'
<1>1. Moves(r, "idle", NoOp)
  BY AnswerMoves DEF Inv, TypeOK
<1>2. TypeOK'
  BY <1>1 DEF Inv, TypeOK, Moves, process, adapter, manager, store
<1>3. RequestsOK'
  BY <1>1, MoveLemma DEF Inv, process, adapter, manager, store, Detached, Undone, Waits
<1> QED
  BY <1>2, <1>3 DEF Inv, manager

\* Waiting for another call keeps the invariant, if what the last one did to
\* the network leaves it guarded or confirmed.
LEMMA GotoInv ==
    ASSUME Inv, running, NEW r \in Requests, NEW w \in Waits, Goto(r, w),
           w \notin {"cfg_checkpoint", "cfg_activate", "cnf_snapshot"},
           w \in Detached \/ task[r].op \in Ops,
           UNCHANGED <<store, process, recovered, previous, committed>>,
           active' \in {active, NoOp, task[r].op},
           ssid' \in Ssids \cup {NoSsid},
           w \in Undone => ssid' \in {committed, NoSsid},
           \/ ssid' \in {ssid, committed, NoSsid}
           \/ Preparing(task, r) /\ checkpoint = task[r].op,
           checkpoint' = checkpoint \/ (checkpoint' = NoOp /\ checkpoint = task[r].op),
           NetworkOK(checkpoint', previous', ssid', committed')
    PROVE  Inv'
<1>1. Moves(r, w, task[r].op)
  BY GotoMoves DEF Inv, TypeOK
<1>2. task[r].op \in Ops \cup {NoOp}
  BY DEF Inv, TypeOK, Task
<1>3. TypeOK'
  BY <1>1, <1>2 DEF Inv, TypeOK, Moves, process, store
<1>4. RequestsOK'
  BY <1>1, <1>2, MoveLemma DEF Inv, process, store
<1> QED
  BY <1>3, <1>4 DEF Inv

\* A failed staging keeps the invariant, with its checkpoint left or removed.
LEMMA StagingFailedInv ==
    ASSUME Inv, running, NEW r \in Requests, task[r].op \in Ops, StagingFailed(r),
           UNCHANGED <<process, recovered, ssid, previous, committed>>,
           active' \in {active, NoOp},
           checkpoint' = checkpoint \/ (checkpoint' = NoOp /\ checkpoint = task[r].op),
           NetworkOK(checkpoint', previous', ssid', committed')
    PROVE  Inv'
<1>1. /\ Moves(r, "idle", NoOp)
      /\ op' \in [Ops -> OpRow]
      /\ \A o \in Ops : op'[o].state \in {op[o].state, "failed"}
      /\ networkState' \in NetworkStates
      /\ resetEpoch' = resetEpoch /\ held' = held
  BY StagingFailedLemma
<1>2. TypeOK'
  BY <1>1 DEF Inv, TypeOK, Moves, process
<1>3. RequestsOK'
  BY <1>1, MoveLemma DEF Inv, process, Detached, Undone, Waits
<1> QED
  BY <1>2, <1>3 DEF Inv

\* The answer to CheckpointCreate keeps the invariant.
LEMMA CheckpointCreatedInv ==
    ASSUME Inv, NEW r \in Requests, CheckpointCreated(r)
    PROVE  Inv'
<1> USE NoneAssumption DEF NoneAssumption
<1>0. /\ task[r].at = "cfg_checkpoint" /\ running /\ running' = running
      /\ task[r].op \in Ops /\ task[r].op # NoOp
  BY WorkerHasOperation DEF CheckpointCreated, At, Detached, process
<1>1. CASE /\ checkpoint = NoOp
           /\ checkpoint' = task[r].op
           /\ previous' = ssid
           /\ Goto(r, "cfg_activate")
           /\ UNCHANGED <<store, ssid, committed>>
  <2>1. Moves(r, "cfg_activate", task[r].op)
    BY <1>1, GotoMoves DEF Inv, TypeOK, Waits, ConfigureWaits
  <2>2. TypeOK'
    BY <1>0, <1>1, <2>1 DEF Inv, TypeOK, Moves, store, CheckpointCreated, process, adapter
  <2>3. /\ active # task[r].op
        /\ op[task[r].op].state # "succeeded"
        /\ op[task[r].op].state # "none"
        /\ \A q \in Requests \ {r} : task[q].op # task[r].op
    BY <1>0 DEF Inv, RequestsOK, StagingIsPrivate, UnusedIsUnknown, Preparing
  <2>4. op' = op /\ active' = active
    BY <1>1 DEF store, adapter, CheckpointCreated
  <2>5. \A q \in Requests \ {r} : task'[q] = task[q] /\ task[q].at # "cfg_activate"
    BY <1>1, <2>1 DEF Moves, Inv, RequestsOK, ActivationIsGuarded,
                      WorkersHaveOperation, Detached
  <2>6. task'[r].at = "cfg_activate" /\ task'[r].op = task[r].op
    BY <2>1 DEF Moves
  <2>7. StoppedIsIdle' /\ UnusedIsUnknown'
    BY <1>0, <1>1, <2>3, <2>4, <2>5, <2>6
    DEF Inv, RequestsOK, StoppedIsIdle, UnusedIsUnknown
  <2>8. StagingIsPrivate' /\ ActivationIsGuarded'
    <3>1. ASSUME NEW q \in Requests, Preparing(task', q)
          PROVE  /\ active' # task'[q].op
                 /\ op'[task'[q].op].state # "succeeded"
                 /\ \A p \in Requests \ {q} : task'[p].op # task'[q].op
      <4>1. \A p \in Requests : task'[p].op = task[p].op
        BY <2>5, <2>6
      <4>2. Preparing(task, q)
        BY <1>0, <2>5, <3>1 DEF Preparing
      <4>3. /\ active # task[q].op
            /\ op[task[q].op].state # "succeeded"
            /\ \A p \in Requests \ {q} : task[p].op # task[q].op
        BY <4>2 DEF Inv, RequestsOK, StagingIsPrivate
      <4> QED
        BY <2>4, <4>1, <4>3
    <3>2. StagingIsPrivate'
      BY <3>1 DEF StagingIsPrivate
    <3>3. ActivationIsGuarded'
      BY <1>1, <2>5, <2>6 DEF ActivationIsGuarded
    <3> QED
      BY <3>2, <3>3
  <2>9. ConfirmedIsUnguarded' /\ WorkersHaveOperation' /\ SucceededIsFinal'
    BY <1>0, <1>1, <2>3, <2>4, <2>5, <2>6
    DEF Inv, RequestsOK, ConfirmedIsUnguarded, WorkersHaveOperation,
        SucceededIsFinal, Detached
  <2>10. UndoneIsConfirmed'
    BY <1>1, <2>3, <2>5, <2>6 DEF UndoneIsConfirmed, Undone
  <2> QED
    BY <1>0, <1>1, <2>2, <2>7, <2>8, <2>9, <2>10 DEF Inv, RequestsOK, NetworkOK
<1>2. CASE StagingFailed(r) /\ UNCHANGED manager
  BY <1>0, <1>2, StagingFailedInv DEF Inv, CheckpointCreated, process, adapter, manager
<1>3. CASE Answer(r) /\ UNCHANGED <<store, manager>>
  BY <1>0, <1>3, AnswerInv DEF CheckpointCreated
<1> QED
  BY <1>1, <1>2, <1>3 DEF CheckpointCreated

\* So does the answer to AddAndActivateConnection2: the device may be on a new
\* network, and the checkpoint is there.
LEMMA ActivatedInv ==
    ASSUME Inv, NEW r \in Requests, Activated(r)
    PROVE  Inv'
<1>0. /\ task[r].at = "cfg_activate" /\ running
      /\ task[r].op \in Ops /\ checkpoint = task[r].op
  BY WorkerHasOperation
  DEF Activated, At, Detached, Inv, RequestsOK, ActivationIsGuarded
<1>1. op[task[r].op].target \in Ssids \cup {NoSsid}
  BY <1>0 DEF Inv, TypeOK, OpRow
<1>2. "cfg_activation" \in Waits /\ "cfg_undo_rollback" \in Waits
  BY DEF Waits, ConfigureWaits
<1>3. CASE /\ ssid' \in {op[task[r].op].target, NoSsid}
           /\ active' = task[r].op
           /\ Goto(r, "cfg_activation")
           /\ UNCHANGED <<checkpoint, previous, committed>>
  BY <1>0, <1>1, <1>2, <1>3, GotoInv, NoneAssumption
  DEF Activated, Inv, NetworkOK, NoneAssumption, Preparing, Undone
<1>4. CASE Goto(r, "cfg_undo_rollback") /\ UNCHANGED <<active, manager>>
  BY <1>0, <1>2, <1>4, GotoInv DEF Activated, Inv, TypeOK, manager, Undone
<1> QED
  BY <1>3, <1>4 DEF Activated

\* And every later step of the staging.
LEMMA ConfigureStepInv ==
    ASSUME Inv, NEW r \in Requests, ConfigureStep(r)
    PROVE  Inv'
<1> USE NoneAssumption DEF NoneAssumption
<1>0. /\ "cfg_undo_rollback" \in Waits /\ "cfg_snapshot" \in Waits
      /\ "cfg_undo_destroy" \in Waits
  BY DEF Waits, ConfigureWaits
<1>1. CASE ActivationPolled(r)
  <2>1. running /\ task[r].op \in Ops
    BY <1>1, WorkerHasOperation DEF ActivationPolled, At, Detached
  <2> QED
    BY <1>0, <1>1, <2>1, GotoInv DEF ActivationPolled, Inv, TypeOK, adapter, manager, Undone
<1>2. CASE UndoRollback(r)
  <2>1. running /\ task[r].op \in Ops
    BY <1>2, WorkerHasOperation DEF UndoRollback, At, Detached
  <2>2. CASE /\ checkpoint = task[r].op
             /\ ssid' = previous
             /\ Goto(r, "cfg_undo_destroy")
             /\ UNCHANGED <<store, active, checkpoint, previous, committed>>
    BY <1>0, <1>2, <2>1, <2>2, GotoInv DEF UndoRollback, Inv, TypeOK, NetworkOK
  <2>3. CASE StagingFailed(r) /\ active' = NoOp /\ UNCHANGED manager
    BY <1>2, <2>1, <2>3, StagingFailedInv DEF UndoRollback, Inv, manager
  <2> QED
    BY <1>2, <2>2, <2>3 DEF UndoRollback
<1>3. CASE UndoDestroy(r)
  <2>1. running /\ task[r].op \in Ops
    BY <1>3, WorkerHasOperation DEF UndoDestroy, At, Detached
  <2>2. checkpoint = task[r].op => ssid \in {committed, NoSsid}
    BY <1>3 DEF UndoDestroy, At, Inv, RequestsOK, UndoneIsConfirmed, Undone
  <2> QED
    BY <1>3, <2>1, <2>2, StagingFailedInv DEF UndoDestroy, Inv, NetworkOK
<1>4. CASE StagingDone(r)
  <2>1. running /\ task[r].op \in Ops
    BY <1>4, WorkerHasOperation DEF StagingDone, At, Detached
  <2>2. CASE StagingFailed(r)
    BY <1>4, <2>1, <2>2, StagingFailedInv DEF StagingDone, Inv, adapter, manager
  <2>3. CASE /\ UpdateOperation(task[r].op, "waiting_confirmation", "staging")
             /\ Answer(r)
    <3>1. Moves(r, "idle", NoOp)
      BY <2>3, AnswerMoves DEF Inv, TypeOK
    <3>2. "waiting_confirmation" \in OpStates /\ "staging" \in NetworkStates
      BY DEF OpStates, ActiveStates, NetworkStates, TransientStates
    <3>3. /\ op' \in [Ops -> OpRow]
          /\ op'[task[r].op].state = "waiting_confirmation"
          /\ \A x \in Ops \ {task[r].op} : op'[x] = op[x]
          /\ networkState' = "staging" /\ resetEpoch' = resetEpoch /\ held' = held
      BY <2>1, <2>3, <3>2, UpdateLemma DEF Inv, TypeOK
    <3>4. TypeOK'
      BY <1>4, <3>1, <3>2, <3>3 DEF Inv, TypeOK, Moves, StagingDone, process, adapter, manager
    <3>5. RequestsOK'
      BY <1>4, <2>1, <3>1, <3>3, MoveLemma
      DEF Inv, StagingDone, process, adapter, manager, Detached, Undone, Waits
    <3> QED
      BY <1>4, <3>4, <3>5 DEF Inv, StagingDone, manager
  <2> QED
    BY <1>4, <2>2, <2>3 DEF StagingDone
<1> QED
  BY <1>1, <1>2, <1>3, <1>4, CheckpointCreatedInv, ActivatedInv DEF ConfigureStep

\* Starting to work on the adapter's active operation keeps the invariant.
LEMMA EngageInv ==
    ASSUME Inv, running, NEW r \in Requests, NEW w \in Waits, active \in Ops,
           task' = [task EXCEPT ![r] = WorksOn(w, active)],
           w \notin {"cfg_checkpoint", "cfg_activate", "cnf_snapshot"} \cup Undone,
           op' \in [Ops -> OpRow], networkState' \in NetworkStates,
           resetEpoch' \in 0..MaxEpoch, held' \in BOOLEAN,
           \A o \in Ops : op'[o].state = "none" => op[o].state = "none",
           \A o \in Ops : op'[o].state = "succeeded" => op[o].state = "succeeded",
           UNCHANGED <<process, adapter, manager>>
    PROVE  Inv'
<1>1. Moves(r, w, active)
  <2>1. "unconfigured" \in NetworkStates
    BY DEF NetworkStates
  <2>2. task' = [task EXCEPT ![r] = [at |-> w, op |-> active, before |-> "unconfigured"]]
    BY DEF WorksOn
  <2>3. task \in [Requests -> Task]
    BY DEF Inv, TypeOK
  <2> QED
    BY <2>1, <2>2, <2>3, StartMoves, ZenonT(30)
<1>2. TypeOK'
  BY <1>1 DEF Inv, TypeOK, Moves, process, adapter, manager
<1>3. RequestsOK'
  BY <1>1, MoveLemma, ZenonT(30) DEF Inv, process, adapter, manager
<1> QED
  BY <1>2, <1>3 DEF Inv, manager

\* A row is written and nothing moves: the invariant only asks that no row
\* becomes unused or succeeded.
LEMMA RowsInv ==
    ASSUME Inv,
           op' \in [Ops -> OpRow], networkState' \in NetworkStates,
           resetEpoch' \in 0..MaxEpoch, held' \in BOOLEAN,
           \A o \in Ops : op'[o].state = "none" => op[o].state = "none",
           \A o \in Ops : op'[o].state = "succeeded" => op[o].state = "succeeded",
           UNCHANGED <<process, adapter, task, manager>>
    PROVE  Inv'
<1> USE DEF process, adapter, manager
<1>1. TypeOK'
  BY DEF Inv, TypeOK
<1>2. StoppedIsIdle' /\ UnusedIsUnknown' /\ SucceededIsFinal'
  BY DEF Inv, RequestsOK, StoppedIsIdle, UnusedIsUnknown, SucceededIsFinal
<1>3. StagingIsPrivate'
  BY DEF Inv, RequestsOK, StagingIsPrivate, WorkersHaveOperation, Preparing, Detached
<1>4. ActivationIsGuarded' /\ ConfirmedIsUnguarded' /\ UndoneIsConfirmed'
      /\ WorkersHaveOperation'
  BY DEF Inv, RequestsOK, ActivationIsGuarded, ConfirmedIsUnguarded, UndoneIsConfirmed,
         WorkersHaveOperation
<1> QED
  BY <1>1, <1>2, <1>3, <1>4 DEF Inv, RequestsOK

\* confirm_network keeps the invariant: what it confirms is the network the
\* device is on, at the moment the checkpoint goes.
LEMMA ConfirmStepInv ==
    ASSUME Inv, NEW r \in Requests, ConfirmStep(r)
    PROVE  Inv'
<1> USE NoneAssumption DEF NoneAssumption
<1>0. {"cnf_destroy", "cnf_snapshot", "idle"} \subseteq Waits
  BY DEF Waits, ConfirmWaits
<1>1. running /\ task[r].op \in Ops
  BY WorkerHasOperation
  DEF ConfirmStep, ConfirmSsidRead, ConfirmDestroyed, ConfirmDone, At, Detached
<1>2. CASE ConfirmSsidRead(r)
  <2>1. CASE Goto(r, "cnf_destroy")
    BY <1>0, <1>1, <1>2, <2>1, GotoInv
    DEF ConfirmSsidRead, Inv, TypeOK, adapter, manager, Undone
  <2>2. CASE Answer(r)
    BY <1>1, <1>2, <2>2, AnswerInv DEF ConfirmSsidRead
  <2> QED
    BY <1>2, <2>1, <2>2 DEF ConfirmSsidRead
<1>3. CASE ConfirmDestroyed(r)
  <2>1. CASE /\ checkpoint = task[r].op
             /\ checkpoint' = NoOp
             /\ committed' = ssid
             /\ active' = NoOp
             /\ Goto(r, "cnf_snapshot")
             /\ UNCHANGED <<ssid, previous>>
    <3>1. Moves(r, "cnf_snapshot", task[r].op)
      BY <1>0, <2>1, GotoMoves DEF Inv, TypeOK
    <3>2. TypeOK'
      BY <1>3, <2>1, <3>1 DEF ConfirmDestroyed, Inv, TypeOK, Moves, process, store
    <3>3. RequestsOK'
      BY <1>0, <1>1, <1>3, <2>1, <3>1, MoveLemma
      DEF ConfirmDestroyed, Inv, process, store, Undone
    <3> QED
      BY <2>1, <3>2, <3>3 DEF Inv, NetworkOK
  <2>2. CASE Answer(r) /\ UNCHANGED <<active, manager>>
    BY <1>1, <1>3, <2>2, AnswerInv DEF ConfirmDestroyed, adapter
  <2> QED
    BY <1>3, <2>1, <2>2 DEF ConfirmDestroyed
<1>4. CASE ConfirmDone(r)
  <2>1. CASE UNCHANGED store
    BY <1>1, <1>4, <2>1, AnswerInv DEF ConfirmDone
  <2>2. CASE UpdateOperation(task[r].op, "succeeded", "connected")
    <3>1. Moves(r, "idle", NoOp)
      BY <1>4, AnswerMoves DEF ConfirmDone, Inv, TypeOK
    <3>2. "succeeded" \in OpStates /\ "connected" \in NetworkStates
      BY DEF OpStates, NetworkStates
    <3>3. /\ op' \in [Ops -> OpRow]
          /\ op'[task[r].op].state = "succeeded"
          /\ \A x \in Ops \ {task[r].op} : op'[x] = op[x]
          /\ networkState' = "connected" /\ resetEpoch' = resetEpoch /\ held' = held
      BY <1>1, <2>2, <3>2, UpdateLemma DEF Inv, TypeOK
    <3>4. checkpoint # task[r].op
      BY <1>4 DEF ConfirmDone, At, Inv, RequestsOK, ConfirmedIsUnguarded
    <3>5. TypeOK'
      BY <1>4, <3>1, <3>2, <3>3
      DEF Inv, TypeOK, Moves, ConfirmDone, process, adapter, manager
    <3>6. RequestsOK'
      BY <1>0, <1>1, <1>4, <3>1, <3>3, <3>4, MoveLemma
      DEF Inv, ConfirmDone, process, adapter, manager, Detached, Undone
    <3> QED
      BY <1>4, <3>5, <3>6 DEF Inv, ConfirmDone, manager
  <2> QED
    BY <1>4, <2>1, <2>2 DEF ConfirmDone
<1> QED
  BY <1>2, <1>3, <1>4 DEF ConfirmStep

\* What the adapter reports of the network is a network state.
LEMMA SnapshotType == \A a : Snapshot(a) \in NetworkStates
  BY DEF Snapshot, NetworkStates, TransientStates

\* rollback_network keeps the invariant.
LEMMA RollbackStepInv ==
    ASSUME Inv, NEW r \in Requests, RollbackStep(r)
    PROVE  Inv'
<1> USE NoneAssumption DEF NoneAssumption
<1>0. {"rbk_destroy", "rbk_snapshot", "idle"} \subseteq Waits
  BY DEF Waits, RollbackWaits
<1>1. running /\ task[r].op \in Ops
  BY WorkerHasOperation
  DEF RollbackStep, RollbackCalled, RollbackDestroyed, RollbackDone, At, Detached
<1>2. CASE RollbackCalled(r)
  <2>1. CASE /\ checkpoint = task[r].op
             /\ ssid' = previous
             /\ Goto(r, "rbk_destroy")
             /\ UNCHANGED <<checkpoint, previous, committed>>
    BY <1>0, <1>1, <1>2, <2>1, GotoInv DEF RollbackCalled, Inv, TypeOK, adapter, NetworkOK
  <2>2. CASE Answer(r) /\ UNCHANGED manager
    BY <1>1, <1>2, <2>2, AnswerInv DEF RollbackCalled
  <2> QED
    BY <1>2, <2>1, <2>2 DEF RollbackCalled
<1>3. CASE RollbackDestroyed(r)
  <2>1. CASE /\ checkpoint = task[r].op
             /\ checkpoint' = NoOp
             /\ active' = NoOp
             /\ Goto(r, "rbk_snapshot")
             /\ UNCHANGED <<ssid, previous, committed>>
    <3>1. ssid \in {committed, NoSsid}
      <4>1. task[r].at \in Undone
        BY <1>3 DEF RollbackDestroyed, At, Undone
      <4> QED
        BY <2>1, <4>1 DEF Inv, RequestsOK, UndoneIsConfirmed
    <3> QED
      BY <1>0, <1>1, <1>3, <2>1, <3>1, GotoInv
      DEF RollbackDestroyed, Inv, TypeOK, NetworkOK, Undone
  <2>2. CASE Answer(r) /\ UNCHANGED <<active, manager>>
    BY <1>1, <1>3, <2>2, AnswerInv DEF RollbackDestroyed, adapter
  <2> QED
    BY <1>3, <2>1, <2>2 DEF RollbackDestroyed
<1>4. CASE RollbackDone(r)
  <2>1. CASE UNCHANGED store
    BY <1>1, <1>4, <2>1, AnswerInv DEF RollbackDone
  <2>2. CASE UpdateOperation(task[r].op, "failed", Snapshot(active))
    <3>1. Moves(r, "idle", NoOp)
      BY <1>4, AnswerMoves DEF RollbackDone, Inv, TypeOK
    <3>2. "failed" \in OpStates
      BY DEF OpStates
    <3>3. /\ op' \in [Ops -> OpRow]
          /\ op'[task[r].op].state = "failed"
          /\ \A x \in Ops \ {task[r].op} : op'[x] = op[x]
          /\ networkState' \in NetworkStates /\ resetEpoch' = resetEpoch /\ held' = held
      <4>1. op \in [Ops -> OpRow] /\ Snapshot(active) \in NetworkStates
        BY SnapshotType DEF Inv, TypeOK
      <4>2. /\ op' \in [Ops -> OpRow]
            /\ op'[task[r].op].state = "failed"
            /\ \A x \in Ops \ {task[r].op} : op'[x] = op[x]
            /\ networkState' = Snapshot(active) /\ resetEpoch' = resetEpoch /\ held' = held
        BY <1>1, <2>2, <3>2, <4>1, UpdateLemma
      <4> QED
        BY <4>1, <4>2
    <3>4. TypeOK'
      BY <1>4, <3>1, <3>3 DEF Inv, TypeOK, Moves, RollbackDone, process, adapter, manager
    <3>5. RequestsOK'
      BY <1>0, <1>1, <1>4, <3>1, <3>3, MoveLemma
      DEF Inv, RollbackDone, process, adapter, manager, Detached, Undone
    <3> QED
      BY <1>4, <3>4, <3>5 DEF Inv, RollbackDone, manager
  <2> QED
    BY <1>4, <2>1, <2>2 DEF RollbackDone
<1> QED
  BY <1>2, <1>3, <1>4 DEF RollbackStep

\* Failing every active operation creates and completes none.
LEMMA FailActiveLemma ==
    ASSUME op \in [Ops -> OpRow],
           op' = [o \in Ops |-> IF op[o].state \in ActiveStates
                                THEN [op[o] EXCEPT !.state = "failed"] ELSE op[o]]
    PROVE  /\ op' \in [Ops -> OpRow]
           /\ \A o \in Ops : op'[o].state \in {op[o].state, "failed"}
<1>1. \A o \in Ops : /\ [op[o] EXCEPT !.state = "failed"] \in OpRow
                      /\ [op[o] EXCEPT !.state = "failed"].state = "failed"
  BY DEF OpRow, OpStates
<1> QED
  BY <1>1

\* reset_authority, seen from the rows.
LEMMA ResetLemma ==
    ASSUME Inv, NEW n \in NetworkStates, ResetAuthority(n)
    PROVE  /\ op' \in [Ops -> OpRow]
           /\ \A o \in Ops : op'[o].state \in {op[o].state, "failed"}
           /\ networkState' \in NetworkStates
           /\ resetEpoch' \in 0..MaxEpoch /\ held' \in BOOLEAN
<1>1. resetEpoch' \in 0..MaxEpoch
  BY BoundsAssumption DEF BoundsAssumption, ResetAuthority, Inv, TypeOK
<1>2. held' = FALSE /\ networkState' = n
  BY DEF ResetAuthority
<1>3. /\ op' \in [Ops -> OpRow]
      /\ \A o \in Ops : op'[o].state \in {op[o].state, "failed"}
  BY FailActiveLemma DEF ResetAuthority, Inv, TypeOK
<1> QED
  BY <1>1, <1>2, <1>3, Zenon

\* The development reset keeps the invariant up to the deletion of profiles.
LEMMA DevelopmentResetDoneInv ==
    ASSUME Inv, NEW r \in Requests, DevelopmentResetDone(r)
    PROVE  Inv'
<1> USE NoneAssumption DEF NoneAssumption
<1>0. {"fgt_rollback", "fgt_delete", "idle"} \subseteq Waits
  BY DEF Waits, ResetWaits
<1>1. running /\ UNCHANGED <<process, adapter, manager>>
  BY DEF DevelopmentResetDone, At
<1>2. CASE Answer(r) /\ UNCHANGED store
  BY <1>1, <1>2, AnswerInv DEF DevelopmentResetDone
<1>3. CASE ResetAuthority(Snapshot(active))
  <2>1. /\ op' \in [Ops -> OpRow]
        /\ \A o \in Ops : op'[o].state \in {op[o].state, "failed"}
        /\ networkState' \in NetworkStates
        /\ resetEpoch' \in 0..MaxEpoch /\ held' \in BOOLEAN
    BY <1>3, ResetLemma, SnapshotType
  <2>2. ASSUME NEW w \in {"idle", "fgt_delete"}, NEW x \in {NoOp, task[r].op},
               Moves(r, w, x)
        PROVE  Inv'
    <3>1. x \in Ops \cup {NoOp}
      BY DEF Inv, TypeOK, Task
    <3>2. TypeOK'
      BY <1>1, <2>1, <2>2 DEF Inv, TypeOK, Moves, process, adapter, manager
    <3>3. RequestsOK'
      BY <1>0, <1>1, <2>1, <2>2, <3>1, MoveLemma, ZenonT(30)
      DEF Inv, process, adapter, manager, Detached, Undone
    <3> QED
      BY <1>1, <3>2, <3>3 DEF Inv, manager
  <2>3. CASE Answer(r)
    <3>1. Moves(r, "idle", NoOp)
      BY <2>3, AnswerMoves DEF Inv, TypeOK
    <3> QED
      BY <2>2, <3>1
  <2>4. CASE Goto(r, "fgt_delete")
    <3>1. Moves(r, "fgt_delete", task[r].op)
      BY <1>0, <2>4, GotoMoves DEF Inv, TypeOK
    <3> QED
      BY <2>2, <3>1
  <2>5. CASE active # NoOp /\ task' = [task EXCEPT ![r] = WorksOn("fgt_rollback", active)]
    <3>1. active \in Ops
      BY <2>5 DEF Inv, TypeOK
    <3>2. "fgt_rollback" \notin {"cfg_checkpoint", "cfg_activate", "cnf_snapshot"} \cup Undone
      BY DEF Undone
    <3>3. /\ \A o \in Ops : op'[o].state = "none" => op[o].state = "none"
          /\ \A o \in Ops : op'[o].state = "succeeded" => op[o].state = "succeeded"
      BY <2>1
    <3>4. "fgt_rollback" \in Waits
      BY <1>0
    <3> QED
      BY <1>1, <2>1, <2>5, <3>1, <3>2, <3>3, <3>4, EngageInv, ZenonT(30)
  <2> QED
    BY <1>3, <1>2, <2>3, <2>4, <2>5 DEF DevelopmentResetDone
<1> QED
  BY <1>2, <1>3 DEF DevelopmentResetDone

\* And through the deletion.
LEMMA ResetStepInv ==
    ASSUME Inv, NEW r \in Requests, ResetStep(r)
    PROVE  Inv'
<1> USE NoneAssumption DEF NoneAssumption
<1>0. {"fgt_destroy", "fgt_snapshot", "fgt_delete", "fgt_reconcile", "idle"} \subseteq Waits
  BY DEF Waits, ResetWaits
<1>1. CASE ForgetRolledBack(r)
  <2>1. running /\ task[r].op \in Ops
    BY <1>1, WorkerHasOperation DEF ForgetRolledBack, At, Detached
  <2>2. CASE /\ checkpoint = task[r].op
             /\ ssid' = previous
             /\ Goto(r, "fgt_destroy")
             /\ UNCHANGED <<checkpoint, previous, committed>>
    BY <1>0, <1>1, <2>1, <2>2, GotoInv DEF ForgetRolledBack, Inv, TypeOK, adapter, NetworkOK
  <2>3. CASE Goto(r, "fgt_reconcile") /\ UNCHANGED manager
    BY <1>0, <1>1, <2>1, <2>3, GotoInv, ZenonT(30)
    DEF ForgetRolledBack, Inv, TypeOK, adapter, manager, Undone
  <2> QED
    BY <1>1, <2>2, <2>3 DEF ForgetRolledBack
<1>2. CASE ForgetDestroyed(r)
  <2>1. running /\ task[r].op \in Ops
    BY <1>2, WorkerHasOperation DEF ForgetDestroyed, At, Detached
  <2>2. CASE /\ checkpoint = task[r].op
             /\ checkpoint' = NoOp
             /\ active' = NoOp
             /\ Goto(r, "fgt_snapshot")
             /\ UNCHANGED <<ssid, previous, committed>>
    <3>1. ssid \in {committed, NoSsid}
      <4>1. task[r].at \in Undone
        BY <1>2 DEF ForgetDestroyed, At, Undone
      <4> QED
        BY <2>2, <4>1 DEF Inv, RequestsOK, UndoneIsConfirmed
    <3> QED
      BY <1>0, <1>2, <2>1, <2>2, <3>1, GotoInv
      DEF ForgetDestroyed, Inv, TypeOK, NetworkOK, Undone
  <2>3. CASE Goto(r, "fgt_reconcile") /\ UNCHANGED <<active, manager>>
    BY <1>0, <1>2, <2>1, <2>3, GotoInv DEF ForgetDestroyed, Inv, TypeOK, manager, Undone
  <2> QED
    BY <1>2, <2>2, <2>3 DEF ForgetDestroyed
<1>3. CASE ForgetSnapshot(r)
  <2>1. ASSUME NEW w \in {"fgt_delete", "fgt_reconcile"}, Goto(r, w)
        PROVE  Inv'
    BY <1>0, <1>3, <2>1, GotoInv, ZenonT(30)
    DEF ForgetSnapshot, At, Inv, TypeOK, adapter, manager, Undone, Detached
  <2> QED
    BY <1>3, <2>1 DEF ForgetSnapshot
<1>4. CASE ProfilesDeleted(r)
  <2>1. running
    BY <1>4 DEF ProfilesDeleted, At
  <2>2. CASE /\ ssid' = NoSsid
             /\ active' = NoOp
             /\ networkState' = "unconfigured"
             /\ Answer(r)
             /\ UNCHANGED <<op, resetEpoch, held>>
    <3>1. Moves(r, "idle", NoOp)
      BY <2>2, AnswerMoves DEF Inv, TypeOK
    <3>2. TypeOK'
      BY <1>4, <2>2, <3>1 DEF ProfilesDeleted, Inv, TypeOK, Moves, process, NetworkStates
    <3>3. RequestsOK'
      BY <1>0, <1>4, <2>1, <2>2, <3>1, MoveLemma, ZenonT(30)
      DEF ProfilesDeleted, Inv, process, Undone, Detached
    <3> QED
      BY <1>4, <2>2, <3>2, <3>3 DEF ProfilesDeleted, Inv, NetworkOK
  <2>3. CASE /\ ssid' \in {ssid, NoSsid}
             /\ Goto(r, "fgt_reconcile")
             /\ UNCHANGED <<active, store>>
    BY <1>0, <1>4, <2>1, <2>3, GotoInv
    DEF ProfilesDeleted, Inv, TypeOK, NetworkOK, Undone, Detached
  <2> QED
    BY <1>4, <2>2, <2>3 DEF ProfilesDeleted
<1>5. CASE ForgetReconciled(r)
  <2>1. Moves(r, "idle", NoOp) /\ running
    BY <1>5, AnswerMoves DEF ForgetReconciled, At, Inv, TypeOK
  <2>2. TypeOK'
    <3>1. networkState' \in NetworkStates
      BY <1>5, SnapshotType DEF ForgetReconciled, Inv, TypeOK
    <3> QED
      BY <1>5, <2>1, <3>1, ZenonT(30) DEF ForgetReconciled, Inv, TypeOK, Moves, process, adapter, manager
  <2>3. RequestsOK'
    BY <1>0, <1>5, <2>1, MoveLemma, ZenonT(30)
    DEF ForgetReconciled, Inv, process, adapter, manager, Undone, Detached
  <2> QED
    BY <1>5, <2>2, <2>3 DEF ForgetReconciled, Inv, manager
<1> QED
  BY <1>1, <1>2, <1>3, <1>4, <1>5, DevelopmentResetDoneInv DEF ResetStep

-----------------------------------------------------------------------------
(* What starts a request, and what cuts across them.                        *)

\* A new operation keeps the invariant: nobody knows it yet.
LEMMA ConfigureInv ==
    ASSUME Inv, NEW r \in Requests, NEW o \in Ops, NEW s \in Ssids, Configure(r, o, s)
    PROVE  Inv'
<1> USE NoneAssumption DEF NoneAssumption
<1>0. /\ running /\ op[o].state = "none" /\ active # o /\ checkpoint # o
      /\ \A q \in Requests : task[q].op # o
  BY DEF Configure, Inv, RequestsOK, UnusedIsUnknown
<1>1. ASSUME NEW st \in {"failed", "running"},
             op' = [op EXCEPT ![o] = [state |-> st, target |-> s, epoch |-> resetEpoch]]
      PROVE  /\ op' \in [Ops -> OpRow]
             /\ op'[o].state = st
             /\ \A x \in Ops \ {o} : op'[x] = op[x]
  <2>1. [state |-> st, target |-> s, epoch |-> resetEpoch] \in OpRow
    BY DEF Inv, TypeOK, OpRow, OpStates, ActiveStates
  <2> QED
    BY <1>1, <2>1 DEF Inv, TypeOK
<1>2. CASE active # NoOp \/ ~recovered
  <2>1. /\ op' \in [Ops -> OpRow] /\ op'[o].state = "failed"
        /\ \A x \in Ops \ {o} : op'[x] = op[x]
    BY <1>1, <1>2 DEF Configure
  <2> QED
    BY <1>2, <2>1, FallbackType, RowsInv, ZenonT(30) DEF Configure, Inv, TypeOK
<1>3. CASE ~(active # NoOp \/ ~recovered)
  <2>1. /\ op' \in [Ops -> OpRow] /\ op'[o].state = "running"
        /\ \A x \in Ops \ {o} : op'[x] = op[x]
    BY <1>1, <1>3 DEF Configure
  <2>2. Moves(r, "cfg_checkpoint", o)
    <3>1. "cfg_checkpoint" \in Waits
      BY DEF Waits, ConfigureWaits
    <3> QED
      BY <1>3, <3>1, StartMoves DEF Configure, Inv, TypeOK
  <2>3. TypeOK'
    BY <1>3, <2>1, <2>2
    DEF Configure, Inv, TypeOK, Moves, process, adapter, manager, NetworkStates, TransientStates
  <2>4. /\ \A q \in Requests \ {r} : task'[q] = task[q]
        /\ task'[r].at = "cfg_checkpoint" /\ task'[r].op = o
    BY <2>2 DEF Moves
  <2>5. UNCHANGED <<running, active, checkpoint, previous, ssid, committed>>
    BY DEF Configure, process, adapter, manager
  <2>6. StoppedIsIdle' /\ UnusedIsUnknown' /\ SucceededIsFinal'
    <3>1. StoppedIsIdle'
      BY <1>0, <2>5 DEF StoppedIsIdle
    <3>2. UnusedIsUnknown'
      <4> SUFFICES ASSUME NEW x \in Ops, op'[x].state = "none"
                   PROVE  /\ active' # x /\ checkpoint' # x
                          /\ \A q \in Requests : task'[q].op # x
        BY DEF UnusedIsUnknown
      <4>1. x # o /\ op[x].state = "none"
        BY <2>1
      <4>2. /\ active # x /\ checkpoint # x
            /\ \A q \in Requests : task[q].op # x
        BY <4>1 DEF Inv, RequestsOK, UnusedIsUnknown
      <4> QED
        BY <2>4, <2>5, <4>1, <4>2, ZenonT(30)
    <3>3. SucceededIsFinal'
      BY <2>1, <2>5 DEF Inv, RequestsOK, SucceededIsFinal
    <3> QED
      BY <3>1, <3>2, <3>3
  <2>7. StagingIsPrivate'
    <3> SUFFICES ASSUME NEW q \in Requests, Preparing(task', q)
                 PROVE  /\ active' # task'[q].op
                        /\ op'[task'[q].op].state # "succeeded"
                        /\ \A p \in Requests \ {q} : task'[p].op # task'[q].op
      BY DEF StagingIsPrivate
    <3>1. CASE q = r
      BY <1>0, <2>1, <2>4, <2>5, <3>1
    <3>2. CASE q # r
      <4>1. task'[q] = task[q] /\ Preparing(task, q)
        BY <2>4, <3>2 DEF Preparing
      <4>2. task[q].op \in Ops
        BY <4>1 DEF Inv, RequestsOK, WorkersHaveOperation, Preparing, Detached
      <4>3. /\ active # task[q].op
            /\ op[task[q].op].state # "succeeded"
            /\ \A p \in Requests \ {q} : task[p].op # task[q].op
        BY <4>1 DEF Inv, RequestsOK, StagingIsPrivate
      <4>4. task[q].op # o
        BY <1>0
      <4> QED
        <5>1. active' # task'[q].op
          BY <2>5, <4>1, <4>3
        <5>2. op'[task'[q].op] = op[task[q].op]
          BY <2>1, <4>1, <4>2, <4>4
        <5>3. ASSUME NEW p \in Requests \ {q} PROVE task'[p].op # task'[q].op
          <6>1. CASE p = r
            BY <2>4, <4>1, <4>4, <6>1
          <6>2. CASE p # r
            BY <2>4, <4>1, <4>3, <6>2
          <6> QED
            BY <6>1, <6>2
        <5> QED
          BY <4>3, <5>1, <5>2, <5>3
    <3> QED
      BY <3>1, <3>2
  <2>8. ActivationIsGuarded' /\ ConfirmedIsUnguarded' /\ UndoneIsConfirmed'
        /\ WorkersHaveOperation'
    BY <2>4, <2>5
    DEF Inv, RequestsOK, ActivationIsGuarded, ConfirmedIsUnguarded, UndoneIsConfirmed,
        WorkersHaveOperation, Undone
  <2> QED
    BY <2>3, <2>5, <2>6, <2>7, <2>8 DEF Inv, RequestsOK
<1> QED
  BY <1>2, <1>3

\* Whatever a phone asks for keeps the invariant.
LEMMA PhoneInv ==
    ASSUME Inv, Phone
    PROVE  Inv'
<1> USE NoneAssumption DEF NoneAssumption
<1>1. CASE Claimed
  BY <1>1, RowsInv DEF Claimed, Inv, TypeOK
<1>2. ASSUME NEW r \in Requests, NEW o \in Ops, Confirm(r, o)
      PROVE  Inv'
  <2>1. "cnf_ssid" \in Waits
    BY DEF Waits, ConfirmWaits
  <2>2. Inv'
    <3>1. /\ running /\ active = o /\ task' = [task EXCEPT ![r] = WorksOn("cnf_ssid", active)]
          /\ UNCHANGED <<op, networkState, resetEpoch, held, process, adapter, manager>>
      BY <1>2 DEF Confirm, store
    <3>2. "cnf_ssid" \notin {"cfg_checkpoint", "cfg_activate", "cnf_snapshot"} \cup Undone
      BY DEF Undone
    <3> QED
      BY <2>1, <3>1, <3>2, EngageInv, ZenonT(30) DEF Inv, TypeOK
  <2> QED
    BY <2>2
<1>3. ASSUME NEW r \in Requests, NEW o \in Ops, Rollback(r, o)
      PROVE  Inv'
  <2>1. "compensating" \in OpStates /\ "rolling_back" \in NetworkStates
        /\ "rbk_rollback" \in Waits
    BY DEF OpStates, ActiveStates, NetworkStates, TransientStates, Waits, RollbackWaits
  <2>2. /\ op' \in [Ops -> OpRow]
        /\ op'[o].state = "compensating"
        /\ \A x \in Ops \ {o} : op'[x] = op[x]
        /\ networkState' = "rolling_back" /\ resetEpoch' = resetEpoch /\ held' = held
    <3>1. UpdateOperation(o, "compensating", "rolling_back")
      BY <1>3, ZenonT(30) DEF Rollback
    <3> QED
      BY <2>1, <3>1, UpdateLemma DEF Inv, TypeOK
  <2>3. CASE active = o
    BY <1>3, <2>1, <2>2, <2>3, EngageInv DEF Rollback, Inv, TypeOK, Undone
  <2>4. CASE active # o
    BY <1>3, <2>1, <2>2, <2>4, RowsInv DEF Rollback, Inv, TypeOK
  <2> QED
    BY <2>3, <2>4
<1> QED
  BY <1>1, <1>2, <1>3, ConfigureInv DEF Phone

\* So does whatever the operator asks for.
LEMMA OperatorInv ==
    ASSUME Inv, Operator
    PROVE  Inv'
<1>1. CASE ControllerReset
  <2>1. /\ op' \in [Ops -> OpRow]
        /\ \A o \in Ops : op'[o].state \in {op[o].state, "failed"}
        /\ networkState' \in NetworkStates
        /\ resetEpoch' \in 0..MaxEpoch /\ held' \in BOOLEAN
    BY <1>1, ResetLemma DEF ControllerReset, Inv, TypeOK
  <2>2. UNCHANGED <<process, adapter, task, manager>>
    BY <1>1 DEF ControllerReset
  <2> QED
    BY <2>1, <2>2, RowsInv, ZenonT(30)
<1>2. ASSUME NEW r \in Requests, DevelopmentReset(r)
      PROVE  Inv'
  <2>1. "rst_snapshot" \in Waits
    BY DEF Waits, ResetWaits
  <2> QED
    BY <1>2, <2>1, GotoInv
    DEF DevelopmentReset, Inv, TypeOK, adapter, manager, Undone, Detached
<1> QED
  BY <1>1, <1>2 DEF Operator

\* With no request in flight, little is left of the invariant.
LEMMA IdleRequestsOK ==
    ASSUME \A r \in Requests : task[r] = Idle,
           \A o \in Ops : op[o].state = "none" => active # o /\ checkpoint # o,
           SucceededIsFinal
    PROVE  RequestsOK
<1>1. \A r \in Requests : task[r].at = "idle" /\ task[r].op = NoOp
  BY IdleIsTask
<1>2. UnusedIsUnknown
  BY <1>1, NoneAssumption DEF UnusedIsUnknown, NoneAssumption
<1>3. StoppedIsIdle /\ StagingIsPrivate /\ ActivationIsGuarded
  BY <1>1 DEF StoppedIsIdle, StagingIsPrivate, ActivationIsGuarded, Preparing
<1>4. ConfirmedIsUnguarded /\ UndoneIsConfirmed /\ WorkersHaveOperation
  BY <1>1 DEF ConfirmedIsUnguarded, UndoneIsConfirmed, WorkersHaveOperation, Undone, Detached
<1> QED
  BY <1>2, <1>3, <1>4 DEF RequestsOK

\* The same of the state a step leads to.
LEMMA IdleRequestsOKNext ==
    ASSUME \A r \in Requests : task'[r] = Idle,
           \A o \in Ops : op'[o].state = "none" => active' # o /\ checkpoint' # o,
           SucceededIsFinal'
    PROVE  RequestsOK'
<1>1. \A r \in Requests : task'[r].at = "idle" /\ task'[r].op = NoOp
  BY IdleIsTask
<1>2. UnusedIsUnknown'
  BY <1>1, NoneAssumption DEF UnusedIsUnknown, NoneAssumption
<1>3. StoppedIsIdle' /\ StagingIsPrivate' /\ ActivationIsGuarded'
  BY <1>1 DEF StoppedIsIdle, StagingIsPrivate, ActivationIsGuarded, Preparing
<1>4. ConfirmedIsUnguarded' /\ UndoneIsConfirmed' /\ WorkersHaveOperation'
  BY <1>1 DEF ConfirmedIsUnguarded, UndoneIsConfirmed, WorkersHaveOperation, Undone, Detached
<1> QED
  BY <1>2, <1>3, <1>4 DEF RequestsOK

\* The daemon may die and come back anywhere.
LEMMA DaemonInv ==
    ASSUME Inv, Daemon
    PROVE  Inv'
<1> USE NoneAssumption DEF NoneAssumption
<1>0. [r \in Requests |-> Idle] \in [Requests -> Task]
  BY IdleIsTask
<1>1. CASE Start
  <2>1. /\ op' \in [Ops -> OpRow]
        /\ \A o \in Ops : op'[o].state \in {op[o].state, "failed"}
    BY <1>1, FailActiveLemma DEF Start, Inv, TypeOK
  <2>2. \A r \in Requests : task'[r] = Idle
    BY <1>1 DEF Start, Inv, RequestsOK, StoppedIsIdle
  <2>3. networkState' \in NetworkStates
    BY <1>1 DEF Start, Inv, TypeOK, NetworkStates
  <2>4. /\ checkpoint' \in {checkpoint, NoOp}
        /\ ssid' \in {ssid, previous}
        /\ recovered' \in BOOLEAN
        /\ NetworkOK(checkpoint', previous, ssid', committed)
    <3>1. RecoverInterrupted \/ RecoveryFails
      BY <1>1 DEF Start
    <3>2. CASE RecoverInterrupted
      <4>1. recovered' = TRUE
        BY <3>2 DEF RecoverInterrupted
      <4>2. /\ checkpoint' \in {checkpoint, NoOp} /\ ssid' \in {ssid, previous}
            /\ NetworkOK(checkpoint', previous, ssid', committed)
        BY <3>2 DEF RecoverInterrupted, Inv, NetworkOK
      <4> QED
        BY <4>1, <4>2, Zenon
    <3>3. CASE RecoveryFails
      <4>1. recovered' = FALSE
        BY <3>3 DEF RecoveryFails
      <4>2. /\ checkpoint' \in {checkpoint, NoOp} /\ ssid' \in {ssid, previous}
            /\ NetworkOK(checkpoint', previous, ssid', committed)
        BY <3>3 DEF RecoveryFails, Inv, NetworkOK
      <4> QED
        BY <4>1, <4>2, Zenon
    <3> QED
      BY <3>1, <3>2, <3>3
  <2>5. TypeOK'
    BY <1>1, <2>1, <2>3, <2>4 DEF Start, Inv, TypeOK
  <2>6. RequestsOK'
    BY <1>1, <2>1, <2>2, <2>4, IdleRequestsOKNext
    DEF Start, Inv, RequestsOK, UnusedIsUnknown, SucceededIsFinal
  <2> QED
    BY <1>1, <2>4, <2>5, <2>6 DEF Start, Inv
<1>2. CASE Stop
  <2>1. restarts' \in 0..MaxRestarts
    BY <1>2, BoundsAssumption DEF Stop, Inv, TypeOK, BoundsAssumption
  <2>2. TypeOK'
    <3>1. running' = FALSE /\ recovered' = TRUE
      BY <1>2 DEF Stop
    <3>2. running' \in BOOLEAN /\ recovered' \in BOOLEAN
      BY <3>1, Zenon
    <3> QED
      BY <1>0, <1>2, <2>1, <3>2 DEF Stop, Inv, TypeOK, store, manager
  <2>3. RequestsOK'
    BY <1>2, IdleRequestsOKNext
    DEF Stop, Inv, RequestsOK, UnusedIsUnknown, SucceededIsFinal, store, manager
  <2> QED
    BY <1>2, <2>2, <2>3 DEF Stop, Inv, manager
<1>3. ASSUME NEW o \in Ops, NEW s \in Ssids, CrashAfterCreate(o, s)
      PROVE  Inv'
  <2>1. [state |-> "pending", target |-> s, epoch |-> resetEpoch] \in OpRow
    BY DEF Inv, TypeOK, OpRow, OpStates, ActiveStates
  <2>2. /\ op' \in [Ops -> OpRow] /\ op'[o].state = "pending"
        /\ \A x \in Ops \ {o} : op'[x] = op[x]
    BY <1>3, <2>1 DEF CrashAfterCreate, Inv, TypeOK
  <2>3. TypeOK'
    <3>1. running' = FALSE /\ recovered' = TRUE
      BY <1>3 DEF CrashAfterCreate
    <3>2. running' \in BOOLEAN /\ recovered' \in BOOLEAN
      BY <3>1, Zenon
    <3> QED
      BY <1>0, <1>3, <2>2, <3>2 DEF CrashAfterCreate, Inv, TypeOK, manager
  <2>4. RequestsOK'
    <3>1. /\ task' = [r \in Requests |-> Idle]
          /\ active' = NoOp /\ checkpoint' = checkpoint
      BY <1>3 DEF CrashAfterCreate, manager
    <3> QED
      BY <2>2, <3>1, IdleRequestsOKNext, ZenonT(30) DEF Inv, RequestsOK, UnusedIsUnknown, SucceededIsFinal
  <2> QED
    BY <1>3, <2>3, <2>4 DEF CrashAfterCreate, Inv, manager
<1> QED
  BY <1>1, <1>2, <1>3 DEF Daemon

\* NetworkManager's timer returns the device to a confirmed network.
LEMMA CheckpointTimeoutInv ==
    ASSUME Inv, CheckpointTimeout
    PROVE  Inv'
<1> USE NoneAssumption DEF NoneAssumption, store, process, adapter
<1>1. TypeOK'
  BY DEF CheckpointTimeout, Inv, TypeOK
<1>2. UnusedIsUnknown' /\ SucceededIsFinal'
  BY DEF CheckpointTimeout, Inv, RequestsOK, UnusedIsUnknown, SucceededIsFinal
<1>5. StoppedIsIdle' /\ WorkersHaveOperation'
  BY DEF CheckpointTimeout, Inv, RequestsOK, StoppedIsIdle, WorkersHaveOperation
<1>6. checkpoint # NoOp /\ checkpoint' = NoOp /\ ssid' = previous /\ committed' = committed
  BY DEF CheckpointTimeout
<1>7. NetworkOK(checkpoint', previous', ssid', committed')
  BY <1>6 DEF Inv, NetworkOK
<1>3. StagingIsPrivate' /\ ActivationIsGuarded'
  BY ZenonT(30) DEF CheckpointTimeout, Inv, RequestsOK, StagingIsPrivate, ActivationIsGuarded, Preparing
<1>4. ConfirmedIsUnguarded' /\ UndoneIsConfirmed'
  BY DEF CheckpointTimeout, Inv, RequestsOK, ConfirmedIsUnguarded, UndoneIsConfirmed,
         WorkersHaveOperation, Undone, Detached, NetworkOK
<1> QED
  BY <1>1, <1>2, <1>3, <1>4, <1>5, <1>7 DEF Inv, RequestsOK

-----------------------------------------------------------------------------

\* The invariant holds in every state a freshly provisioned Host can be in.
LEMMA InitInv == Init => Inv
<1> SUFFICES ASSUME Init PROVE Inv
  OBVIOUS
<1> USE NoneAssumption DEF NoneAssumption
<1>1. [state |-> "none", target |-> NoSsid, epoch |-> 0] \in OpRow
  BY BoundsAssumption DEF BoundsAssumption, OpRow, OpStates
<1>2. TypeOK
  <2>1. op \in [Ops -> OpRow] /\ task \in [Requests -> Task]
    BY <1>1, IdleIsTask DEF Init
  <2>2. resetEpoch \in 0..MaxEpoch /\ restarts \in 0..MaxRestarts
    BY BoundsAssumption DEF BoundsAssumption, Init
  <2>3. held = FALSE /\ running = FALSE /\ recovered = TRUE
    BY DEF Init
  <2>4. held \in BOOLEAN /\ running \in BOOLEAN /\ recovered \in BOOLEAN
    BY <2>3, Zenon
  <2> QED
    BY <2>1, <2>2, <2>4 DEF Init, TypeOK, NetworkStates
<1>3. RequestsOK
  BY IdleRequestsOK DEF Init, SucceededIsFinal
<1> QED
  BY <1>2, <1>3 DEF Inv, Init, NetworkOK

\* Every step preserves it.
LEMMA NextInv == Inv /\ [Next]_vars => Inv'
<1> SUFFICES ASSUME Inv, [Next]_vars PROVE Inv'
  OBVIOUS
<1>1. CASE UNCHANGED vars
  <2>1. UNCHANGED <<op, networkState, resetEpoch, held, running, restarts, active,
                    recovered, task, ssid, checkpoint, previous, committed>>
    BY <1>1 DEF vars, store, process, adapter, manager
  <2> QED
    BY <2>1, RowsInv DEF Inv, TypeOK, process, adapter, manager
<1>2. ASSUME NEW r \in Requests, Step(r)
      PROVE  Inv'
  BY <1>2, ConfigureStepInv, ConfirmStepInv, RollbackStepInv, ResetStepInv DEF Step
<1> QED
  BY <1>1, <1>2, PhoneInv, OperatorInv, DaemonInv, CheckpointTimeoutInv DEF Next

\* The inductive invariant holds of every behaviour.
LEMMA Invariance == Spec => []Inv
  BY InitInv, NextInv, PTL DEF Spec

\* Type correctness, whatever the number of phones, networks and restarts.
THEOREM TypeCorrect == Spec => []TypeOK
<1>1. Inv => TypeOK
  BY DEF Inv
<1> QED
  BY <1>1, Invariance, PTL

\* The Host never settles on a network nobody confirmed: begin_change, confirm,
\* rollback, forget_all_wifi_profiles, recover_interrupted and NetworkManager's
\* timer may interleave, fail and be cut short anywhere.
THEOREM NetworkIsConfirmed == Spec => []UnguardedNetworkIsConfirmed
<1>1. Inv => UnguardedNetworkIsConfirmed
  BY DEF Inv, NetworkOK, UnguardedNetworkIsConfirmed
<1> QED
  BY <1>1, Invariance, PTL

\* An operation recorded as succeeded has no checkpoint left that could roll the
\* Host back: confirm destroys it before confirm_network writes the row.
THEOREM SuccessIsFinal == Spec => []SucceededIsFinal
<1>1. Inv => SucceededIsFinal
  BY DEF Inv, RequestsOK
<1> QED
  BY <1>1, Invariance, PTL

=============================================================================
