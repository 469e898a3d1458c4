--------------------------- MODULE NetworkChange ---------------------------
(***************************************************************************)
(* Changing the Host's Wi-Fi: the stage / confirm / rollback operations of *)
(* CommissioningService, the NetworkManager adapter they drive, and the    *)
(* authority resets and restarts that cut across them.                     *)
(*                                                                         *)
(* Every D-Bus call is an await, and other requests run while it is        *)
(* outstanding: a phone that lost its BLE link and came back leaves its    *)
(* first request running.  A request is therefore a task with a program    *)
(* counter, and each of its steps runs from the answer of one D-Bus call   *)
(* to the issue of the next.  A call's effect and its answer are one step. *)
(*                                                                         *)
(* NetworkManager is external: one Wi-Fi device, one checkpoint on it at a *)
(* time, rolled back by NetworkManager itself after 90 s.  As the adapter  *)
(* uses it, CheckpointRollback restores the network and CheckpointDestroy  *)
(* then removes the checkpoint.  Authority is reduced to whether a phone   *)
(* holds the Host; BootstrapAuthority has the rest.                        *)
(***************************************************************************)
EXTENDS Integers, FiniteSets

CONSTANTS
    Ops,          \* operation ids a phone may choose
    Requests,     \* requests that may be in flight at once
    Ssids,        \* networks
    NoOp, NoSsid, \* "none"
    MaxEpoch,     \* bound: authority resets
    MaxRestarts,  \* bound: restarts of bootstrapd
    DevelopmentMode  \* BootstrapMode.DEVELOPMENT

ASSUME NoneAssumption == NoOp \notin Ops /\ NoSsid \notin Ssids
ASSUME BoundsAssumption == MaxEpoch \in Nat /\ MaxRestarts \in Nat
ASSUME ModeAssumption == DevelopmentMode \in BOOLEAN

VARIABLES
    op,            \* bootstrap_operations
    networkState,  \* bootstrap_state.network_state
    resetEpoch,    \* bootstrap_state.reset_epoch
    held,          \* some Controller is active in the current epoch
    running,       \* bootstrapd is up
    restarts,      \* restarts so far (bounded)
    active,        \* adapter: _active.operation_id
    recovered,     \* adapter: _recovery_complete
    task,          \* requests in flight
    ssid,          \* NetworkManager: the network the device is on
    checkpoint,    \* NetworkManager: operation whose checkpoint exists
    previous,      \* NetworkManager: what that checkpoint restores
    committed      \* history: the network last confirmed

store == <<op, networkState, resetEpoch, held>>
adapter == <<active, recovered>>
manager == <<ssid, checkpoint, previous, committed>>
process == <<running, restarts>>
vars == <<store, process, adapter, task, manager>>

ActiveStates == {"pending", "running", "waiting_confirmation", "compensating"}
OpStates == ActiveStates \cup {"none", "succeeded", "failed"}
TransientStates == {"staging", "rolling_back"}
NetworkStates == TransientStates \cup {"unconfigured", "connected", "degraded"}

\* where a request waits: the D-Bus call it has outstanding
ConfigureWaits == {"cfg_checkpoint", "cfg_activate", "cfg_activation",
                   "cfg_undo_rollback", "cfg_undo_destroy", "cfg_snapshot"}
ConfirmWaits == {"cnf_ssid", "cnf_destroy", "cnf_snapshot"}
RollbackWaits == {"rbk_rollback", "rbk_destroy", "rbk_snapshot"}
ResetWaits == {"rst_snapshot", "fgt_rollback", "fgt_destroy", "fgt_snapshot",
               "fgt_delete", "fgt_reconcile"}
Waits == {"idle"} \cup ConfigureWaits \cup ConfirmWaits \cup RollbackWaits
                  \cup ResetWaits

Task == [at : Waits, op : Ops \cup {NoOp}, before : NetworkStates]
WorksOn(wait, o) == [at |-> wait, op |-> o, before |-> "unconfigured"]
Idle == WorksOn("idle", NoOp)

OpRow == [state : OpStates, target : Ssids \cup {NoSsid}, epoch : 0..MaxEpoch]

ActiveOps == {o \in Ops : op[o].state \in ActiveStates}

\* get_state of the adapter
Snapshot(a) ==
    IF a # NoOp THEN "staging"
    ELSE IF ssid # NoSsid THEN "connected" ELSE "unconfigured"

Init ==
    /\ op = [o \in Ops |-> [state |-> "none", target |-> NoSsid, epoch |-> 0]]
    /\ networkState = "unconfigured"
    /\ resetEpoch = 0
    /\ held = FALSE
    /\ running = FALSE
    /\ restarts = 0
    /\ active = NoOp
    /\ recovered = TRUE
    /\ task = [r \in Requests |-> Idle]
    /\ ssid \in Ssids \cup {NoSsid}
    /\ checkpoint = NoOp
    /\ previous = NoSsid
    /\ committed = ssid

-----------------------------------------------------------------------------
(* Helpers: update_operation, and moving a request from wait to wait.       *)

\* update_operation: no condition on the row's state or epoch
UpdateOperation(o, state, network) ==
    /\ op' = [op EXCEPT ![o].state = state]
    /\ networkState' = network
    /\ UNCHANGED <<resetEpoch, held>>

Goto(r, wait) == task' = [task EXCEPT ![r].at = wait]
Answer(r) == task' = [task EXCEPT ![r] = Idle]

At(r, wait) == running /\ task[r].at = wait

Fallback(before) == IF before = "connected" THEN "connected" ELSE "degraded"

\* configure_network's except branch
StagingFailed(r) ==
    /\ UpdateOperation(task[r].op, "failed", Fallback(task[r].before))
    /\ Answer(r)

-----------------------------------------------------------------------------
(* configure_network and begin_change.                                      *)

\* up to the first await of begin_change; an active operation is a conflict
\* that leaves no trace
Configure(r, o, s) ==
    /\ running /\ held
    /\ task[r] = Idle
    /\ op[o].state = "none"
    /\ ActiveOps = {}
    /\ IF active # NoOp \/ ~recovered
       THEN /\ op' = [op EXCEPT ![o] = [state |-> "failed", target |-> s,
                                        epoch |-> resetEpoch]]
            /\ networkState' = Fallback(networkState)
            /\ UNCHANGED task
       ELSE /\ op' = [op EXCEPT ![o] = [state |-> "running", target |-> s,
                                        epoch |-> resetEpoch]]
            /\ networkState' = "staging"
            /\ task' = [task EXCEPT ![r] = [at |-> "cfg_checkpoint", op |-> o,
                                            before |-> networkState]]
    /\ UNCHANGED <<resetEpoch, held, process, adapter, manager>>

\* the daemon dies between create_operation and the first update_operation
CrashAfterCreate(o, s) ==
    /\ running /\ held
    /\ op[o].state = "none"
    /\ ActiveOps = {}
    /\ op' = [op EXCEPT ![o] = [state |-> "pending", target |-> s,
                                epoch |-> resetEpoch]]
    /\ running' = FALSE
    /\ active' = NoOp /\ recovered' = TRUE
    /\ task' = [r \in Requests |-> Idle]
    /\ UNCHANGED <<networkState, resetEpoch, held, restarts, manager>>

\* CheckpointCreate refuses a device that has a checkpoint, and may fail; so
\* may _interfaces before it, with an error configure_network does not catch
CheckpointCreated(r) ==
    /\ At(r, "cfg_checkpoint")
    /\ \/ /\ checkpoint = NoOp
          /\ checkpoint' = task[r].op
          /\ previous' = ssid
          /\ Goto(r, "cfg_activate")
          /\ UNCHANGED <<store, ssid, committed>>
       \/ StagingFailed(r) /\ UNCHANGED manager
       \/ Answer(r) /\ UNCHANGED <<store, manager>>
    /\ UNCHANGED <<process, adapter>>

\* AddAndActivateConnection2: the device leaves its network and joins the new
\* one, or does not
Activated(r) ==
    /\ At(r, "cfg_activate")
    /\ \/ /\ ssid' \in {op[task[r].op].target, NoSsid}
          /\ active' = task[r].op
          /\ Goto(r, "cfg_activation")
          /\ UNCHANGED <<checkpoint, previous, committed>>
       \/ Goto(r, "cfg_undo_rollback") /\ UNCHANGED <<active, manager>>
    /\ UNCHANGED <<store, process, recovered>>

\* (faulty variant: the wait has no deadline)
PollForever(r) ==
    /\ At(r, "cfg_activation")
    /\ ssid # NoSsid /\ Goto(r, "cfg_snapshot")
    /\ UNCHANGED <<store, process, adapter, manager>>

\* _wait_until_activated: the device is activated on some network, or the
\* activation failed or timed out, or the query did
ActivationPolled(r) ==
    /\ At(r, "cfg_activation")
    /\ \/ ssid # NoSsid /\ Goto(r, "cfg_snapshot")
       \/ Goto(r, "cfg_undo_rollback")
    /\ UNCHANGED <<store, process, adapter, manager>>

\* (faulty variant: the checkpoint is destroyed even if the rollback failed)
UndoRollbackIgnored(r) ==
    /\ At(r, "cfg_undo_rollback")
    /\ ssid' \in {ssid} \cup (IF checkpoint = task[r].op THEN {previous} ELSE {})
    /\ Goto(r, "cfg_undo_destroy")
    /\ UNCHANGED <<store, process, adapter, checkpoint, previous, committed>>

\* _best_effort_rollback, its two calls
UndoRollback(r) ==
    /\ At(r, "cfg_undo_rollback")
    /\ \/ /\ checkpoint = task[r].op
          /\ ssid' = previous
          /\ Goto(r, "cfg_undo_destroy")
          /\ UNCHANGED <<store, active, checkpoint, previous, committed>>
       \/ StagingFailed(r) /\ active' = NoOp /\ UNCHANGED manager
    /\ UNCHANGED <<process, recovered>>

UndoDestroy(r) ==
    /\ At(r, "cfg_undo_destroy")
    /\ checkpoint' \in {checkpoint} \cup (IF checkpoint = task[r].op THEN {NoOp} ELSE {})
    /\ StagingFailed(r)
    /\ active' = NoOp
    /\ UNCHANGED <<process, recovered, ssid, previous, committed>>

\* the trailing get_state is outside begin_change's try: when it fails, the
\* operation fails and _active stays
StagingDone(r) ==
    /\ At(r, "cfg_snapshot")
    /\ \/ /\ UpdateOperation(task[r].op, "waiting_confirmation", "staging")
          /\ Answer(r)
       \/ StagingFailed(r)
    /\ UNCHANGED <<process, adapter, manager>>

-----------------------------------------------------------------------------
(* confirm_network and confirm.                                             *)

Confirm(r, o) ==
    /\ running /\ held
    /\ task[r] = Idle
    /\ op[o].state = "waiting_confirmation"
    /\ active = o
    /\ task' = [task EXCEPT ![r] = WorksOn("cnf_ssid", o)]
    /\ UNCHANGED <<store, process, adapter, manager>>

ConfirmSsidRead(r) ==
    /\ At(r, "cnf_ssid")
    /\ \/ ssid = op[task[r].op].target /\ Goto(r, "cnf_destroy")
       \/ Answer(r)
    /\ UNCHANGED <<store, process, adapter, manager>>

\* (faulty variant: a failed CheckpointDestroy is swallowed)
ConfirmAnyway(r) ==
    /\ At(r, "cnf_destroy")
    /\ checkpoint' \in {checkpoint} \cup (IF checkpoint = task[r].op THEN {NoOp} ELSE {})
    /\ committed' = IF checkpoint' = checkpoint THEN committed ELSE ssid
    /\ active' = NoOp
    /\ Goto(r, "cnf_snapshot")
    /\ UNCHANGED <<store, process, recovered, ssid, previous>>

ConfirmDestroyed(r) ==
    /\ At(r, "cnf_destroy")
    /\ \/ /\ checkpoint = task[r].op
          /\ checkpoint' = NoOp
          /\ committed' = ssid
          /\ active' = NoOp
          /\ Goto(r, "cnf_snapshot")
          /\ UNCHANGED <<ssid, previous>>
       \/ Answer(r) /\ UNCHANGED <<active, manager>>
    /\ UNCHANGED <<store, process, recovered>>

ConfirmDone(r) ==
    /\ At(r, "cnf_snapshot")
    /\ \/ UpdateOperation(task[r].op, "succeeded", "connected")
       \/ UNCHANGED store
    /\ Answer(r)
    /\ UNCHANGED <<process, adapter, manager>>

-----------------------------------------------------------------------------
(* rollback_network and rollback.                                           *)

\* only a failed operation is turned away; the row is marked before the
\* adapter is asked whether it has anything to roll back
Rollback(r, o) ==
    /\ running /\ held
    /\ task[r] = Idle
    /\ op[o].state \notin {"none", "failed"}
    /\ UpdateOperation(o, "compensating", "rolling_back")
    /\ IF active = o
       THEN task' = [task EXCEPT ![r] = WorksOn("rbk_rollback", o)]
       ELSE UNCHANGED task
    /\ UNCHANGED <<process, adapter, manager>>

RollbackCalled(r) ==
    /\ At(r, "rbk_rollback")
    /\ \/ /\ checkpoint = task[r].op
          /\ ssid' = previous
          /\ Goto(r, "rbk_destroy")
          /\ UNCHANGED <<checkpoint, previous, committed>>
       \/ Answer(r) /\ UNCHANGED manager
    /\ UNCHANGED <<store, process, adapter>>

RollbackDestroyed(r) ==
    /\ At(r, "rbk_destroy")
    /\ \/ /\ checkpoint = task[r].op
          /\ checkpoint' = NoOp
          /\ active' = NoOp
          /\ Goto(r, "rbk_snapshot")
          /\ UNCHANGED <<ssid, previous, committed>>
       \/ Answer(r) /\ UNCHANGED <<active, manager>>
    /\ UNCHANGED <<store, process, recovered>>

RollbackDone(r) ==
    /\ At(r, "rbk_snapshot")
    /\ \/ UpdateOperation(task[r].op, "failed", Snapshot(active))
       \/ UNCHANGED store
    /\ Answer(r)
    /\ UNCHANGED <<process, adapter, manager>>

-----------------------------------------------------------------------------
(* Resets of authority, as far as they reach the network.                   *)

\* reset_authority: every active operation fails, the epoch moves on
ResetAuthority(network) ==
    /\ resetEpoch < MaxEpoch
    /\ resetEpoch' = resetEpoch + 1
    /\ held' = FALSE
    /\ op' = [o \in Ops |-> IF op[o].state \in ActiveStates
                            THEN [op[o] EXCEPT !.state = "failed"] ELSE op[o]]
    /\ networkState' = network

\* open_controller_recovery_window carries network_state over
ControllerReset ==
    /\ running
    /\ ResetAuthority(networkState)
    /\ UNCHANGED <<process, adapter, task, manager>>

\* reset_development_state reads the network first
DevelopmentReset(r) ==
    /\ running /\ DevelopmentMode
    /\ task[r] = Idle
    /\ resetEpoch < MaxEpoch
    /\ Goto(r, "rst_snapshot")
    /\ UNCHANGED <<store, process, adapter, manager>>

\* ... then resets, and may go on to forget every Wi-Fi profile
DevelopmentResetDone(r) ==
    /\ At(r, "rst_snapshot")
    /\ \/ /\ ResetAuthority(Snapshot(active))
          /\ \/ Answer(r)
             \/ active = NoOp /\ Goto(r, "fgt_delete")
             \/ /\ active # NoOp
                /\ task' = [task EXCEPT ![r] = WorksOn("fgt_rollback", active)]
       \/ Answer(r) /\ UNCHANGED store
    /\ UNCHANGED <<process, adapter, manager>>

\* forget_all_wifi_profiles rolls a staged change back before it deletes
ForgetRolledBack(r) ==
    /\ At(r, "fgt_rollback")
    /\ \/ /\ checkpoint = task[r].op
          /\ ssid' = previous
          /\ Goto(r, "fgt_destroy")
          /\ UNCHANGED <<checkpoint, previous, committed>>
       \/ Goto(r, "fgt_reconcile") /\ UNCHANGED manager
    /\ UNCHANGED <<store, process, adapter>>

ForgetDestroyed(r) ==
    /\ At(r, "fgt_destroy")
    /\ \/ /\ checkpoint = task[r].op
          /\ checkpoint' = NoOp
          /\ active' = NoOp
          /\ Goto(r, "fgt_snapshot")
          /\ UNCHANGED <<ssid, previous, committed>>
       \/ Goto(r, "fgt_reconcile") /\ UNCHANGED <<active, manager>>
    /\ UNCHANGED <<store, process, recovered>>

ForgetSnapshot(r) ==
    /\ At(r, "fgt_snapshot")
    /\ Goto(r, "fgt_delete") \/ Goto(r, "fgt_reconcile")
    /\ UNCHANGED <<store, process, adapter, manager>>

\* the profiles are deleted and the device disconnected, or a call failed
ProfilesDeleted(r) ==
    /\ At(r, "fgt_delete")
    /\ \/ /\ ssid' = NoSsid
          /\ active' = NoOp
          /\ networkState' = "unconfigured"
          /\ Answer(r)
          /\ UNCHANGED <<op, resetEpoch, held>>
       \/ /\ ssid' \in {ssid, NoSsid}
          /\ Goto(r, "fgt_reconcile")
          /\ UNCHANGED <<active, store>>
    /\ UNCHANGED <<process, recovered, checkpoint, previous, committed>>

\* after a failure: publish what the adapter sees, unless it is transient
ForgetReconciled(r) ==
    /\ At(r, "fgt_reconcile")
    /\ networkState' \in {networkState} \cup ({Snapshot(active)} \ TransientStates)
    /\ Answer(r)
    /\ UNCHANGED <<op, resetEpoch, held, process, adapter, manager>>

-----------------------------------------------------------------------------
(* The phone's Grant, the daemon, NetworkManager's own timer.               *)

\* a phone claims the Host (BootstrapAuthority has the claim)
Claimed ==
    /\ running /\ ~held
    /\ held' = TRUE
    /\ UNCHANGED <<op, networkState, resetEpoch, process, adapter, task, manager>>

\* (faulty variant: the checkpoints are only destroyed)
RecoverByDestroying ==
    /\ recovered' = TRUE
    /\ checkpoint' = NoOp
    /\ UNCHANGED ssid

\* recover_interrupted: every checkpoint of the device is rolled back and
\* destroyed
RecoverInterrupted ==
    /\ recovered' = TRUE
    /\ checkpoint' = NoOp
    /\ ssid' = IF checkpoint # NoOp THEN previous ELSE ssid

\* ... or one of its calls fails, at any point
RecoveryFails ==
    /\ recovered' = FALSE
    /\ \/ UNCHANGED <<checkpoint, ssid>>
       \/ /\ checkpoint # NoOp
          /\ ssid' = previous
          /\ checkpoint' \in {checkpoint, NoOp}

\* initialize() and recover_interrupted(), before anything is served; the
\* network is recorded only if it could be read at the end
Start ==
    /\ ~running
    /\ running' = TRUE
    /\ op' = [o \in Ops |-> IF op[o].state \in ActiveStates
                            THEN [op[o] EXCEPT !.state = "failed"] ELSE op[o]]
    /\ LET interrupted == IF ActiveOps # {} THEN "degraded" ELSE networkState IN
       \/ /\ RecoverInterrupted
          /\ networkState' \in {interrupted,
                               IF ssid' # NoSsid THEN "connected" ELSE "unconfigured"}
       \/ RecoveryFails /\ networkState' = interrupted
    /\ UNCHANGED <<resetEpoch, held, restarts, active, task, previous, committed>>

Stop ==
    /\ running
    /\ restarts < MaxRestarts
    /\ restarts' = restarts + 1
    /\ running' = FALSE
    /\ active' = NoOp /\ recovered' = TRUE
    /\ task' = [r \in Requests |-> Idle]
    /\ UNCHANGED <<store, manager>>

\* 90 s after CheckpointCreate; AddAndActivateConnection2 follows at once, so
\* it is never the call outstanding when the timer fires
CheckpointTimeout ==
    /\ checkpoint # NoOp
    /\ \A r \in Requests : task[r].at # "cfg_activate"
    /\ checkpoint' = NoOp
    /\ ssid' = previous
    /\ UNCHANGED <<store, process, adapter, task, previous, committed>>

-----------------------------------------------------------------------------

ConfigureStep(r) ==
    \/ CheckpointCreated(r) \/ Activated(r) \/ ActivationPolled(r)
    \/ UndoRollback(r) \/ UndoDestroy(r) \/ StagingDone(r)
ConfirmStep(r) == ConfirmSsidRead(r) \/ ConfirmDestroyed(r) \/ ConfirmDone(r)
RollbackStep(r) == RollbackCalled(r) \/ RollbackDestroyed(r) \/ RollbackDone(r)
ResetStep(r) ==
    \/ DevelopmentResetDone(r) \/ ForgetRolledBack(r) \/ ForgetDestroyed(r)
    \/ ForgetSnapshot(r) \/ ProfilesDeleted(r) \/ ForgetReconciled(r)
Step(r) == ConfigureStep(r) \/ ConfirmStep(r) \/ RollbackStep(r) \/ ResetStep(r)

Phone ==
    \/ Claimed
    \/ \E r \in Requests, o \in Ops :
          \/ \E s \in Ssids : Configure(r, o, s)
          \/ Confirm(r, o)
          \/ Rollback(r, o)

Operator == ControllerReset \/ \E r \in Requests : DevelopmentReset(r)

Daemon == Start \/ Stop \/ \E o \in Ops, s \in Ssids : CrashAfterCreate(o, s)

Next == Phone \/ Operator \/ Daemon \/ CheckpointTimeout \/ \E r \in Requests : Step(r)

Spec == Init /\ [][Next]_vars

\* Every call to NetworkManager is answered, and its timer fires.
FairSpec ==
    /\ Spec
    /\ \A r \in Requests : WF_vars(Step(r))
    /\ WF_vars(CheckpointTimeout)

-----------------------------------------------------------------------------
(* Properties.                                                              *)

\* Rows, the adapter's memory and NetworkManager's objects keep their shape.
TypeOK ==
    /\ op \in [Ops -> OpRow]
    /\ networkState \in NetworkStates
    /\ resetEpoch \in 0..MaxEpoch
    /\ held \in BOOLEAN /\ running \in BOOLEAN /\ recovered \in BOOLEAN
    /\ restarts \in 0..MaxRestarts
    /\ active \in Ops \cup {NoOp}
    /\ task \in [Requests -> Task]
    /\ ssid \in Ssids \cup {NoSsid}
    /\ checkpoint \in Ops \cup {NoOp}
    /\ previous \in Ssids \cup {NoSsid}
    /\ committed \in Ssids \cup {NoSsid}

\* The Host never settles on a network nobody confirmed: while no checkpoint
\* guards it, it is on the network last confirmed or on none, whatever calls
\* fail, whoever rolls back, and wherever the daemon dies.
UnguardedNetworkIsConfirmed ==
    checkpoint = NoOp => ssid \in {committed, NoSsid}

\* ADR-0003: a checkpoint of an operation that succeeded is gone, so that it
\* cannot roll the new network back later.
SucceededIsFinal == \A o \in Ops : op[o].state = "succeeded" => checkpoint # o

\* A request that waits on NetworkManager is answered: no wait is without end.
RequestsAreAnswered == \A r \in Requests : task[r] # Idle ~> task[r] = Idle

\* A change left alone, by a phone that walked away or a daemon that died,
\* ends with its checkpoint gone and the Host on a confirmed network or none.
ChangeSettles ==
    checkpoint # NoOp ~> checkpoint = NoOp /\ ssid \in {committed, NoSsid}
=============================================================================
