# Formal models of eidolon_admin

`eidolon_admin` is the administration plane of an Eidolon Host: a home device
that phones claim and manage over Bluetooth and the LAN, and that operators
manage through a web console. This directory holds TLA+ models of the parts of
it that keep state across steps or decide over several calls, TLC configurations
that check them on small instances, and TLAPS proofs of their safety properties
for instances of any size. Every definition is written from the code;
`PROJECT.json` maps each one to the lines it stands for.

1. The system  2. Modules  3. Runs  4. Properties  5. Proofs  6. Where code and
documentation disagree  7. Not modelled

## 1. The system

All server code is under `src/server/eidolon_admin_server`.

| Part | State it keeps | Why it is hard | Module |
|---|---|---|---|
| **Bootstrap authority** `bootstrap/service.py`, `adapters/persistence/sqlite.py` | claim windows, grants per reset epoch, `claim_state` | phones, an operator, restarts and crashes interleave; BLE links hold authorizations in memory; rows are ordered by wall-clock strings | `BootstrapAuthority` |
| **Network change** `bootstrap/commissioning_service.py`, `adapters/network/network_manager.py` | operation rows, the adapter's `_active`, NetworkManager's checkpoint | every D-Bus call is an await in which other requests run and which may fail; NetworkManager has a timer of its own | `NetworkChange` |
| **BLE transport** `adapters/commissioning/bluez.py`, `tls_session.py`, `daemon.py` | links, one TX characteristic, session tasks | sessions outlive their link and share a flag and a slot | `CommissioningStream` |
| **Local API** `local_api/app.py`, `auth.py`, `workspace.py` | controller sessions in memory | sessions outlive grants; two phones set one Host up; calls are lost | `LocalApi` |
| **Device admission** `control_plane/admission_intents.py`, `service.py`, `local_api/device_admissions.py` | durable intents of Decisions | phones and an operator decide on one device through the Hub without a common transaction | `DeviceAdmission` |
| **Device removal** the same, and `lifecycle_workflow/` | durable intents of removals | three processes, lost answers, late commands, a device added again | `DeviceRemoval` |
| **Management** `app/management/`, `local_api/management/`, `control_plane/clients.py` | none of its own; six authorities | one request is several calls; each answer is translated three times on its way back | `Management`, `Refusals` |
| **Mission Control** `app/mission_control/`, `local_api` projections | none; the answers it joins | sources fail one by one and are read at different times | `MissionControl`, `RuntimeActivities` |
| **Audit index** `audit/` | SQLite projection of a stream, a durable consumer | at-least-once delivery, a crash between commit and acknowledgement, dead subscriptions | `AuditIndex` |
| **Tool jobs** `app/tools/esp32`, `app/tools/mobile` | jobs, reservations of ports, queues of followers | takeovers, cancellation and followers that join while a job ends | `ToolJobs` |
| **Configuration files** `app/configs` | files and snapshots | rotation deletes what is being restored | `ConfigFiles` |

How they interact: phones reach the Bootstrap daemon directly (BLE, and the
Local API's LAN commissioning routes, which forward to the daemon's control
socket). A Controller that holds a grant opens a Local API session. Through it,
device admissions and removals go to the control plane, which records an intent
and drives the Hub; removals pass through the lifecycle-workflow daemon. Other
requests of the phone go over loopback to Admin, which asks Data, Kernel, Agent,
Memory, Hub and eidolond. The audit index reads what all authorities publish.

## 2. Modules

A component module holds state, actions and properties; `MC<module>` adds what
TLC needs (symmetry, named bounds as constraints); `<module>_proofs` holds
theorems. Two modules are abstract specifications:

* `ControllerGrants`: who holds the Host in which epoch. Grants come one at a
  time and go one at a time while another remains; only a reset ends all.
  `BootstrapAuthority` implements it, and `LocalApi` uses it in place of
  Bootstrap, so what is checked of the sessions rests on what is proved of the
  store.
* `DurableIntent`: a request's target is written down once, then that target is
  carried out, and a result is recorded only for what was carried out.
  `DeviceRemoval` and `DeviceAdmission` both implement it.

Definitions marked "(faulty variant ...)" are plausible mistakes of the code. No
specification uses them; they show that a property notices when the definition
after them is replaced.

**BootstrapAuthority.** The daemon is one asyncio thread and none of these
handlers awaits between its first read and its last write, so *one handler is one
action*, with what it calls at its end: `Claim` is the transaction of
`claim_controller` and `reopen_standing_claim_window`; the crash between the two
is its other branch. `session` are the rows of `commissioning_sessions` (`live`:
neither consumed nor revoked), `grant[c][e]` the rows of `controller_grants`,
`link` what a protocol session holds for one BLE link, `now` the wall clock.
`epoch`, `lapsed` and `misfiled` of a row and `missed` are history that only
properties read. A Setup code is "the code of window s" or a wrong one. Session ids
are numbers because SQLite breaks ties of `created_at` by their order. A handler
that stamps a row sees a later instant than the one before, unless the clock was
set back (`SetClockBack`). What is stored and compared is the *text* of the instant
(`Text`): `isoformat()` leaves the fraction of a full second out, and "Z" sorts
after ".", so the first instant of a second reads as later than the rest of it. A
reopening of the standing window may fail (`OpenStandingIn`): the claim stands, the
failure is logged, and nothing tries again.

**NetworkChange.** A request is a task whose program counter names *the D-Bus
call it is waiting for*. A step runs from the answer of one call to the issue of
the next, so every interleaving the event loop allows is there, a second request
of a phone whose first one is still running included. Each call may fail; the
failing branch is the code's `except`. `active` and `recovered` are lost with the
process, `checkpoint`, `previous` and `ssid` live in NetworkManager (external: one
Wi-Fi device, one checkpoint, its rollback after 90 s). `committed` is history.

**CommissioningStream.** The supervisor that keeps a GATT listener up, the
listener that turns subscriptions and writes into links, and one session task per
link. Sessions share `_TxCharacteristic`: one `notifying` flag, one confirmation
slot (`slot`); `air` is the indication its central has not confirmed. A write is
told apart by what TLS and the line reader make of it, a reply is its number of
indications. One subscription at a time is modelled.

**LocalApi.** A request is a task that names the call it waits for. `store` holds
tokens by expiry, `session` what a token stands for, including the memo of the
Owner; Data (`workspace`) and the Hub (`standing`) are external: of a phone the Hub
has nothing, admits devices in its name ("recorded", or "renewed" when that was
recorded while the removal was already past the withdrawal), or has withdrawn it.
"voucher" stands for every Owner-scoped request up to its record call.

**DeviceAdmission.** One handler per Decision call and one per admission of the
operator's page, each with the await it is in. `row` is the ledger, `log` and
`enrollment` are the Hub (external), `mount` and `body` the Kernel. A caller may
give up while its command is still on its way (`pending`), `Restart` ends every
handler and keeps the ledger, `OwnerChanges` is a Host reset and set up for the
next Owner.

**DeviceRemoval.** One handler per call across three processes: `claims`, `sent`,
`revoke`, `answered`, `mount`, `erase` are its awaits. Either side may give up
while the other goes on (`GiveUp`, `RevokeFails`), and the command may still reach
the Hub (`HubRevokes`). A DeviceRef is a device and a generation; `claim` and
`log` are the Hub, `mount` follows the Claims at the Kernel's own pace. The mount
is looked for on one page of `PageSize` mounts (`MountPages`); with more mounts than
that the page holds some of them.

**Management, Refusals.** Every route of the facade as a request that goes from
the Local API to Admin's handler and from there to one authority after another;
other requests run between any two calls. A call's effect and what the client
makes of the reply are one step; a reply may be lost, garbled or a failure after
the effect. `Refusals` is the pure part: how a status becomes an
`AuthorityFailure`, Admin's response and the refusal a phone is told. A phone that
was told to try again may send its request again (`Repeat`); `before` says that an
attempt before this one took effect, and the authorities that keep a record by the
phone's operation id (`Recorded`: a new Companion, an assignment) answer from it.

**MissionControl, RuntimeActivities.** A composition reads its sources and keeps a
ledger of their outcomes, from which every lane takes its state; the Local API's
own read of the inventory is a later step. Of memory and of the Host's services only
whether the source told of them is kept. A walk through the history is `OpenHistory`
and one `ActivityPage` per page, turns beginning in between. `RuntimeActivities` is
the pure part: how one row of the Agent is drawn.

**AuditIndex.** One task whose program counter names its await: `start`, where it
opens its store, then the loop's `poll`, `parse`, `ingest`, `ack`, `polled`. It may
be killed at each, each call may fail, an acknowledgement may be lost silently. The
store is opened outside the loop's `try`: a failure there ends the task (`ended`),
which only a new process starts again. `seq[e]` is the `ingest_seq` of the row of
event `e`; an insert gives the numbers after the greatest one in the table, as
SQLite does without `AUTOINCREMENT`. `pruned` is history.

**ToolJobs.** One asyncio process: a step runs from one await that suspends to the
next. `job` are the records with their run tasks, `use` the reserved ports,
`session` the calls of `serial_stream` and `probe_device`, `stream` the followers
with their bounded queues. A write of a job's record or log may fail: in
`create_job`, as its task begins and in its last record nobody catches it, and the
job is "lost", that is active, or ended without telling its followers, and without a
task; anywhere else the job ends as failed, and a process it had goes on. `service` selects the ESP32 or the mobile service, which
share most of their code's shape.

**ConfigFiles.** One declared file; the handlers do not await, so a request runs to
its end unless the process is killed in it.

## 3. Runs

| Run | Instance | Shows |
|---|---|---|
| `authority` | 2 phones, 1 link, 3 windows, 1 reset, 6 instants, 3 to a second, 1 wrong code, either policy at each start, development mode, the clock set back at most once | windows, grants and epochs stay consistent, also where timestamps read out of order; the store implements `ControllerGrants` |
| `network` | 2 operations one after another, 2 requests in flight, 2 networks, 1 reset or 1 restart, fairness | safety of a change under every interleaving and failure; every request and every change ends |
| `stream` | 2 centrals, 2 links, inbox and replies of 2, fairness | who speaks into a subscription, what a session still does after its link, that sessions end |
| `stream_confirm` | the same | **violation**: the confirmation of a new link is lost to the session of the old one |
| `local_api` | 2 phones, 2 tokens, 2 requests, 2 inputs, room for 1 session, 1 reset | one set-up, standing ends before a Grant does, sessions are kept |
| `admission` | 1 Enrollment with 2 revisions, 1 phone, 2 calls, 1 admission of the operator, 2 Owners | Decisions are durable and answered truly, mounts are approved |
| `removal` | 2 calls, 2 request ids, 2 devices enrolled up to twice of which 1 is removed, a page of 1 mount, 2 instants, clock set back at will, fairness | done is true, only the authorized Claim goes, every call ends |
| `management` | 2 Companions, 2 Bodies, 2 requests each able to be repeated, refusals 404 and 409, 3 revisions | a write refused for good did not happen, nothing of another Owner's is reached, an archive orphans only what overtook it |
| `mission` | 2 Bodies with 2 claims, or 3 turns and tasks of 2 Companions, 1 silent source, pages and limits of 1 to 3 | a lane's ok is earned, presence is observed, what runs is drawn, history is whole |
| `audit` | 2 events, 2 messages, batches of 2, 1 row kept, 2 failures, 1 restart, fairness | nothing acknowledged is missing, pruning is exact, every event is indexed once the store is open, what is dead is not reported as healthy |
| `jobs` | 2 jobs, 2 boards, 1 port, 2 monitors or probes, 2 followers with queues of 1, both services | reservations are exclusive, runners and followers, cancellation |
| `config_restore` | 3 texts, 2 snapshots, 6 seconds | **violation**: the oldest of a full set of snapshots cannot be restored |

Deadlock is checked where the system goes on for ever (`stream`, `management`,
`mission`) and not in the others: instants, epochs, ids, calls and restarts run out
there, and an indexer that could not open its store has ended.

**Bounds.** Every bound is a constant or a named constraint of an MC module.

* Two phones are what revoking each other, re-claiming and replaying another's
  window need; a third repeats a role. Three windows are a factory or recovery
  window, the one that supersedes or follows it, and a standing one; six instants
  are two seconds, so that a window of one expires with claims before and after, and
  a full second is followed by its rest; one reset separates an old epoch from the
  current one. `SetBackEarly` sets the clock back once, within the first instants and
  after a window was minted, where ties of `created_at` arise; `Early` looks at one
  order of ids afterwards, and at wrong codes and authenticated Controllers until
  then.
* Two requests on two operations give every overlap of stage, confirm, rollback
  and reset. `OneUpset` separates behaviours with a reset from those with a
  restart; `InOrder` names the operations in the order of their use. Both leave
  out whole behaviours, none of their parts.
* Two links are a session and its successor. `Orderly` starts each link with its
  handshake or with garbage and lets writes pile up on the first only.
* With room for one session the store is full at once. `FewAfterReset` lets each
  epoch have one request under way after a reset and sets nothing up again; before
  a reset requests overlap freely.
* Two calls may share a request id or not; two revisions of a Proposal, two
  Owners and two generations of a device let each command arrive before and after
  the thing it was meant for was replaced. `OneTarget`: the second device of
  `removal` is there to fill the page of mounts.
* `Apart` makes requests of `management` run alone unless they are archives,
  restorations and assignments, which overlap freely; `SilentGoesFirst` takes a step
  that touches nothing shared at once. `FewChanges` lets Companions and Bodies change
  twice and looks at the third change: enough for both ways in which a Body is orphaned (section 6), which
  TLC reaches, and for a write to be repeated after its own effect.
* `OneOfBoth`: no lane reads both the Bodies and the log, so a behaviour of
  `mission` moves one of the two, and only the sources read from it fail then; the
  others fail while neither has moved.
* Two messages may carry the same event, two events or a malformed one; with one
  row kept two events exceed the row bound; two failures let the recovery from a
  failure fail.
* Two boards on one port, two sessions and a queue of one make every conflict,
  takeover and full queue happen. `Apart`: a second follower is there while no monitor
  or probe is, which share nothing with followers.

The theorems of section 5 hold without these bounds.

**Symmetry** permutes phones, tokens, requests, inputs, calls, Companions, Bodies
of `Management`, jobs, boards, sessions and texts, which no action tells apart.
Ids that the code orders are never permuted, and no run with a liveness property
uses symmetry.

**Fairness.** Nothing is assumed of phones, operators, authorities or restarts.

* `NetworkChange`: weak fairness of each request's next step, since the D-Bus
  library answers every call or raises and `_wait_until_activated` has a deadline;
  and of NetworkManager's checkpoint timer.
* `CommissioningStream`: weak fairness of each session, whose waits end by a
  confirmation, the five-second timeout, the closed link or the end of a network
  operation; a cancelled daemon exits.
* `AuditIndex`: weak fairness of the task, which opens its store or ends, and whose
  loop catches every exception and polls again, and of each ack wait, after which JetStream delivers again. That calls
  stop failing is the bound `MaxFailures`.
* `DeviceRemoval`: weak fairness of each handler: every one of its awaits has a
  timeout or a deadline.

## 4. Properties

*BootstrapAuthority.* `ClaimedIffHeld`: revocation never writes `claim_state`; it
is exact all the same, because the last Controller cannot be revoked.
`OneLiveWindow`: one window at most takes a code, and it is of the current epoch,
links that authenticated earlier included. `OpenWindowIsAdvertised`: the row the
endpoint finds by `created_at` does not hide an open one.
`ReplayCoversNoRevocation`: a repeated claim answers its phone again only if it
was not revoked in between. These two except a row whose own `created_at` reads no
later than a stamp written before it (`misfiled`). `StandingWindow`: `ALWAYS_OPEN`
holds through claims, supersedes and crashes, whatever the clock does, unless the
last attempt to put the window back failed. `GrantConsumesWindow`: a grant costs an open window in the same step.
`ImplementsGrants`: the refinement of `ControllerGrants`.

*NetworkChange.* `UnguardedNetworkIsConfirmed`: without a checkpoint the Host is on
the network last confirmed, or on none. `SucceededIsFinal`: success leaves no
checkpoint that could undo it. `RequestsAreAnswered`, `ChangeSettles`.

*CommissioningStream.* `OnlyTheCurrentLinkSpeaks`, `OneRequestAfterTheEnd`,
`ClosedSessionsEnd`.

*LocalApi.* `SetupIsExclusive`: of two phones that set a Host up with different
input at most one is told it is ready. `RemovalEndsStanding`: when a removal asks
Bootstrap to revoke the Grant, the Hub no longer admits devices in that phone's
name, but for what the phone recorded since the withdrawal.
`SessionsLeaveForAReason`: an outage ends no session. A session that is neither the
oldest nor refused may go only with the process, which the property recognizes by
no request being left: a wrong eviction is noticed when another request is under
way.

*DeviceAdmission.* `AnsweredDecisionHolds`: a phone told "decided" has the Hub's
Decision. `MountedForItsOwner`: a device is mounted only for an Owner it was
approved for. `DecisionIsDurable`: the refinement of `DurableIntent`.

*DeviceRemoval.* `DoneIsTrue`: done means that the Claim is gone and, while all
mounts fit on the page that is read, the mount, then and later. `OnlyAuthorizedIsRevoked`: a late command never takes the Claim of a device
that was added again. `IntentIsDurable`: the refinement of `DurableIntent`.
`CallsEnd`: every call is answered, also when the mount never goes.

*Management.* `RefusedWriteIsUnapplied`: a write that took effect is not told as
refused for good, over every translation of a failure, and a repeated creation is
not refused for what an earlier attempt did. A final refusal does leave three things
behind: the Bodies an archive has released when Data then refuses it, a device write
whose device cannot be read back, and what an earlier attempt did under a revision
that is stale in the repeated one. `OnlyOwnIsReached`: nothing of another Owner's is
changed or shown; where a list or a relay is scoped by the Agent itself (tasks,
conversations), this rests on the Agent, as the code does. `OrphansOvertook`: a Body
is left with an archived Companion only if it was assigned after the archive listed
it, or if Kernel answered its release from an earlier record.

*MissionControl.* `OkIsEarned`: a lost source never looks like a quiet house, with
one exception of the code's: an Agent that answers without a list.
`PresenceIsObserved`: presence is the channel's, of the claim that is listed. It is
the device list that can be wrong here, where two reads meet; the map keys presence
by device id alone, and for it the property says only that the inventory adds none.
`ActiveIsDrawn`: what runs is drawn, or the lane says it was cut, and highlighted;
the highlight is on a hop that runs for the status "running", and merely present for
the other active word. `HistoryIsWhole`: a history scrolled to its end over lists
whose oldest rows are dated has shown every turn, those excepted that began at the
same moment as another.

*AuditIndex.* `AcknowledgedIsIndexed`: what the bus will not deliver again has a
row, or had one that a prune deleted. `PruneIsExact`: both bounds hold after a
prune, and a row that is not too old goes only for `MaxRows` newer ones that stay.
`EventsAreIndexed`: once the store is open, every published event gets its row when
failures stop. `DeadFeedIsReported`: neither a dead subscription nor a task that is
over goes on being reported as healthy.

*ToolJobs.* `WorkIsExclusive`: jobs share neither board nor port with each other
nor a port with a monitor or probe that has it reserved. `ActiveHasRunner`: no job
keeps its board busy without a task, unless a failed write took the task away, and
none after a restart. `NoStreamIsForgotten`: no follower joins between the end of a
job and the list of those its task tells; that the list is worked off is not claimed.
`SessionKeepsItsPort`: a session that ends never frees its successor's port.
`CancelStopsSteps`: a cancelled job makes no further process.

## 5. Proofs

Checked by TLAPS for every value of the constants that satisfies the assumptions
of the modules: bounds are naturals (a capacity, queue size or reply length is at
least 1), "none" values lie outside the sets they are added to, the operator's
request id and actor are not a phone's. Every invariant and every action property
that a passing run checks of these eight components is a theorem, and so are the
three refinements. Each inductive invariant was checked by TLC, as an invariant of
its run's instance, before it was proved.

All proofs have the same shape: `Inv` holds initially, each action preserves it,
and the properties follow from it. What an operator of the model does to one row
is a lemma; an action's step then only says which rows it touches.

**BootstrapAuthority_proofs.** `ClaimStateIsExact` (`ClaimedIffHeld`),
`EpochsDoNotLeak`, `OneCurrentWindow` (`OneLiveWindow`), `GrantsComeFromWindows`
(`GrantConsumesWindow`), `LastControllerIsKept` and `AuthorityImplementsGrants`
(`ImplementsGrants`) hold whatever the clock does. Their `Inv` says that one row at
most is live and of the current epoch, that no grant is active outside it, and
that `claim_state` is exact; the second part is what a reset needs, which moves to
an epoch in which nobody may hold yet. `OpenWindowsAreSeen`
(`OpenWindowIsAdvertised`), `ReplayIsNoRestore` (`ReplayCoversNoRevocation`) and
`WindowStands` (`StandingWindow`) are about what the code reads off timestamps.
They rest on `OrderInv`, inductive together with `Inv`, which needs nothing of the
clock: a live row that is not misfiled reads later than every other (`RowsOK`), a row
consumed for a grant that was revoked since reads earlier than the grant its phone
holds now, unless that is misfiled (`LapsedOK`), and on a claimed Host windows do not
expire and one stands if the policy asks for it and no reopening was missed
(`StandsOK`).

**NetworkChange_proofs.** `NetworkIsConfirmed` (`UnguardedNetworkIsConfirmed`) and
`SuccessIsFinal` (`SucceededIsFinal`). Neither is inductive; `Inv` adds where a
request may be:

* `StagingIsPrivate`: an operation being staged belongs to one request;
* `ActivationIsGuarded`: a request that activates a connection has its checkpoint
  under it, so the network it leaves is the confirmed one;
* `ConfirmedIsUnguarded`: a request that has destroyed its checkpoint never finds
  it again, so recording success is safe however late it comes;
* `UndoneIsConfirmed`: between rollback and destruction of a checkpoint the
  network is already the confirmed one;
* `WorkersHaveOperation`, `UnusedIsUnknown`, `StoppedIsIdle`: what an idle request,
  an unused id and a stopped daemon cannot have;
* `NetworkOK`: what a checkpoint would restore, or else the current network, is
  confirmed or none.

**CommissioningStream_proofs.** `OneSpeaker` (`OnlyTheCurrentLinkSpeaks`) and
`OneLateRequest` (`OneRequestAfterTheEnd`). A session looks at its link's `closed`
before it speaks, and a link that is not closed is the current one
(`OpenIsCurrent`). The session that does not look again is the one whose
indication was just confirmed; the slot it waits on is the one on the air
(`SlotIsOnAir`), which is the current link's by induction. `QuietBefore`: no
subscription outlives its listener. `RowsOK`: a request carried out late ended its
session with it.

**LocalApi_proofs.** `OneSetup` (`SetupIsExclusive`), `StandingEndsFirst`
(`RemovalEndsStanding`), `SessionsAreKept` (`SessionsLeaveForAReason`); `TypeCorrect`
includes that the store stays within its capacity. `Inv` adds `SessionsOK`: every
token of the store or of a request stands for a session that has not changed hands
since, and a request's arguments fit its kind. The action property needs it to
tell a session that was refused from one whose check failed. `ScopeOK`: without a
Workspace nobody has an Owner scope and the Hub knows no phone, which is why a
removal that finds no Owner may skip the withdrawal.

**DeviceAdmission_proofs.** `AnswersHold` (`AnsweredDecisionHolds`),
`MountsAreApproved` (`MountedForItsOwner`), `Refinement` (`DecisionIsDurable`).
`Inv` adds `UndecidedOK` (an Enrollment to be decided has no Decision, so the Hub
decides it once), `HandlersHaveRow` (a handler past its intent, and a command under
way whose handler is gone, decide what the row says), `LogOK` and `ResultOK` (what
was carried out some row names; a result, recorded or in hand, stands for a
Decision carried out), and `OperationsOK` (the operator's handler reaches the
Kernel only with an Owner the Hub has approved, and approvals are not taken back).

**DeviceRemoval_proofs.** `DoneHolds` (`DoneIsTrue`), `AuthorizedRevocation`
(`OnlyAuthorizedIsRevoked`), `RowsAreKept` and `Refinement` (`IntentIsDurable`).
`Inv` adds `RefsOK` (what is named is a generation a Claim has had),
`HandlersHaveRow`, `LogOK` and `ResultOK` as above, and `ObservedOK`: a mount seen
to be gone from a page that holds all mounts is gone for good, because mounts follow
Claims and a later Claim has a later generation. `RowStep` and `HubStep` say what any step does to the ledger and
to the Hub; the refinement follows from them, with a new row, a recorded result and
a carried-out command as the abstract `Intend`, `Record` and `CarryOut`.

**AuditIndex_proofs.** `NothingAcknowledgedIsMissing` (`AcknowledgedIsIndexed`):
`Inv` adds `DeliveredIsPublished` and `BatchOK`, which carries the commit's effect
over the await before the acknowledgement. `PruneKeepsTheNewest` (`PruneIsExact`)
rests on `Numbered`, that rows have different `ingest_seq`. The floor that `prune`
computes is the number of the row at offset `MaxRows - 1`; `FloorLemma` shows from
the least and greatest elements of finite sets that at most `MaxRows` rows are at
or above it, and that each row below it leaves `MaxRows` newer ones.

**ToolJobs_proofs.** `ExclusiveWork` (`WorkIsExclusive`), `RunnersExist`
(`ActiveHasRunner`), `StreamsAreListed` (`NoStreamIsForgotten`), `PortsAreKept`
(`SessionKeepsItsPort`), `CancelIsObeyed` (`CancelStopsSteps`). `Inv` adds
`RecordsOK` (a record has a task exactly while it is queued or running, unless it is
lost, and followers to tell only once it is neither) and `FollowersOK` (a task that is to
tell a follower finds it, following that job and not told yet; one that was told
follows a job that has ended). With them no follower joins between the end of a job
and the list of those it tells.

Each of the eight modules also proves `TypeCorrect`.

**Only model-checked.**

* The liveness properties `RequestsAreAnswered`, `ChangeSettles`,
  `ClosedSessionsEnd`, `CallsEnd`, `EventsAreIndexed`, `DeadFeedIsReported`:
  fairness and ENABLED are outside what the prover supports.
* The properties of `Management` and `MissionControl`, for which there is no proof
  module. `RefusedWriteIsUnapplied` and `OnlyOwnIsReached` are a case analysis over some
  sixty routes whose cases do not interact. The lanes, the cut and the history of
  `MissionControl` fold over sequences of rows, and what a fold computes for every
  input needs induction over data, which the installed provers cannot do.
* `ConfirmationIsHeard` and `ListedIsRestorable`, which do not hold.

## 6. Where code and documentation disagree

Two disagreements have a run of their own, because the property a comment states
is one TLC refutes.

* `stream_confirm`: sessions of one listener share the confirmation slot, and
  `indicate` empties it in its `finally` whoever it belongs to
  (`bluez.py:184`). A phone that reconnects within five seconds loses the
  confirmation of its new link.
* `config_restore`: `restore` looks its source up and then takes a snapshot, whose
  rotation may delete that source (`backups.py:81`). Restoring the oldest of a full
  set fails.

The others were met while modelling. The models do what the code does, and the
properties above are stated so that they hold of it.

*Authority and network.* Timestamps are compared as text, and `_timestamp` leaves the
microseconds out at a full second: a window minted at 12:00:00 reads as later than
one minted at 12:00:00.5. So there, and when the clock is set back, an open window
may be hidden by an older row, a start may mint over it, and a replay may be answered
over a revocation: what `misfiled` excepts is exactly this. A standing window that
could not be put back after a claim stays away until the next start or code, although
`reopen_standing_claim_window` calls that "exactly the lockout the declaration exists
to prevent". A development reset opens no window although its comment says
the Host conjures one (`service.py:825`). No code acts on the fifth wrong code
although the recovery window's documentation says it does (`service.py:740`).
`update_operation` has no condition, so a staging in flight during a reset writes
its operation of the old epoch back to `waiting_confirmation`. A rollback of an
operation the adapter does not hold marks the row `compensating` and is refused on
every retry. `_interfaces` raises an error `configure_network` does not catch,
which leaves the operation `running` until a restart (`network_manager.py:165`).

*BLE.* A closed link stays in `listener._link` until StopNotify. Cancelling the
supervisor skips the lines that cancel the sessions and never reports "stopping".
One queued request is carried out after its phone left. A restart of bluetoothd is
not noticed.

*Local API.* A voucher is signed whatever status the Hub answered the standing with
(`clients.py:2011`, against the comment at `control_plane/service.py:571`), so no
property says that a signed voucher has its standing. A record may arrive between
the withdrawal of a phone's standing and its revocation, since its session stands
until then; `RemovalEndsStanding` excepts it.
`forget_owner` is never called.

*Admission and removal.* `_validate_decision_target` refuses the retry of a
rejection that was committed, although `admission_intents.py:5` promises its
result. A removal that half-completed "must be retryable" (`local_api/app.py:1276`);
every call stamps a new `issued_at`, which the ledger compares, so the retry is a
409 (the tests use a fixed clock). The broker's client raises failures that are not
retryable (`capability.py:276`), so a Hub that cannot be reached makes a removal
`blocked`, also if the Hub has revoked the Claim. `_dispatch` reads
`business_owner_id` (`capability.py:194`), which `ObserveRemovalDelivery` does not
have, so the erase is always unknown. `list_mounts` reads the first 100 mounts: a
device whose mount is not among them counts as unmounted, and its removal is told as
done while it is mounted; `DoneIsTrue` speaks of mounts that fit on the page.

*Management.* A refused release aborts `put_away` although its docstring calls it
"not an error"; Bodies stay released when the archive is then refused. Its
comment says that the two leave "no orphan active assignment" and that "the window
closes itself" (`lifecycle.py:113`). A Body assigned between the listing and the archive keeps
answering as an archived Companion, and so does, after archive, restore, assign and
archive again, one whose release Kernel answers from its record of the first
(`_release_request_id` is deterministic): `OrphansOvertook` names both, and what
would reconcile them is not in this repository. `put_default` sends the revision the
phone last saw although its comment says that a phone "that lost the response can
simply ask again" (`local_api/management/router.py:2588`): the repeated request is
refused as stale by an authority that compares revisions first, and so is every
other write under a revision. A 409 may follow a write that committed (`_reread`). A refusal of kind "rejected"
of a face is answered as a retryable 500 (`clients.py:566` against `errors.py:59`).
`device_removal_progress` may raise outside the `try` of `remove_device`. Kernel's
422 and a missing credential become a retryable 503 in the devices client. The
rows of `list_tasks` are not compared with the Owner. `rename_companion` and
`restore_chapter` cannot be reached: their routes answer 410.

*Mission Control.* `_project_runtime_activities` cuts at 12 and 48 without saying so
although a comment says that there is no cap; channel presence is keyed by device
id alone; a Body that a limit cut off is added again as unknown; a turn that began
at the same moment as another may fall between two pages, and one whose start
cannot be parsed ends the walk; an unknown active status is drawn as done. An Agent
whose answer holds no list is recorded as an Agent with nothing to tell, in the map
and in the history, which then ends, although `_channel_presence` takes the same
answer of the channel provider for a failure.

*Audit.* `prune` documents that an `ingest_seq` is never reused
(`audit/index.py:227`); the column is a plain `INTEGER PRIMARY KEY`, so after the
newest rows went by age the next rows get their numbers again. `Numbered`, that no
two rows there are share a number, is what holds. The indexer's failures "are logged
and retried" (`audit/runner.py:20`) once it polls; one in opening the store ends the
task, which is logged and not started again before the process is.

*Tools.* A follower that left a full queue keeps the job's task at its last `put`
(`esp32/service.py:659`), and the followers behind it wait with the task. A
reservation is dropped after 15 s under a probe that still opens its port, so that
`WorkIsExclusive` is about reservations and not about who has the port open. A job
lost to a failed write keeps its board busy until a restart. Lines written between the read of the history and the
subscription are lost to a follower. A job cancelled while its process is made runs
that step. A phone that leaves while a port is being opened leaks the port.

## 7. Not modelled

The test doubles of the bootstrap ports; key and certificate files, preflight and
settings; read-only projections without memory (health, benchmarks, blackboard,
replay, event stream); the NATS key-value client, which the application never sets
up; the web front end; deployment files. Cryptography is abstracted: a signature is
by a Controller's key or is refused. Within the modelled parts: schema migration,
status and endpoint documents, network scans and logging; retention of the audit
stream, a power cut that undoes a committed batch and the index's read queries;
what a removal reports of the device's own erase, and pages of Claims beyond the
first; the content of log lines, forms and personas. `PROJECT.json`
lists every part with the reason, and the hazards of the code with the properties
that cover them or the reason why none does.
