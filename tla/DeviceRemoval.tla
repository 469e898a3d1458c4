---------------------------- MODULE DeviceRemoval ----------------------------
(***************************************************************************)
(* Removing a device from its Owner.  A phone calls the Local API, which   *)
(* reads the device's Claim and hands a delegation to the lifecycle        *)
(* workflow over a Unix socket.  The workflow writes down an intent, has   *)
(* the Hub revoke the Claim through a broker in the Admin process, writes  *)
(* down the result, watches the Kernel's mount go, and answers.            *)
(*                                                                         *)
(* Every call has a handler whose "at" is the await it is in.  Either side *)
(* may give up while the other goes on: the Local API after its timeout,   *)
(* the workflow while the broker still carries its command to the Hub.     *)
(* The workflow may be killed at every await; its ledger stays.  Hub,      *)
(* Kernel and the device's own enrolment are external.                     *)
(***************************************************************************)
EXTENDS Integers, FiniteSets

CONSTANTS
    Requests,       \* request ids a phone makes up
    Devices,        \* device_instance_id values
    Calls,          \* calls of the Local API, each made once
    NoRow,          \* a request without a RemovalIntent
    NoTarget,       \* the same, for the abstract specification
    ClockSteps,     \* whether the wall clock may be set back
    PageSize,       \* mounts the Kernel lists, removed ones too (100)
    MaxGeneration,  \* bound: enrolments of a device
    MaxInstant      \* bound: instants of the wall clock

ASSUME BoundsAssumption ==
    /\ MaxGeneration \in Nat \ {0} /\ MaxInstant \in Nat
    /\ PageSize \in Nat /\ IsFiniteSet(Devices)
    /\ ClockSteps \in BOOLEAN

VARIABLES
    claim,      \* Hub: generation of each device's Claim and whether it is active
    log,        \* Hub: commands carried out, as <<request, DeviceRef>>
    mount,      \* Kernel: generation of each device's mount and whether it is active
    row,        \* workflow: removal_intents, by request id
    at,         \* per call: the await its handler is in
    request,    \* per call: payload.request_id
    ref,        \* per call: target_device_ref, first only its device
    context,    \* per call: issued_at of its OwnerAuthorizationContext
    outcome,    \* per call: what the Hub answered
    removed,    \* per call: the condition mount_removed
    pending,    \* calls whose revocation is on its way to the Hub
    answer,     \* per call: what the phone was told
    now         \* datetime.now(UTC)

hub == <<claim, log>>
handler == <<at, request, ref, context, outcome, removed>>
vars == <<hub, mount, row, handler, pending, answer, now>>

Results == {"committed", "replayed"}
Refs == Devices \X Nat
Rows == [ref : Refs, context : Nat, result : {"none"} \cup Results]

ASSUME NamesAssumption == NoRow \notin Rows /\ NoTarget \notin Refs

\* a device nobody has enrolled
Unclaimed == [generation |-> 0, active |-> FALSE]

\* awaits of the workflow's handler
Working == {"sent", "revoke", "answered", "mount", "erase"}

Init ==
    /\ claim \in [Devices -> {Unclaimed, [generation |-> 1, active |-> TRUE]}]
    /\ mount = [d \in Devices |-> Unclaimed]
    /\ log = {} /\ pending = {}
    /\ row = [r \in Requests |-> NoRow]
    /\ at = [k \in Calls |-> "unused"]
    /\ request \in [Calls -> Requests]
    /\ ref \in [Calls -> Devices \X {0}]
    /\ context = [k \in Calls |-> 0]
    /\ outcome = [k \in Calls |-> "none"]
    /\ removed = [k \in Calls |-> FALSE]
    /\ answer = [k \in Calls |-> "none"]
    /\ now = 0

\* the handler of k ends and its answer reaches the phone, unless the Local API
\* has given up on it
Reply(k, result) ==
    /\ at' = [at EXCEPT ![k] = "ended"]
    /\ answer' = [answer EXCEPT ![k] = IF @ = "none" THEN result ELSE @]

-----------------------------------------------------------------------------
(* The Local API.                                                           *)

\* remove_device: the phone names a request and a device
RemoveDevice(k) ==
    /\ at[k] = "unused"
    /\ at' = [at EXCEPT ![k] = "claims"]
    /\ UNCHANGED <<hub, mount, row, request, ref, context, outcome, removed,
                   pending, answer, now>>

\* _owned_device_ref, then remove: the Claim gives the DeviceRef, the delegation
\* is stamped and sent
SendDelegation(k) ==
    LET d == ref[k][1] IN
    /\ at[k] = "claims"
    /\ \/ /\ claim[d] # Unclaimed
          /\ \E t \in 1..MaxInstant :
                /\ ClockSteps \/ t > now
                /\ now' = t
                /\ context' = [context EXCEPT ![k] = t]
          /\ ref' = [ref EXCEPT ![k] = <<d, claim[d].generation>>]
          /\ at' = [at EXCEPT ![k] = "sent"]
          /\ UNCHANGED answer
       \/ /\ \/ claim[d] = Unclaimed /\ Reply(k, "not_found")
             \/ Reply(k, "unavailable")
          /\ UNCHANGED <<ref, context, now>>
    /\ UNCHANGED <<hub, mount, row, request, outcome, removed, pending>>

\* the timeout around _remove_over_workflow_socket, or the Local API stops
GiveUp(k) ==
    /\ at[k] \in Working
    /\ answer[k] = "none"
    /\ answer' = [answer EXCEPT ![k] = "unavailable"]
    /\ UNCHANGED <<hub, mount, row, handler, pending, now>>

-----------------------------------------------------------------------------
(* The workflow: _handle_connection and remove_controller_device.           *)

\* the content an existing intent is compared with
SameContent(k) ==
    /\ row[request[k]].ref = ref[k]
    /\ row[request[k]].context = context[k]

\* get_or_create, and the Hub is asked unless its result is in the row
Accept(k) ==
    LET r == request[k] IN
    /\ at[k] = "sent"
    /\ \/ /\ row[r] = NoRow
          /\ row' = [row EXCEPT ![r] =
                       [ref |-> ref[k], context |-> context[k], result |-> "none"]]
          /\ at' = [at EXCEPT ![k] = "revoke"]
          /\ pending' = pending \cup {k}
          /\ UNCHANGED <<outcome, answer>>
       \/ /\ row[r] # NoRow /\ SameContent(k) /\ row[r].result = "none"
          /\ at' = [at EXCEPT ![k] = "revoke"]
          /\ pending' = pending \cup {k}
          /\ UNCHANGED <<row, outcome, answer>>
       \/ /\ row[r] # NoRow /\ SameContent(k) /\ row[r].result # "none"
          /\ outcome' = [outcome EXCEPT ![k] = row[r].result]
          /\ at' = [at EXCEPT ![k] = "mount"]
          /\ UNCHANGED <<row, pending, answer>>
       \/ /\ row[r] # NoRow /\ ~SameContent(k)
          /\ Reply(k, "conflict")
          /\ UNCHANGED <<row, outcome, pending>>
    /\ UNCHANGED <<hub, mount, request, ref, context, removed, now>>

\* the delegation has expired, or the ledger cannot be written
Refuse(k) ==
    /\ at[k] = "sent"
    /\ \E result \in {"forbidden", "unavailable"} : Reply(k, result)
    /\ UNCHANGED <<hub, mount, row, request, ref, context, outcome, removed,
                   pending, now>>

\* (faulty variant: the handler goes on without the Hub)
RevokeFailsForward(k) ==
    /\ at[k] \in {"revoke", "answered"}
    /\ at' = [at EXCEPT ![k] = "mount"]
    /\ UNCHANGED <<hub, mount, row, request, ref, context, outcome, removed,
                   pending, answer, now>>

\* the broker does not answer in time or says that the Hub failed; the command
\* may still be on its way.  The broker client's failures are not retryable.
RevokeFails(k) ==
    /\ at[k] \in {"revoke", "answered"}
    /\ Reply(k, "refused")
    /\ pending' \in {pending, pending \ {k}}
    /\ UNCHANGED <<hub, mount, row, request, ref, context, outcome, removed, now>>

\* mark_hub_committed accepts the first result, and the same one again
MarkHubCommitted(k) ==
    /\ row[request[k]].result \in {"none", outcome[k]}
    /\ row' = [row EXCEPT ![request[k]].result = outcome[k]]

\* the Hub's answer arrives: a refusal ends the handler, and so does a result
\* that differs from the recorded one or cannot be recorded
RevokeAnswered(k) ==
    /\ at[k] = "answered"
    /\ \/ /\ outcome[k] = "refused"
          /\ Reply(k, "refused")
          /\ UNCHANGED row
       \/ /\ outcome[k] \in Results
          /\ MarkHubCommitted(k)
          /\ at' = [at EXCEPT ![k] = "mount"]
          /\ UNCHANGED answer
       \/ /\ outcome[k] \in Results
          /\ row[request[k]].result \notin {"none", outcome[k]}
          /\ Reply(k, "invalid")
          /\ UNCHANGED row
       \/ /\ outcome[k] \in Results
          /\ Reply(k, "unavailable")
          /\ UNCHANGED row
    /\ UNCHANGED <<hub, mount, request, ref, context, outcome, removed, pending,
                   now>>

\* the devices of which mounts m have a row
Mounted(m) == {d \in Devices : m[d].generation # 0}

OnOnePage(m) == Cardinality(Mounted(m)) <= PageSize

\* list_mounts: one page, and no further one is asked for
MountPages ==
    {page \in SUBSET Mounted(mount) :
       IF OnOnePage(mount) THEN page = Mounted(mount) ELSE Cardinality(page) = PageSize}

\* (faulty variant: the mount is awaited without a deadline)
ObserveMountForever(k) ==
    LET d == ref[k][1] IN
    /\ at[k] = "mount"
    /\ \E page \in MountPages : d \notin page \/ ~mount[d].active
    /\ removed' = [removed EXCEPT ![k] = TRUE]
    /\ at' = [at EXCEPT ![k] = "erase"]
    /\ UNCHANGED <<hub, mount, row, request, ref, context, outcome, pending,
                   answer, now>>

\* _wait_for_mount_removal: no active mount of the device on the page, or the
\* deadline; a Kernel that does not answer leaves the removal unfinished
ObserveMount(k) ==
    LET d == ref[k][1] IN
    /\ at[k] = "mount"
    /\ \/ /\ \E page \in MountPages :
                removed' = [removed EXCEPT ![k] = d \notin page \/ ~mount[d].active]
          /\ at' = [at EXCEPT ![k] = "erase"]
          /\ UNCHANGED answer
       \/ /\ Reply(k, "unfinished")
          /\ UNCHANGED removed
    /\ UNCHANGED <<hub, mount, row, request, ref, context, outcome, pending, now>>

\* _observe_device_erase never holds the answer back
ObserveErase(k) ==
    /\ at[k] = "erase"
    /\ Reply(k, IF removed[k] THEN "done" ELSE "unfinished")
    /\ UNCHANGED <<hub, mount, row, request, ref, context, outcome, removed,
                   pending, now>>

\* the workflow stops: its handlers and unread calls are gone, the ledger is not
Restart ==
    /\ \E k \in Calls : at[k] \in Working
    /\ at' = [k \in Calls |-> IF at[k] \in Working THEN "ended" ELSE at[k]]
    /\ answer' = [k \in Calls |-> IF at[k] \in Working /\ answer[k] = "none"
                                  THEN "unavailable" ELSE answer[k]]
    /\ UNCHANGED <<hub, mount, row, request, ref, context, outcome, removed,
                   pending, now>>

-----------------------------------------------------------------------------
(* The authorities.                                                         *)

\* (faulty variant: the Claim is read again when the command is sent)
CommandRederived(k) ==
    <<request[k], <<ref[k][1], claim[ref[k][1]].generation>>>>

\* the command of an intent: its id is made of the intent and the DeviceRef
Command(k) == <<request[k], row[request[k]].ref>>

\* whether the Claim r names is no longer active
Gone(r) ==
    \/ claim[r[1]].generation > r[2]
    \/ claim[r[1]].generation = r[2] /\ ~claim[r[1]].active

\* (faulty variant: the command names a device and no generation)
HubOutcomesUnfenced(command) ==
    IF command \in log THEN {"replayed"} ELSE {"committed"}

\* the Hub replays a command it has carried out and refuses another generation;
\* a Claim that is revoked already it may confirm or refuse
HubOutcomes(command) ==
    LET r == command[2]
        c == claim[r[1]]
    IN  IF command \in log THEN {"replayed"}
        ELSE IF c.generation # r[2] THEN {"refused"}
        ELSE IF c.active THEN {"committed"} ELSE {"committed", "refused"}

\* the broker's call reaches the Hub, whether or not somebody still waits for it
HubRevokes(k) ==
    LET command == Command(k)
        d == command[2][1]
    IN  /\ k \in pending
        /\ pending' = pending \ {k}
        /\ \E o \in HubOutcomes(command) :
              /\ \/ /\ o = "committed"
                    /\ log' = log \cup {command}
                    /\ claim' = [claim EXCEPT ![d].active = FALSE]
                 \/ o # "committed" /\ UNCHANGED hub
              /\ \/ /\ at[k] = "revoke"
                    /\ at' = [at EXCEPT ![k] = "answered"]
                    /\ outcome' = [outcome EXCEPT ![k] = o]
                 \/ at[k] # "revoke" /\ UNCHANGED <<at, outcome>>
        /\ UNCHANGED <<mount, row, request, ref, context, removed, answer, now>>

\* a device whose Claim was revoked is added again
Enrol(d) ==
    /\ ~claim[d].active
    /\ claim[d].generation < MaxGeneration
    /\ claim' = [claim EXCEPT ![d] = [generation |-> @.generation + 1, active |-> TRUE]]
    /\ UNCHANGED <<log, mount, row, handler, pending, answer, now>>

\* the Kernel catches up with the Claim
KernelFollows(d) ==
    /\ mount[d] # claim[d]
    /\ mount' = [mount EXCEPT ![d] = claim[d]]
    /\ UNCHANGED <<hub, row, handler, pending, answer, now>>

-----------------------------------------------------------------------------

Handle(k) ==
    \/ SendDelegation(k) \/ Accept(k) \/ Refuse(k) \/ RevokeFails(k)
    \/ RevokeAnswered(k) \/ ObserveMount(k) \/ ObserveErase(k)

Next ==
    \/ \E k \in Calls : RemoveDevice(k) \/ Handle(k) \/ GiveUp(k) \/ HubRevokes(k)
    \/ \E d \in Devices : Enrol(d) \/ KernelFollows(d)
    \/ Restart

Spec == Init /\ [][Next]_vars

\* Every await of a handler has a timeout or a deadline.
FairSpec == Spec /\ \A k \in Calls : WF_vars(Handle(k))

-----------------------------------------------------------------------------
(* Properties.                                                              *)

\* Claims, mounts, rows and handlers keep their shape.
TypeOK ==
    /\ claim \in [Devices -> [generation : Nat, active : BOOLEAN]]
    /\ mount \in [Devices -> [generation : Nat, active : BOOLEAN]]
    /\ log \subseteq Requests \X Refs
    /\ row \in [Requests -> Rows \cup {NoRow}]
    /\ at \in [Calls -> {"unused", "claims", "ended"} \cup Working]
    /\ request \in [Calls -> Requests]
    /\ ref \in [Calls -> Refs]
    /\ context \in [Calls -> Nat]
    /\ outcome \in [Calls -> {"none", "refused"} \cup Results]
    /\ removed \in [Calls -> BOOLEAN]
    /\ pending \subseteq Calls
    /\ answer \in [Calls -> {"none", "done", "unfinished", "refused", "conflict",
                             "invalid", "forbidden", "not_found", "unavailable"}]
    /\ now \in Nat

Abstract == INSTANCE DurableIntent WITH
    Targets <- Devices \X (1..MaxGeneration),
    target <- [r \in Requests |-> IF row[r] = NoRow THEN NoTarget ELSE row[r].ref],
    effects <- log,
    recorded <- {r \in Requests : row[r] # NoRow /\ row[r].result # "none"}

\* The ledger: one DeviceRef per request, durable before the Hub is asked, and
\* a result only for what the Hub has done, also when answers are lost, commands
\* arrive late and the workflow dies.
IntentIsDurable == Abstract!Spec

\* whether no active mount belongs to the Claim r names
Unmounted(r) == ~(mount[r[1]].active /\ mount[r[1]].generation = r[2])

\* "completed": a phone that is told done has no active Claim of that generation,
\* and, as long as the Kernel's mounts fit on one page, no active mount of it, then
\* and ever after.  (A mount beyond the page is taken for one that is gone.)
DoneIsTrue ==
    \A k \in Calls : answer[k] = "done" =>
        Gone(ref[k]) /\ (OnOnePage(mount) => Unmounted(ref[k]))

\* The Owner authorizes one DeviceRef: a Claim is revoked only in the generation
\* an intent names, however late the command arrives and even if the device was
\* added again meanwhile.
OnlyAuthorizedIsRevoked ==
    [][\A d \in Devices : claim[d].active /\ ~claim'[d].active =>
         \E r \in Requests : row[r] # NoRow /\ row[r].ref = <<d, claim[d].generation>>]_vars

\* mark_hub_committed: the content of an intent and its first result are kept,
\* whichever of two handlers of one request is answered last.
RowIsKept ==
    [][\A r \in Requests : row[r] # NoRow =>
         /\ row'[r] # NoRow
         /\ row'[r].ref = row[r].ref /\ row'[r].context = row[r].context
         /\ row[r].result # "none" => row'[r].result = row[r].result]_vars

\* Every call comes to an end in the workflow, and the phone is told something,
\* also when the mount never goes.
CallsEnd == \A k \in Calls : at[k] = "claims" ~> at[k] = "ended" /\ answer[k] # "none"
=============================================================================
