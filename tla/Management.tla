----------------------------- MODULE Management -----------------------------
(***************************************************************************)
(* The phone managing its Eidolons: a request goes from the Local API's    *)
(* route over loopback to Admin's handler, which calls one authority after *)
(* another - Data for Companions and the Owner, Kernel for the Bodies      *)
(* assigned to them, Agent for conversations and tasks, Memory, Hub and    *)
(* eidolond - and what they answer travels back as Refusals says.          *)
(*                                                                         *)
(* Other requests run between any two calls of a handler.  A call's effect *)
(* at its authority and what the client makes of the reply are one step;   *)
(* the reply may be lost, unreadable or a failure after the effect took    *)
(* place.  The Local API may stop waiting while Admin's handler goes on,   *)
(* and Admin may die.  Authorities are external, and modelled by what the  *)
(* clients rely on.                                                        *)
(***************************************************************************)
EXTENDS Naturals, FiniteSets, Refusals

CONSTANTS
    Calls,        \* requests that may be in flight at once
    Companions,   \* the asking Owner's Companions
    Strange,      \* a Companion, or a task, of somebody else
    Bodies,       \* the Owner's mounted devices
    Nobody,       \* no Companion
    NoBody,       \* no device of this Owner's
    Refusing,     \* statuses an authority may refuse with of its own accord
    MaxRevision   \* bound: changes to one Companion, Body or Owner

ASSUME NoneAssumption == Strange \notin Companions /\ Nobody \notin Companions
ASSUME BoundsAssumption == MaxRevision \in Nat

VARIABLES
    companion,  \* Data: lifecycle state and revision of each Companion
    owner,      \* Data: which Companion answers, and the Owner's revision
    body,       \* Kernel: which Companion each Body is assigned to
    released,   \* Kernel: release requests it has on record
    call        \* requests in flight

world == <<companion, owner, body, released>>
vars == <<world, call>>

-----------------------------------------------------------------------------
(* Operations.                                                              *)

\* through the Local API's device client and back to the inventory
DeviceWrites == {"assign", "outputs"}

\* talking through devices: begun with ones the inventory shows, or looked at
\* and ended by the session's name
Opens == {"group", "converse", "share"}
Conversations == Opens \cup {"end"}

AdmissionReads == {"enrollments", "enrollment", "claims"}

\* about a device the phone names
OnDevice == DeviceWrites \cup Opens \cup {"remove"}

\* through the Local API's device clients to Admin's control plane
OverControlPlane == OnDevice \cup Conversations \cup AdmissionReads \cup {"target"}

\* reads of a Companion that is shown to be the Owner's by another read first
ProvedReads == {"getpersona", "history", "getface", "facestate"}

MemoryReads == {"library", "graph", "entries", "export", "recall", "progress"}

\* what Admin asks of an authority with a GET
Reads == ProvedReads \cup MemoryReads \cup AdmissionReads
         \cup {"companion", "conversations", "transcript", "task", "tasks", "context",
               "home", "roster", "activity", "template", "presets", "registry"}

\* replaced by versioned edits of the persona
Retired == {"rename", "chapter"}

Targets == Companions \cup {Strange}
Active == {c \in Companions : companion[c].state = "active"}

NoList == [b \in Bodies |-> 0]
Idle == [op |-> "none", on |-> Nobody, body |-> NoBody, rev |-> 0,
         stage |-> "idle", told |-> Unsaid, reached |-> FALSE,
         before |-> FALSE, resent |-> FALSE, listed |-> NoList, left |-> {}]

Init ==
    /\ \E d \in Companions :
          /\ owner = [default |-> d, revision |-> 1]
          /\ companion \in [Companions -> {[state |-> "active", revision |-> 1],
                                           [state |-> "absent", revision |-> 0]}]
          /\ companion[d].state = "active"
    /\ body \in [Bodies -> {[companion |-> c, revision |-> 1] : c \in Active \cup {Nobody}}]
    /\ released = {}
    /\ call = [k \in Calls |-> Idle]

-----------------------------------------------------------------------------
(* The life of a request.                                                   *)

\* where a request starts once the Local API knows whose it is
Entry(op) == IF op \in OverControlPlane THEN "scope" ELSE "sent"

Ask(k, op, on, b, rev) ==
    /\ call[k] = Idle
    /\ call' = [call EXCEPT ![k] = [Idle EXCEPT !.op = op, !.on = on, !.body = b,
                                                !.rev = rev, !.stage = Entry(op)]]
    /\ UNCHANGED world

At(k, op, stage) == call[k].op = op /\ call[k].stage = stage

Goto(k, stage) == call' = [call EXCEPT ![k].stage = stage]

\* the handler ends; a phone that was already told hears nothing more
Finish(k, told, reached) ==
    call' = [call EXCEPT ![k] = [@ EXCEPT
                !.stage = "told",
                !.told = IF @ = Unsaid THEN told ELSE @,
                !.reached = @ \/ reached,
                !.listed = NoList, !.left = {}]]

Tell(op, failure) ==
    CASE op \in DeviceWrites -> ToldOfDevice(failure)
      [] op \in Conversations -> ToldByStatus(failure)
      [] op \in AdmissionReads -> ToldOfAdmission(failure)
      [] op = "remove" -> ToldOfRemoval(failure)
      [] op \in {"traces", "trace"} -> ToldOfTrace(failure)
      [] OTHER -> Told(failure)

\* what a call may come to without any effect
Failures == {Unconfigured, Unavailable, ContractViolation}
            \cup {RaiseStatus(s) : s \in Refusing}

Fails(k) ==
    /\ \E f \in Failures : Finish(k, Tell(call[k].op, f), FALSE)
    /\ UNCHANGED world

\* (faulty variant: every request is sent again)
ReconnectsAlways(op) == TRUE

\* a reply lost on the way is asked for once more if the request only reads
Reconnects(op) == op \in Reads

\* what the client makes of a reply to the call that matters
Replies(k, reply, failure, reached, next) ==
    IF reply = Lost /\ Reconnects(call[k].op) /\ ~call[k].resent
    THEN call' = [call EXCEPT ![k].resent = TRUE, ![k].reached = @ \/ reached]
    ELSE IF failure = Fine /\ next # "told" /\ (next = "endpoints" => call[k].told = Unsaid)
    THEN call' = [call EXCEPT ![k].stage = next, ![k].reached = @ \/ reached]
    ELSE Finish(k, Tell(call[k].op, failure), reached)

\* what a client raises that holds no credential
Missing(op) == IF op = "account" THEN NoSmartHome ELSE Unconfigured

EffectReplies == {Answered(200), Garbled, Answered(500), Lost}
RefusalReplies == {Answered(s) : s \in Refusing} \cup {Lost}

\* an earlier attempt took effect, and its authority knows the request by the
\* id that the phone gave it
Recorded(k) == call[k].before /\ call[k].op \in {"create", "assign"}

\* the authority carries the request out, whatever becomes of its reply, or
\* refuses it, or is never asked; one it has on record it answers as before
Writes(k, effect, parse(_), next) ==
    \/ effect /\ \E r \in EffectReplies : Replies(k, r, parse(r), TRUE, next)
    \/ /\ \E r \in IF Recorded(k) THEN {Lost} ELSE RefusalReplies :
             Replies(k, r, parse(r), FALSE, next)
       /\ UNCHANGED world
    \/ Finish(k, Tell(call[k].op, Missing(call[k].op)), FALSE) /\ UNCHANGED world

\* a write whose content no property looks at
Relays(k, op) == At(k, op, "calling") /\ Writes(k, UNCHANGED world, Parse, "told")

\* the authority's routes that take the Owner refuse what is not the Owner's
RelaysScoped(k, op) ==
    /\ At(k, op, "calling")
    /\ Writes(k, call[k].on # Strange /\ UNCHANGED world, Parse, "told")

\* a read that did not come back with anything to show
ShowsNothing(k, op) ==
    /\ At(k, op, "calling")
    /\ \/ Reconnects(op) /\ ~call[k].resent /\ call' = [call EXCEPT ![k].resent = TRUE]
       \/ \E f \in Failures : Finish(k, Tell(op, f), FALSE)
    /\ UNCHANGED world

\* a read: what came back is shown, or was not what was asked for
Shows(k, op, failure) ==
    \/ At(k, op, "calling") /\ Finish(k, Tell(op, failure), failure = Fine) /\ UNCHANGED world
    \/ ShowsNothing(k, op)

\* a read that is only the first of an answer's
ShowsMore(k, op, next) ==
    \/ At(k, op, "calling") /\ Goto(k, next) /\ UNCHANGED world
    \/ ShowsNothing(k, op)

-----------------------------------------------------------------------------
(* Routes of the Local API: what the phone asks.                            *)

PutDefaultCompanion(k) ==
    \E c \in Targets : Ask(k, "default", c, NoBody, owner.revision)
CreateCompanion(k) ==
    \E c \in Companions : companion[c].state = "absent" /\ Ask(k, "create", c, NoBody, 0)

\* the revision is the phone's to leave out
PutCompanionLifecycle(k) ==
    \E c \in Targets, op \in {"archive", "restore"} :
       \/ Ask(k, op, c, NoBody, 0)
       \/ c \in Companions /\ Ask(k, op, c, NoBody, companion[c].revision)

PutDeviceCompanion(k) ==
    \E c \in Targets \cup {Nobody} :
       \/ \E b \in Bodies : Ask(k, "assign", c, b, body[b].revision)
       \/ Ask(k, "assign", c, NoBody, 1)

AskDevice(k, op) == \E b \in Bodies \cup {NoBody} : Ask(k, op, Nobody, b, 0)

PutDeviceOutputs(k) == AskDevice(k, "outputs")
OpenRoleGroup(k) == AskDevice(k, "group")
OpenConversation(k) == AskDevice(k, "converse")
OpenSharedSession(k) == AskDevice(k, "share")
RemoveDevice(k) == AskDevice(k, "remove")

AskAbout(k, op) == \E c \in Targets : Ask(k, op, c, NoBody, 0)
AskOwn(k, op) == Ask(k, op, Nobody, NoBody, 0)

GetCompanion(k) == AskAbout(k, "companion")
GetCompanionConversations(k) == AskAbout(k, "conversations")
GetConversation(k) == AskAbout(k, "transcript")
GetCompanionTask(k) == AskAbout(k, "task")
TaskAction(k) == AskAbout(k, "cancel") \/ AskAbout(k, "retry")
GetPersona(k) == AskAbout(k, "getpersona")
PutPersona(k) == AskAbout(k, "persona")
GetPersonaHistory(k) == AskAbout(k, "history")
GetFace(k) == AskAbout(k, "getface")
PutFace(k) == AskAbout(k, "face")
DeleteFace(k) == AskAbout(k, "clearface")
PatchOwner(k) == AskOwn(k, "name")
RevokeSessions(k) == AskOwn(k, "sessions")
GetMemoryLibrary(k) == AskOwn(k, "library")
GetMemoryGraph(k) == AskOwn(k, "graph")
GetMemoryEntries(k) == AskOwn(k, "entries")
GetMemoryExport(k) == AskOwn(k, "export")
GetMemoryRecollections(k) == AskOwn(k, "recall")
PreviewForgetting(k) == AskOwn(k, "preview")
ConfirmForgetting(k) == AskOwn(k, "forget")
GetForgetting(k) == AskOwn(k, "progress")
OperateHostService(k) == AskOwn(k, "service")
PowerOffHost(k) == AskOwn(k, "poweroff")
ReadHost(k) == AskOwn(k, "machine")

CloseSession(k) == AskOwn(k, "end")
GetDeviceOnboardingTarget(k) == AskOwn(k, "target")
ListDeviceEnrollments(k) == AskOwn(k, "enrollments")
ReadDeviceEnrollment(k) == AskOwn(k, "enrollment") \/ Ask(k, "enrollment", Strange, NoBody, 0)
ListDeviceClaims(k) == AskOwn(k, "claims")

GetContext(k) == AskOwn(k, "context")
GetHome(k) == AskOwn(k, "home")
ListCompanions(k) == AskOwn(k, "roster")
GetActivity(k) == AskOwn(k, "activity")
GetCompanionTasks(k) == AskAbout(k, "tasks")
GetFaceState(k) == AskAbout(k, "facestate")
GetPersonaTemplate(k) == AskOwn(k, "template")
GetPersonaPresets(k) == AskOwn(k, "presets")
PreviewPersona(k) == AskOwn(k, "draft")
GetSessionTraces(k) == AskOwn(k, "traces")
GetSessionTrace(k) == AskAbout(k, "trace")
SmartHomeRelay(k) == AskOwn(k, "registry") \/ AskOwn(k, "furnish")
SmartHomeAccounts(k) == AskOwn(k, "account")

\* refused where it arrives
PatchCompanion(k) ==
    /\ call[k] = Idle
    /\ \E op \in Retired, c \in Targets :
          call' = [call EXCEPT ![k] = [Idle EXCEPT !.op = op, !.on = c, !.stage = "told",
                                                   !.told = RefusalForStatus(410)]]
    /\ UNCHANGED world

Route(k) ==
    /\ call[k] = Idle
    /\ \/ PutDefaultCompanion(k) \/ CreateCompanion(k) \/ PutCompanionLifecycle(k)
       \/ PutDeviceCompanion(k) \/ PutDeviceOutputs(k) \/ RemoveDevice(k)
       \/ OpenRoleGroup(k) \/ OpenConversation(k) \/ OpenSharedSession(k) \/ CloseSession(k)
       \/ GetDeviceOnboardingTarget(k) \/ ListDeviceEnrollments(k)
       \/ ReadDeviceEnrollment(k) \/ ListDeviceClaims(k)
       \/ GetCompanion(k) \/ GetCompanionConversations(k) \/ GetConversation(k)
       \/ GetCompanionTask(k) \/ TaskAction(k)
       \/ GetPersona(k) \/ PutPersona(k) \/ GetPersonaHistory(k)
       \/ GetFace(k) \/ PutFace(k) \/ DeleteFace(k)
       \/ PatchOwner(k) \/ RevokeSessions(k)
       \/ GetMemoryLibrary(k) \/ PreviewForgetting(k) \/ ConfirmForgetting(k)
       \/ GetForgetting(k) \/ GetMemoryGraph(k) \/ GetMemoryEntries(k)
       \/ GetMemoryExport(k) \/ GetMemoryRecollections(k)
       \/ OperateHostService(k) \/ PowerOffHost(k) \/ ReadHost(k)
       \/ GetContext(k) \/ GetHome(k) \/ ListCompanions(k) \/ GetActivity(k)
       \/ GetCompanionTasks(k) \/ GetFaceState(k) \/ GetPersonaTemplate(k)
       \/ GetPersonaPresets(k) \/ PreviewPersona(k)
       \/ GetSessionTraces(k) \/ GetSessionTrace(k)
       \/ SmartHomeRelay(k) \/ SmartHomeAccounts(k) \/ PatchCompanion(k)

-----------------------------------------------------------------------------
(* Over loopback to Admin.                                                  *)

\* the Local API holds no credential, or the request never arrives
NeverArrives(k) ==
    /\ call[k].stage = "sent"
    /\ Finish(k, NotAnswering, FALSE) \/ Finish(k, NotConfigured, FALSE)
    /\ UNCHANGED world

\* where no handler of Admin's is at work
AwayFromAdmin(k) ==
    \/ call[k].stage \in {"idle", "told", "gathering", "scope", "cursor", "held"}
    \/ At(k, "remove", "calling")

\* what the phone is told when Admin does not answer the Local API
Unanswered(op) == IF op \in OverControlPlane THEN RefusalForStatus(503) ELSE NotAnswering

\* the Local API stops waiting; Admin's handler does not know
GivesUp(k) ==
    /\ ~AwayFromAdmin(k) \/ At(k, "remove", "calling")
    /\ call[k].stage \notin {"endpoints", "claims", "outputs"}
    /\ call[k].told = Unsaid
    /\ call' = [call EXCEPT ![k].told = Unanswered(call[k].op)]
    /\ UNCHANGED world

\* Admin dies: nothing goes on, and nobody is answered
AdminRestarts ==
    /\ \E k \in Calls : ~AwayFromAdmin(k)
    /\ call' = [k \in Calls |->
                  IF AwayFromAdmin(k) THEN call[k]
                  ELSE [call[k] EXCEPT
                          !.stage = "told", !.listed = NoList, !.left = {},
                          !.told = IF @ = Unsaid THEN Unanswered(call[k].op) ELSE @]]
    /\ UNCHANGED world

\* Admin's routes and the services behind them: what comes first
Received(k, op, stage) == At(k, op, "sent") /\ Goto(k, stage) /\ UNCHANGED world

PutDefault(k) == Received(k, "default", "calling")
PutCompanionProvision(k) == Received(k, "create", "calling")
PutAway(k) == Received(k, "archive", "listing")
BringBack(k) == Received(k, "restore", "calling")
RenameOwner(k) == Received(k, "name", "calling")
RevokeRuntimeSessions(k) == Received(k, "sessions", "calling")
ReadCompanion(k) == Received(k, "companion", "proving")
ReadConversations(k) == Received(k, "conversations", "calling")
ReadTranscript(k) == Received(k, "transcript", "calling")
ReadTask(k) == Received(k, "task", "calling")
PostTaskCancel(k) == Received(k, "cancel", "calling")
PostTaskRetry(k) == Received(k, "retry", "calling")
ReadPersona(k) == Received(k, "getpersona", "proving")
WritePersona(k) == Received(k, "persona", "proving")
ReadHistory(k) == Received(k, "history", "proving")
ReadFace(k) == Received(k, "getface", "proving")

\* (faulty variant: the picture goes to Data unproved)
SetFaceUnproved(k) == Received(k, "face", "calling")

SetFace(k) == Received(k, "face", "proving")
ClearFace(k) == Received(k, "clearface", "proving")
ReadFaceState(k) == Received(k, "facestate", "proving")
ReadLibrary(k) == Received(k, "library", "locating")
ReadGraph(k) == Received(k, "graph", "locating")
ReadDay(k) == Received(k, "entries", "locating")
ReadCopy(k) == Received(k, "export", "locating")
Recall(k) == Received(k, "recall", "locating")
Propose(k) == Received(k, "preview", "locating")
Apply(k) == Received(k, "forget", "locating")
Progress(k) == Received(k, "progress", "locating")
Mutate(k) == Received(k, "service", "calling")
PowerOff(k) == Received(k, "poweroff", "calling")
HostReads(k) == Received(k, "machine", "calling")
ReadContext(k) == Received(k, "context", "calling") \/ Received(k, "home", "calling")
ReadRoster(k) == Received(k, "roster", "calling")
ReadActivity(k) == Received(k, "activity", "calling")
ReadTasks(k) == Received(k, "tasks", "calling")
ReadTemplate(k) == Received(k, "template", "calling")
ReadPresets(k) == Received(k, "presets", "calling")
DraftPersona(k) == Received(k, "draft", "calling")
ReadTraces(k) == Received(k, "traces", "calling") \/ Received(k, "trace", "calling")
Registry(k) == Received(k, "registry", "calling") \/ Received(k, "furnish", "calling")
SmartHome(k) == Received(k, "account", "calling")

Handler(k) ==
    /\ call[k].stage = "sent"
    /\ \/ PutDefault(k) \/ PutCompanionProvision(k) \/ PutAway(k) \/ BringBack(k)
       \/ RenameOwner(k) \/ RevokeRuntimeSessions(k)
       \/ ReadCompanion(k) \/ ReadConversations(k) \/ ReadTranscript(k)
       \/ ReadTask(k) \/ PostTaskCancel(k) \/ PostTaskRetry(k)
       \/ ReadPersona(k) \/ WritePersona(k) \/ ReadHistory(k)
       \/ ReadFace(k) \/ SetFace(k) \/ ClearFace(k)
       \/ ReadLibrary(k) \/ Propose(k) \/ Apply(k) \/ Progress(k)
       \/ ReadFaceState(k) \/ ReadGraph(k) \/ ReadDay(k) \/ ReadCopy(k) \/ Recall(k)
       \/ Mutate(k) \/ PowerOff(k) \/ HostReads(k)
       \/ ReadContext(k) \/ ReadRoster(k) \/ ReadActivity(k) \/ ReadTasks(k)
       \/ ReadTemplate(k) \/ ReadPresets(k) \/ DraftPersona(k) \/ ReadTraces(k)
       \/ Registry(k) \/ SmartHome(k)

-----------------------------------------------------------------------------
(* The Local API's side of the requests about devices.                      *)

\* what comes first once the Host is known to admit devices
FirstCall(op) ==
    CASE op \in DeviceWrites \cup Opens -> "endpoints"
      [] op = "remove" -> "claims"
      [] op \in {"enrollments", "claims"} -> "cursor"
      [] OTHER -> "admin"

\* _admission_scope: without an onboarding target there is no Owner Domain
AdmissionScope(k) ==
    /\ call[k].stage = "scope"
    /\ \/ Finish(k, RefusalForStatus(503), FALSE)
       \/ IF call[k].op = "target" THEN Finish(k, Done, TRUE)
          ELSE Goto(k, FirstCall(call[k].op))
    /\ UNCHANGED world

\* half a page position is refused
AdmissionCursor(k) ==
    /\ call[k].stage = "cursor"
    /\ Goto(k, "admin") \/ Finish(k, RefusalForStatus(422), FALSE)
    /\ UNCHANGED world

\* whom the inventory shows the device to answer as
AnsweringCompanion(k) ==
    IF call[k].body = NoBody THEN Nobody ELSE body[call[k].body].companion

\* the inventory: Kernel's Bodies; a role group uses whom they answer as
ListBodyEndpoints(k) ==
    /\ call[k].stage = "endpoints"
    /\ \/ call' = [call EXCEPT
              ![k].stage = "claims",
              ![k].on = IF call[k].op = "group" THEN AnsweringCompanion(k) ELSE @]
       \/ \E f \in Failures : Finish(k, ToldOfMembership(f), FALSE)
    /\ UNCHANGED world

\* the Hub's Claims; while one is of another generation than Kernel's Body
\* nothing is shown
InventoryClaims(k) ==
    /\ call[k].stage = "claims" /\ call[k].op # "remove"
    /\ \/ Goto(k, "outputs")
       \/ Finish(k, RefusalForStatus(503), FALSE)
       \/ \E f \in Failures : Finish(k, ToldOfAdmission(f), FALSE)
    /\ UNCHANGED world

\* the Hub's output configuration of every Body
ReadOutputConfigurations(k) ==
    /\ call[k].stage = "outputs"
    /\ Goto(k, "held") \/ \E f \in Failures : Finish(k, ToldOfDevice(f), FALSE)
    /\ UNCHANGED world

ComposedDeviceInventory(k) ==
    ListBodyEndpoints(k) \/ InventoryClaims(k) \/ ReadOutputConfigurations(k)

\* with the inventory at hand, and nothing written yet
Holding(k, op) == At(k, op, "held") /\ ~call[k].reached /\ UNCHANGED world

\* a device that is not in it is refused, any other one is asked for at Admin
Held(k, refusal) ==
    IF call[k].body = NoBody THEN Finish(k, RefusalForStatus(refusal), FALSE)
    ELSE Goto(k, "admin")

\* a role group speaks as the Companions of its devices: each one answers as
\* somebody, and no two as the same
RoleGroup(k) ==
    /\ Holding(k, "group")
    /\ \/ (call[k].body # NoBody => call[k].on # Nobody) /\ Held(k, 403)
       \/ call[k].body # NoBody /\ Finish(k, RefusalForStatus(409), FALSE)
DeviceConversation(k) == Holding(k, "converse") /\ Held(k, 403)
SharedSession(k) == Holding(k, "share") /\ Held(k, 403)
SetDeviceOutputs(k) == Holding(k, "outputs") /\ Held(k, 404)
SetDeviceCompanion(k) == Holding(k, "assign") /\ Held(k, 404)

\* _reread: the device as it is now, or gone
Reread(k) ==
    /\ call[k].stage = "held" /\ call[k].reached
    /\ Finish(k, Done, FALSE) \/ Finish(k, RefusalForStatus(409), FALSE)
    /\ UNCHANGED world

\* a removal asks the Hub's Claims, the revoked ones included
RemoveOwnedDevice(k) ==
    /\ At(k, "remove", "claims")
    /\ \/ IF call[k].body = NoBody THEN Finish(k, RefusalForStatus(404), FALSE)
          ELSE Goto(k, "calling")
       \/ \E f \in Failures : Finish(k, ToldOfAdmission(f), FALSE)
    /\ UNCHANGED world

\* Admin's control plane: an assignment is Kernel's, everything else is asked of
\* the Hub with a credential made out for the phone
SetBodyAssignment(k) == At(k, "assign", "admin") /\ Goto(k, "calling") /\ UNCHANGED world
AdmissionIssuer(k) ==
    /\ call[k].stage = "admin" /\ call[k].op # "assign"
    /\ Goto(k, "calling") \/ Finish(k, Tell(call[k].op, Unconfigured), FALSE)
    /\ UNCHANGED world

Device(k) ==
    \/ AdmissionScope(k) \/ AdmissionCursor(k) \/ ComposedDeviceInventory(k)
    \/ RoleGroup(k) \/ DeviceConversation(k) \/ SharedSession(k)
    \/ SetDeviceOutputs(k) \/ SetDeviceCompanion(k) \/ Reread(k)
    \/ RemoveOwnedDevice(k) \/ SetBodyAssignment(k) \/ AdmissionIssuer(k)

-----------------------------------------------------------------------------
(* Admin's calls to the authorities.                                        *)

\* get_owner_companion: Data knows whose Companion it is
GetOwnerCompanion(k) ==
    /\ call[k].stage = "proving"
    /\ \/ call[k].on # Strange /\ Goto(k, "calling") /\ UNCHANGED world
       \/ Fails(k)

\* _space_for: the one running space of this Owner
SpaceFor(k) ==
    /\ call[k].stage = "locating"
    /\ Goto(k, "calling") \/ \E f \in NoSpace : Finish(k, Told(f), FALSE)
    /\ UNCHANGED world

\* set_default_companion, under the revision the phone was looking at
SetDefaultCompanion(k) ==
    /\ At(k, "default", "calling")
    /\ Writes(k, /\ call[k].on \in Active
                 /\ owner.revision = call[k].rev /\ call[k].rev < MaxRevision
                 /\ owner' = [default |-> call[k].on, revision |-> owner.revision + 1]
                 /\ UNCHANGED <<companion, body, released>>,
              Parse, "told")

\* provision_companion: an operation id Data knows is answered as before
ProvisionCompanion(k) ==
    /\ At(k, "create", "calling")
    /\ Writes(k, IF Recorded(k) THEN UNCHANGED world
                 ELSE /\ companion[call[k].on].state = "absent"
                      /\ companion' = [companion EXCEPT ![call[k].on] =
                                          [state |-> "active", revision |-> 1]]
                      /\ UNCHANGED <<owner, body, released>>,
              Parse, "reconciling")

\* request_reconcile: whether Memory heard only shows in the answer
RequestReconcile(k) ==
    /\ At(k, "create", "reconciling")
    /\ Finish(k, Done, FALSE)
    /\ UNCHANGED world

\* set_companion_lifecycle: whoever answers for the Owner is replaced in the
\* same transaction, by a Companion the phone named
SetLifecycle(c, state) ==
    /\ companion[c].state \notin {"absent", state}
    /\ companion[c].revision < MaxRevision
    /\ companion' = [companion EXCEPT ![c] = [state |-> state, revision |-> @.revision + 1]]
    /\ IF state = "archived" /\ owner.default = c
       THEN /\ owner.revision < MaxRevision
            /\ \E r \in Active \ {c} :
                  owner' = [default |-> r, revision |-> owner.revision + 1]
       ELSE UNCHANGED owner
    /\ UNCHANGED <<body, released>>

\* a Companion that already is what was asked for is answered as it stands
SetCompanionLifecycle(k) ==
    \E op \in {"archive", "restore"} :
       LET c == call[k].on
           state == IF op = "archive" THEN "archived" ELSE "active"
       IN
       /\ At(k, op, "calling")
       /\ \/ Writes(k, /\ c \in Companions
                       /\ call[k].rev \in {0, companion[c].revision}
                       /\ SetLifecycle(c, state),
                    Parse, "told")
          \/ /\ c \in Companions /\ companion[c].state = state
             /\ Finish(k, Done, FALSE)
             /\ UNCHANGED world

\* _release_bodies reads which Bodies answer as this Companion
ListBodies(k) ==
    LET held == {b \in Bodies : body[b].companion = call[k].on} IN
    /\ At(k, "archive", "listing")
    /\ \/ /\ call' = [call EXCEPT
                ![k].listed = [b \in Bodies |-> IF b \in held THEN body[b].revision ELSE 0],
                ![k].left = held,
                ![k].stage = IF held = {} THEN "calling" ELSE "releasing"]
          /\ UNCHANGED world
       \/ Fails(k)

\* one Body less to release; a release Kernel answered from its record changed
\* nothing, and listed no longer speaks of that Body
LetGo(k, b, fromRecord) ==
    call' = [call EXCEPT
        ![k].left = @ \ {b},
        ![k].listed[b] = IF fromRecord THEN 0 ELSE @,
        ![k].stage = IF call[k].left = {b} THEN "calling" ELSE @]

\* Kernel, asked to release a Body: the request id names Companion and Body
Releases(k, b) ==
    /\ <<call[k].on, b>> \notin released
    /\ body[b].revision = call[k].listed[b] /\ body[b].revision < MaxRevision
    /\ body' = [body EXCEPT ![b] = [companion |-> Nobody, revision |-> @.revision + 1]]
    /\ released' = released \cup {<<call[k].on, b>>}
    /\ UNCHANGED <<companion, owner>>

\* (faulty variant: a release that did not complete is passed over)
ReleaseBodyOrSkip(k) ==
    /\ At(k, "archive", "releasing")
    /\ \E b \in call[k].left :
          \/ Releases(k, b) /\ LetGo(k, b, FALSE)
          \/ UNCHANGED world /\ LetGo(k, b, <<call[k].on, b>> \in released)

\* release_device: any refusal, also of a Body that is gone, ends the archive
ReleaseBody(k) ==
    /\ At(k, "archive", "releasing")
    /\ \E b \in call[k].left :
          \/ Releases(k, b) /\ LetGo(k, b, FALSE)
          \/ /\ Releases(k, b)
             /\ \E r \in EffectReplies \ {Answered(200)} : Finish(k, Told(Parse(r)), FALSE)
          \/ <<call[k].on, b>> \in released /\ LetGo(k, b, TRUE) /\ UNCHANGED world
          \/ Fails(k)

\* replace_assignment: Kernel refuses a Companion that is not active
ReplaceAssignment(k) ==
    LET b == call[k].body IN
    /\ At(k, "assign", "calling")
    /\ Writes(k, IF Recorded(k) THEN UNCHANGED world
                 ELSE /\ call[k].on \in Active \cup {Nobody}
                      /\ body[b].revision = call[k].rev /\ call[k].rev < MaxRevision
                      /\ body' = [body EXCEPT ![b] = [companion |-> call[k].on,
                                                      revision |-> @.revision + 1]]
                      /\ UNCHANGED <<companion, owner, released>>,
              Parse, "endpoints")

SetDeviceOutputPolicy(k) ==
    At(k, "outputs", "calling") /\ Writes(k, UNCHANGED world, Parse, "endpoints")

\* the Hub speaks with the devices
ConversationCommand(k, op) == Relays(k, op)
HubRoleGroup(k) == ConversationCommand(k, "group")
HubDeviceConversation(k) == ConversationCommand(k, "converse")
HubSharedSession(k) == Relays(k, "share") \/ Relays(k, "end")

\* the lifecycle workflow takes the removal over (DeviceRemoval)
RemoveOverWorkflow(k) ==
    At(k, "remove", "calling") /\ Writes(k, UNCHANGED world, ParseRemoval, "told")

AuthorPersona(k) == Relays(k, "persona")
ClearCompanionFace(k) == Relays(k, "clearface")
SetCompanionFace(k) ==
    At(k, "face", "calling") /\ Writes(k, UNCHANGED world, ParseFace, "told")
OwnerCall(k) == Relays(k, "name")
ForgetConfirm(k) == Relays(k, "forget")
RevokeAgentSessions(k) == Relays(k, "sessions")
CancelTask(k) == RelaysScoped(k, "cancel")
RetryTask(k) == RelaysScoped(k, "retry")

SmartHomeRegistry(k) == Relays(k, "furnish") \/ Shows(k, "registry", Fine)
SmartHomeCall(k) == Relays(k, "account")

GetOwner(k) == Shows(k, "companion", Fine) \/ Shows(k, "context", Fine)
GetCompanionPersona(k) == Shows(k, "getpersona", Fine)
GetPersonaTimeline(k) == Shows(k, "history", Fine)
GetCompanionFace(k) == Shows(k, "getface", Fine)
GetCompanionFaceState(k) == Shows(k, "facestate", Fine)
BrowseMemory(k) == Shows(k, "library", Fine)
MemoryGraph(k) == Shows(k, "graph", Fine)
MemoryEntries(k) == Shows(k, "entries", Fine)
MemoryExport(k) == Shows(k, "export", Fine)
Recollections(k) == Shows(k, "recall", Fine)
PersonaTemplate(k) == Shows(k, "template", Fine)
PersonaPresets(k) == Shows(k, "presets", Fine)
PersonaPreview(k) == Shows(k, "draft", Fine)
ForgetPreview(k) == Shows(k, "preview", Fine)
ForgetStatus(k) == Shows(k, "progress", Fine)

\* rows outside the asked scope refuse the page; there may be no rows
ListConversations(k) ==
    \/ Shows(k, "conversations", IF call[k].on = Strange THEN ContractViolation ELSE Fine)
    \/ At(k, "conversations", "calling") /\ Finish(k, Done, FALSE) /\ UNCHANGED world
ListTranscript(k) ==
    Shows(k, "transcript", IF call[k].on = Strange THEN ContractViolation ELSE Fine)

\* Agent's task route takes no Owner: the row's is compared
GetTask(k) == Shows(k, "task", IF call[k].on = Strange THEN RaiseStatus(404) ELSE Fine)

\* Agent is asked within the Owner's scope, and its rows are taken as they are
ListTasks(k) ==
    \/ /\ At(k, "tasks", "calling")
       /\ Finish(k, Done, call[k].on # Strange)
       /\ UNCHANGED world
    \/ ShowsNothing(k, "tasks")

\* admission reads; the Hub knows an Enrollment by its name alone, and whose it
\* is, is compared
ListEnrollmentRecovery(k) == Shows(k, "enrollments", Fine)
ListClaims(k) == Shows(k, "claims", Fine)
GetEnrollmentRecovery(k) == ShowsMore(k, "enrollment", "comparing")
EnrollmentOfDomain(k) ==
    /\ At(k, "enrollment", "comparing")
    /\ IF call[k].on = Strange THEN Finish(k, ToldOfAdmission(ContractViolation), FALSE)
       ELSE Finish(k, Done, TRUE)
    /\ UNCHANGED world

\* home is about the Owner; every other part is read, or named as missing
OwnerForHome(k) == ShowsMore(k, "home", "gathering")
Gather(k) ==
    call[k].stage = "gathering" /\ Finish(k, Done, TRUE) /\ UNCHANGED world

\* the roster stands without knowing when anybody last spoke
ListOwnerCompanions(k) == ShowsMore(k, "roster", "dating")
CompanionActivity(k) ==
    At(k, "roster", "dating") /\ Finish(k, Done, TRUE) /\ UNCHANGED world

\* moments that name a Companion are not shown without the roster
ListGovernanceEvents(k) == ShowsMore(k, "activity", "naming") \/ Shows(k, "activity", Fine)
CompanionNames(k) ==
    /\ At(k, "activity", "naming")
    /\ (Finish(k, Done, TRUE) /\ UNCHANGED world) \/ Fails(k)

\* the Provider takes no Owner for one session: the summary's is compared
ProviderJson(k) ==
    \/ Shows(k, "traces", Fine)
    \/ /\ At(k, "trace", "calling")
       /\ IF call[k].on = Strange THEN Finish(k, RefusalForStatus(404), FALSE)
          ELSE Finish(k, Done, TRUE)
       /\ UNCHANGED world
    \/ ShowsNothing(k, "trace")

\* eidolond changes the service, or powers off, under the revision it was shown
HostRequest(k, op, status(_)) ==
    /\ At(k, op, "calling")
    /\ \/ \E r \in EffectReplies : Finish(k, ToldOfHost(status(r)), TRUE)
       \/ \E r \in RefusalReplies : Finish(k, ToldOfHost(status(r)), FALSE)
    /\ UNCHANGED world
HostMutate(k) == HostRequest(k, "service", HostServiceStatus)
HostPowerOff(k) == HostRequest(k, "poweroff", PowerOffStatus)
HostRead(k) ==
    /\ At(k, "machine", "calling")
    /\ \E r \in EffectReplies \cup RefusalReplies :
          Finish(k, ToldOfHost(HostServiceStatus(r)), FALSE)
    /\ UNCHANGED world

Call(k) ==
    \/ GetOwnerCompanion(k) \/ SpaceFor(k) \/ SetDefaultCompanion(k)
    \/ ProvisionCompanion(k) \/ RequestReconcile(k) \/ SetCompanionLifecycle(k)
    \/ ListBodies(k) \/ ReleaseBody(k) \/ ReplaceAssignment(k)
    \/ SetDeviceOutputPolicy(k) \/ HubRoleGroup(k) \/ HubDeviceConversation(k)
    \/ HubSharedSession(k) \/ RemoveOverWorkflow(k)
    \/ ListEnrollmentRecovery(k) \/ GetEnrollmentRecovery(k)
    \/ EnrollmentOfDomain(k) \/ ListClaims(k)
    \/ AuthorPersona(k) \/ ClearCompanionFace(k) \/ SetCompanionFace(k)
    \/ OwnerCall(k) \/ ForgetConfirm(k) \/ RevokeAgentSessions(k)
    \/ CancelTask(k) \/ RetryTask(k)
    \/ GetOwner(k) \/ GetCompanionPersona(k) \/ GetPersonaTimeline(k)
    \/ GetCompanionFace(k) \/ BrowseMemory(k) \/ ForgetPreview(k) \/ ForgetStatus(k)
    \/ ListConversations(k) \/ ListTranscript(k) \/ GetTask(k)
    \/ GetCompanionFaceState(k) \/ MemoryGraph(k) \/ MemoryEntries(k)
    \/ MemoryExport(k) \/ Recollections(k)
    \/ PersonaTemplate(k) \/ PersonaPresets(k) \/ PersonaPreview(k)
    \/ ListTasks(k) \/ OwnerForHome(k) \/ Gather(k)
    \/ ListOwnerCompanions(k) \/ CompanionActivity(k)
    \/ ListGovernanceEvents(k) \/ CompanionNames(k) \/ ProviderJson(k)
    \/ SmartHomeRegistry(k) \/ SmartHomeCall(k)
    \/ HostMutate(k) \/ HostPowerOff(k) \/ HostRead(k)

-----------------------------------------------------------------------------

\* the phone was told to try again, and sends the same request
Repeat(k) ==
    LET c == call[k] IN
    /\ c.stage = "told" /\ c.told.retryable
    /\ call' = [call EXCEPT ![k] =
          [Idle EXCEPT !.op = c.op, !.on = c.on, !.body = c.body, !.rev = c.rev,
                       !.before = c.before \/ c.reached,
                       !.stage = Entry(c.op)]]
    /\ UNCHANGED world

Close(k) ==
    /\ call[k].stage = "told"
    /\ call' = [call EXCEPT ![k] = Idle]
    /\ UNCHANGED world

Next ==
    \/ AdminRestarts
    \/ \E k \in Calls : \/ Route(k) \/ NeverArrives(k) \/ GivesUp(k)
                        \/ Handler(k) \/ Device(k) \/ Call(k) \/ Repeat(k) \/ Close(k)

Spec == Init /\ [][Next]_vars

-----------------------------------------------------------------------------
(* Properties.                                                              *)

\* kinds after which a phone does not ask whether it happened
Final == {"denied", "not_found", "conflict", "invalid", "not_configured"}

\* The write a phone is refused for good was not carried out: whatever reply is
\* lost, garbled or a failure after the fact, no attempt whose write took effect
\* at its authority is told as denied, absent, in conflict, invalid or not
\* configured; of a new Companion that holds for the attempts before it, too.
\* Three things a final refusal does leave behind: the Bodies an archive has
\* released when Data refuses it, a device write whose device cannot be read back
\* (DeviceWrites), and what an earlier attempt did under a revision that is stale
\* in the repeated one.
RefusedWriteIsUnapplied ==
    \A k \in Calls : call[k].stage = "told" /\ call[k].told.kind \in Final =>
        /\ call[k].reached => call[k].op \in DeviceWrites
        /\ call[k].before /\ call[k].op = "create" => call[k].told.kind = "not_configured"

\* Nothing of another Owner's is changed or shown, on any route: what an
\* authority cannot refuse by itself is proved before or compared after.
OnlyOwnIsReached ==
    \A k \in Calls : call[k].reached =>
        /\ call[k].on # Strange
        /\ call[k].op \in OnDevice => call[k].body # NoBody

\* a Body that answers as a Companion that was put away
Orphan(b) ==
    body[b].companion \in Companions /\ companion[body[b].companion].state = "archived"

\* put_away releases Bodies one by one, then archives; its comment promises "no
\* orphan active assignment" and a window that closes itself.  What it ensures is
\* less: a Body is orphaned only by an archive that it overtook, assigned again
\* after the archive had listed it (or had not), or whose release Kernel answered
\* from the record of an earlier archive.  No archive orphans a Body as it listed
\* it, whichever release is refused or lost in the middle.
OrphansOvertook ==
    [][\A b \in Bodies : ~Orphan(b) /\ Orphan(b)' =>
          \E k \in Calls :
             /\ call[k].op = "archive" /\ call[k].on = body[b].companion
             /\ ~call[k].reached /\ call'[k].reached
             /\ body[b].revision # call[k].listed[b]]_vars

=============================================================================
