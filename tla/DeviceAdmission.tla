--------------------------- MODULE DeviceAdmission ---------------------------
(***************************************************************************)
(* Deciding on a device that asks to join.  A phone reviews an Enrollment, *)
(* and its Decision goes through the Local API to the control plane, which *)
(* writes an intent, reads the Enrollment from the Hub, has the Hub decide *)
(* unless the intent holds a result, writes the result and reads again.    *)
(* An operator's page admits the same device without an intent: it has the *)
(* Hub approve, the Kernel mount the device, and a Body assigned.          *)
(*                                                                         *)
(* Every call has a handler whose "at" is the await it is in.  Answers are *)
(* lost, the Hub may decide after its caller has given up, the process may *)
(* be killed at every await; its ledger stays.  Hub, Kernel and the device *)
(* are external.  All Enrollments are of one device.                       *)
(***************************************************************************)
EXTENDS Integers, FiniteSets

CONSTANTS
    Enrollments,    \* enrollment_id values
    Controllers,    \* principal ids of phones
    Calls,          \* Decision calls of the Local API, each made once; also the
                    \*   request id a phone makes up for it
    Operations,     \* admissions of the operator's page
    Operator,       \* the actor of the operator's Hub credential
    OperatorRequest,\* the operator's request id, repeated by its retries
    NoRow,          \* a request without an AdmissionDecisionIntent
    NoDecision,     \* an Enrollment nobody has decided
    NoTarget,       \* a request without a target, for the abstract specification
    MaxOwner,       \* bound: Owners this Host is set up for, one after the other
    MaxRevision     \* bound: revisions of a Proposal

ASSUME BoundsAssumption == MaxOwner \in Nat \ {0} /\ MaxRevision \in Nat \ {0}

ASSUME NamesAssumption ==
    /\ OperatorRequest \notin Calls
    /\ Operator \notin Controllers

VARIABLES
    enrollment, \* Hub: state, proposal_revision and decision of each Enrollment
    log,        \* Hub: commands carried out, as <<request, decision>>
    mount,      \* Kernel: the Owner the device is mounted for
    body,       \* Kernel: whether its Body answers as the operator's companion
    owner,      \* the Owner this Host serves
    row,        \* control plane: admission_decision_intents_v1, by request id
    at,         \* per call: the await its handler is in
    request,    \* per call: request_id
    decision,   \* per call: the DecideEnrollment the phone's screen confirmed
    result,     \* per call: intent.result as the handler holds it
    pending,    \* calls whose command is on its way to the Hub
    answer,     \* per call: what the phone was told
    op          \* per admission: its await, Owner and the approval it asks for

hub == <<enrollment, log>>
kernel == <<mount, body>>
handler == <<at, request, decision, result>>
vars == <<hub, kernel, owner, row, handler, pending, answer, op>>

\* business_owner_id values, in the order of their Workspaces
Owners == 1..MaxOwner
NoOwner == 0

Requests == Calls

Verdicts == {"approve", "reject"}

Decisions == [enrollment : Enrollments, revision : 1..MaxRevision,
              verdict : Verdicts, actor : Controllers \cup {Operator},
              owner : Owners]

Rows == [decision : Decisions, result : {"none", "decided"}]

ASSUME NonesAssumption ==
    /\ NoRow \notin Rows
    /\ NoDecision \notin Decisions
    /\ NoTarget \notin Decisions

EnrollmentStates ==
    {"unknown", "pending_review", "approved_awaiting_handoff", "grant_delivered",
     "grant_acknowledged", "rejected", "expired"}

\* the states admit_operator_device counts as active
ActiveStates == {"pending_review", "approved_awaiting_handoff", "grant_delivered",
                 "grant_acknowledged"}

\* where admit_operator_device waits
OperationSteps == {"idle", "approve", "reread", "mounts", "mount", "assign", "completed"}

Blank == [enrollment |-> NoDecision, revision |-> 0]

Init ==
    /\ enrollment = [e \in Enrollments |->
                       [state |-> "unknown", revision |-> 1, decision |-> NoDecision]]
    /\ log = {} /\ pending = {}
    /\ mount = NoOwner
    /\ body = FALSE
    /\ owner = 1
    /\ row = [r \in Requests |-> NoRow]
    /\ at = [k \in Calls |-> "unused"]
    /\ request = [k \in Calls |-> k]
    /\ decision = [k \in Calls |-> Blank]
    /\ result = [k \in Calls |-> "none"]
    /\ answer = [k \in Calls |-> "none"]
    /\ op \in [Operations -> [at : {"idle"}, owner : {1}, reviewed : {Blank}]]

\* the handler of k ends; its answer may no longer find the phone, which can
\* repeat its request at any time
Reply(k, words) ==
    /\ at' = [at EXCEPT ![k] = "ended"]
    /\ result' = [result EXCEPT ![k] = "none"]
    /\ answer' = [answer EXCEPT ![k] = words]

-----------------------------------------------------------------------------
(* The phone and the Local API.                                             *)

\* request ids a phone may use: a fresh one, or one that was sent before
RequestIds(k) == {k} \cup {request[j] : j \in {i \in Calls : at[i] # "unused"}}

\* an Owner looks at a pending Enrollment and confirms a verdict on it; the
\* screen names the Owner it would join
Confirm(k) ==
    /\ at[k] = "unused"
    /\ \E r \in RequestIds(k) : request' = [request EXCEPT ![k] = r]
    /\ \E e \in Enrollments, v \in Verdicts, c \in Controllers :
          /\ enrollment[e].state = "pending_review"
          /\ decision' = [decision EXCEPT ![k] =
                            [enrollment |-> e, revision |-> enrollment[e].revision,
                             verdict |-> v, actor |-> c, owner |-> owner]]
    /\ at' = [at EXCEPT ![k] = "confirmed"]
    /\ UNCHANGED <<hub, kernel, owner, row, result, pending, answer, op>>

\* the phone sends again what another call sent, with the same request id
Repeat(k) ==
    /\ at[k] = "unused"
    /\ \E j \in Calls \ {k} :
          /\ at[j] \notin {"unused", "confirmed"}
          /\ request' = [request EXCEPT ![k] = request[j]]
          /\ decision' = [decision EXCEPT ![k] = decision[j]]
    /\ at' = [at EXCEPT ![k] = "confirmed"]
    /\ UNCHANGED <<hub, kernel, owner, row, result, pending, answer, op>>

\* to_admin: the Owner on the screen is the Owner of the session
NamesTheOwner(k) == decision[k].owner = owner

\* decide of the Local API: the call goes to the control plane
Send(k) ==
    /\ at[k] = "confirmed"
    /\ IF NamesTheOwner(k)
       THEN at' = [at EXCEPT ![k] = "sent"] /\ UNCHANGED <<result, answer>>
       ELSE Reply(k, "conflict")
    /\ UNCHANGED <<hub, kernel, owner, row, request, decision, pending, op>>

Working == {"sent", "review", "decide", "answered", "confirm"}

-----------------------------------------------------------------------------
(* The control plane: decide_controller_enrollment.                         *)

\* (faulty variant: a known request id is taken for the same request)
SameIntentByRequest(k) == TRUE

\* _assert_same_intent: a request id is used again for the same Decision
SameIntent(k) == row[request[k]].decision = decision[k]

\* get_or_create: the intent is durable before the Hub is asked anything
GetOrCreate(k) ==
    LET r == request[k] IN
    /\ at[k] = "sent"
    /\ \/ /\ row[r] = NoRow
          /\ row' = [row EXCEPT ![r] = [decision |-> decision[k], result |-> "none"]]
          /\ at' = [at EXCEPT ![k] = "review"]
          /\ UNCHANGED <<result, answer>>
       \/ /\ row[r] # NoRow /\ SameIntent(k)
          /\ result' = [result EXCEPT ![k] = row[r].result]
          /\ at' = [at EXCEPT ![k] = "review"]
          /\ UNCHANGED <<row, answer>>
       \/ /\ row[r] # NoRow /\ ~SameIntent(k)
          /\ Reply(k, "conflict")
          /\ UNCHANGED row
    /\ UNCHANGED <<hub, kernel, owner, request, decision, pending, op>>

\* _validate_decision_target: pending in the revision that was reviewed, or
\* decided so by this Controller and not yet acknowledged by the device
DecisionTarget(d) ==
    LET e == enrollment[d.enrollment] IN
    IF e.state = "pending_review" THEN e.revision = d.revision
    ELSE /\ e.state \in {"approved_awaiting_handoff", "grant_delivered"}
         /\ e.decision = d

\* the Enrollment is read; the Hub decides unless the intent has its result
Review(k) ==
    /\ at[k] = "review"
    /\ \/ /\ DecisionTarget(decision[k]) /\ result[k] = "none"
          /\ at' = [at EXCEPT ![k] = "decide"]
          /\ pending' = pending \cup {k}
          /\ UNCHANGED <<result, answer>>
       \/ /\ DecisionTarget(decision[k]) /\ result[k] # "none"
          /\ at' = [at EXCEPT ![k] = "confirm"]
          /\ UNCHANGED <<result, pending, answer>>
       \/ /\ ~DecisionTarget(decision[k])
          /\ Reply(k, "conflict")
          /\ UNCHANGED pending
       \/ Reply(k, "unavailable") /\ UNCHANGED pending
    /\ UNCHANGED <<hub, kernel, owner, row, request, decision, op>>

\* (faulty variant: a command that was sent counts as carried out)
DecideFailsForward(k) ==
    /\ at[k] \in {"decide", "answered"}
    /\ Reply(k, "decided")
    /\ UNCHANGED <<hub, kernel, owner, row, request, decision, pending, op>>

\* the Hub does not answer in time; the command may still be on its way
DecideFails(k) ==
    /\ at[k] \in {"decide", "answered"}
    /\ Reply(k, "unavailable")
    /\ UNCHANGED <<hub, kernel, owner, row, request, decision, pending, op>>

\* mark_decision_committed records what the Hub decided; a refusal ends the handler
MarkDecisionCommitted(k) ==
    /\ at[k] = "answered"
    /\ \/ /\ result[k] = "decided"
          /\ row' = [row EXCEPT ![request[k]].result = "decided"]
          /\ at' = [at EXCEPT ![k] = "confirm"]
          /\ UNCHANGED <<result, answer>>
       \/ /\ result[k] = "refused"
          /\ Reply(k, "conflict")
          /\ UNCHANGED row
    /\ UNCHANGED <<hub, kernel, owner, request, decision, pending, op>>

\* _validate_committed_decision: the Hub holds this Decision of this actor
CommittedDecision(d) == enrollment[d.enrollment].decision = d

\* the Enrollment is read again and goes to the phone with the result
ConfirmDecision(k) ==
    /\ at[k] = "confirm"
    /\ \/ CommittedDecision(decision[k]) /\ Reply(k, "decided")
       \/ ~CommittedDecision(decision[k]) /\ Reply(k, "violation")
       \/ Reply(k, "unavailable")
    /\ UNCHANGED <<hub, kernel, owner, row, request, decision, pending, op>>

-----------------------------------------------------------------------------
(* The control plane: admit_operator_device.                                *)

Stands(o, place) == op' = [op EXCEPT ![o].at = place]
\* the page is told; it may ask again under the same request id unless completed
Tells(o, words) ==
    op' = [op EXCEPT ![o].at = IF words = "completed" THEN words ELSE "idle",
                     ![o].reviewed = Blank]

\* the approval the operator asks the Hub for
Approval(o, e) ==
    [enrollment |-> e, revision |-> enrollment[e].revision, verdict |-> "approve",
     actor |-> Operator, owner |-> op[o].owner]

\* (faulty variant: any approval will do)
ApprovedForAnyone(o, e) ==
    /\ enrollment[e].decision # NoDecision
    /\ enrollment[e].decision.verdict = "approve"

\* whoever decided, the Enrollment is approved for the operator's Owner
ApprovedForOwner(o, e) ==
    /\ enrollment[e].decision # NoDecision
    /\ enrollment[e].decision.verdict = "approve"
    /\ enrollment[e].decision.owner = op[o].owner

\* list_authorized_enrollments: the device has exactly one active Enrollment,
\* which is pending or already decided
OperatorLists(o) ==
    LET known == {e \in Enrollments : enrollment[e].state # "unknown"}
        active == {e \in known : enrollment[e].state \in ActiveStates}
    IN  /\ op[o].at = "idle"
        /\ \/ known = {} /\ Tells(o, "not_found")
           \/ known # {} /\ Cardinality(active) # 1 /\ Tells(o, "conflict")
           \/ /\ Cardinality(active) = 1
              /\ \E e \in active :
                   \/ /\ enrollment[e].state = "pending_review"
                      /\ op' = [op EXCEPT ![o].at = "approve",
                                          ![o].reviewed = Approval(o, e)]
                   \/ /\ enrollment[e].state # "pending_review"
                      /\ IF ApprovedForOwner(o, e)
                         THEN Stands(o, "mounts") ELSE Tells(o, "conflict")
           \/ Tells(o, "unavailable")
        /\ UNCHANGED <<hub, kernel, owner, row, handler, pending, answer>>

\* the Enrollment is read again once the Hub has approved
OperatorRereads(o) ==
    /\ op[o].at = "reread"
    /\ \/ IF ApprovedForOwner(o, op[o].reviewed.enrollment)
          THEN Stands(o, "mounts") ELSE Tells(o, "conflict")
       \/ Tells(o, "unavailable")
    /\ UNCHANGED <<hub, kernel, owner, row, handler, pending, answer>>

\* the device is mounted: done, unless the page asked for a companion too
Mounted(o) == Tells(o, "completed") \/ Stands(o, "assign")

\* _owner_mount: an active mount of this Owner is not asked for again
OperatorReadsMount(o) ==
    /\ op[o].at = "mounts"
    /\ \/ mount = op[o].owner /\ Mounted(o)
       \/ mount # op[o].owner /\ Stands(o, "mount")
       \/ Tells(o, "unavailable")
    /\ UNCHANGED <<hub, kernel, owner, row, handler, pending, answer>>

\* the Kernel mounts the device once it has acknowledged its Claim; until then,
\* and when it is not heard, the page retries with the same request id
OperatorMounts(o) ==
    /\ op[o].at = "mount"
    /\ \/ /\ \E e \in Enrollments : enrollment[e].state = "grant_acknowledged"
          /\ mount' = op[o].owner
          /\ Mounted(o) \/ Tells(o, "retry_required")
       \/ /\ \E words \in {"retry_required", "blocked"} : Tells(o, words)
          /\ UNCHANGED mount
    /\ UNCHANGED <<hub, body, owner, row, handler, pending, answer>>

\* _owner_body_endpoint and replace_assignment: the Kernel assigns the companion,
\* refuses since the revision that was read is no longer the current one, or is
\* not heard
OperatorAssigns(o) ==
    /\ op[o].at = "assign"
    /\ \/ body' = TRUE /\ Tells(o, "completed")
       \/ body' \in {TRUE, body} /\ Tells(o, "retry_required")
       \/ /\ \E words \in {"unavailable", "blocked"} : Tells(o, words)
          /\ UNCHANGED body
    /\ UNCHANGED <<hub, mount, owner, row, handler, pending, answer>>

-----------------------------------------------------------------------------
(* The authorities, the device and the Host.                                *)

\* a command the Hub has carried out for this request is answered as then;
\* another one is carried out on a pending Enrollment of the reviewed revision
HubOutcome(r, d) ==
    IF \E entry \in log : entry[1] = r
    THEN IF <<r, d>> \in log THEN "decided" ELSE "refused"
    ELSE IF /\ enrollment[d.enrollment].state = "pending_review"
            /\ enrollment[d.enrollment].revision = d.revision
         THEN "decides" ELSE "refused"

\* the Hub's side of decide_enrollment
HubCarriesOut(r, d) ==
    IF HubOutcome(r, d) = "decides"
    THEN /\ log' = log \cup {<<r, d>>}
         /\ enrollment' = [enrollment EXCEPT ![d.enrollment] =
              [@ EXCEPT !.decision = d,
                        !.state = IF d.verdict = "approve"
                                  THEN "approved_awaiting_handoff" ELSE "rejected"]]
    ELSE UNCHANGED hub

\* a Controller's command reaches the Hub, whether or not somebody waits for it
HubDecides(k) ==
    LET outcome == HubOutcome(request[k], decision[k]) IN
    /\ k \in pending
    /\ pending' = pending \ {k}
    /\ HubCarriesOut(request[k], decision[k])
    /\ IF at[k] = "decide"
       THEN /\ at' = [at EXCEPT ![k] = "answered"]
            /\ result' = [result EXCEPT ![k] =
                            IF outcome = "refused" THEN "refused" ELSE "decided"]
       ELSE UNCHANGED <<at, result>>
    /\ UNCHANGED <<kernel, owner, row, request, decision, answer, op>>

\* the operator's command reaches the Hub; its answer may be lost
HubApproves(o) ==
    /\ op[o].at = "approve"
    /\ \/ /\ HubCarriesOut(OperatorRequest, op[o].reviewed)
          /\ \/ Stands(o, "reread")
                /\ HubOutcome(OperatorRequest, op[o].reviewed) # "refused"
             \/ Tells(o, "conflict")
                /\ HubOutcome(OperatorRequest, op[o].reviewed) = "refused"
             \/ Tells(o, "unavailable")
       \/ Tells(o, "unavailable") /\ UNCHANGED hub
    /\ UNCHANGED <<kernel, owner, row, handler, pending, answer>>

\* a device proposes itself, or proposes again before anybody has decided
Propose(e) ==
    /\ \/ /\ enrollment[e].state = "unknown"
          /\ enrollment' = [enrollment EXCEPT ![e].state = "pending_review"]
       \/ /\ enrollment[e].state = "pending_review"
          /\ enrollment[e].revision < MaxRevision
          /\ enrollment' = [enrollment EXCEPT ![e].revision = @ + 1]
    /\ UNCHANGED <<log, kernel, owner, row, handler, pending, answer, op>>

\* the device fetches and acknowledges its Grant, or the Enrollment expires
Progress(e) ==
    /\ \E step \in {<<"approved_awaiting_handoff", "grant_delivered">>,
                    <<"grant_delivered", "grant_acknowledged">>,
                    <<"pending_review", "expired">>,
                    <<"approved_awaiting_handoff", "expired">>} :
          /\ enrollment[e].state = step[1]
          /\ enrollment' = [enrollment EXCEPT ![e].state = step[2]]
    /\ UNCHANGED <<log, kernel, owner, row, handler, pending, answer, op>>

\* the Host is reset and set up for another Owner
OwnerChanges ==
    /\ owner < MaxOwner
    /\ owner' = owner + 1
    /\ UNCHANGED <<hub, kernel, row, handler, pending, answer, op>>

\* the control plane stops: its handlers are gone, the ledger is not
Restart ==
    /\ \/ \E k \in Calls : at[k] \in Working
       \/ \E o \in Operations : op[o].at \notin {"idle", "completed"}
    /\ at' = [k \in Calls |-> IF at[k] \in Working THEN "ended" ELSE at[k]]
    /\ answer' = [k \in Calls |-> IF at[k] \in Working THEN "unavailable" ELSE answer[k]]
    /\ op' = [o \in Operations |->
                IF op[o].at = "completed" THEN op[o]
                ELSE [op[o] EXCEPT !.at = "idle", !.reviewed = Blank]]
    /\ result' = [k \in Calls |-> "none"]
    /\ UNCHANGED <<hub, kernel, owner, row, request, decision, pending>>
-----------------------------------------------------------------------------

Handle(k) ==
    \/ Send(k) \/ GetOrCreate(k) \/ Review(k) \/ DecideFails(k)
    \/ MarkDecisionCommitted(k) \/ ConfirmDecision(k)

Operate(o) ==
    \/ OperatorLists(o) \/ HubApproves(o) \/ OperatorRereads(o)
    \/ OperatorReadsMount(o) \/ OperatorMounts(o) \/ OperatorAssigns(o)

Next ==
    \/ \E k \in Calls :
          Confirm(k) \/ Repeat(k) \/ Handle(k) \/ HubDecides(k)
    \/ \E o \in Operations : Operate(o)
    \/ \E e \in Enrollments : Propose(e) \/ Progress(e)
    \/ OwnerChanges \/ Restart

Spec == Init /\ [][Next]_vars

-----------------------------------------------------------------------------
(* Properties.                                                              *)

\* The Hub's Enrollments, the ledger, handlers and admissions keep their shape.
TypeOK ==
    /\ enrollment \in [Enrollments -> [state : EnrollmentStates, revision : 1..MaxRevision,
                                       decision : Decisions \cup {NoDecision}]]
    /\ log \subseteq (Requests \cup {OperatorRequest}) \X Decisions
    /\ mount \in Owners \cup {NoOwner}
    /\ body \in BOOLEAN
    /\ owner \in Owners
    /\ row \in [Requests -> Rows \cup {NoRow}]
    /\ at \in [Calls -> {"unused", "confirmed", "ended"} \cup Working]
    /\ request \in [Calls -> Requests]
    /\ decision \in [Calls -> Decisions \cup {Blank}]
    /\ result \in [Calls -> {"none", "decided", "refused"}]
    /\ pending \subseteq Calls
    /\ answer \in [Calls -> {"none", "decided", "conflict", "violation", "unavailable"}]
    /\ op \in [Operations -> [at : OperationSteps, owner : Owners,
                              reviewed : Decisions \cup {Blank}]]

Abstract == INSTANCE DurableIntent WITH
    Targets <- Decisions,
    target <- [r \in Requests |-> IF row[r] = NoRow THEN NoTarget ELSE row[r].decision],
    effects <- {entry \in log : entry[1] \in Requests},
    recorded <- {r \in Requests : row[r] # NoRow /\ row[r].result = "decided"}

\* The ledger: one Decision per request, durable before the Hub is asked, and a
\* result only for what the Hub has decided, also when answers are lost, two
\* handlers serve one request, and the control plane dies.
DecisionIsDurable == Abstract!Spec

\* A phone that is told "decided" has the Hub's Decision: this verdict, by this
\* Controller, for this Owner, whatever another phone or the operator asked for.
AnsweredDecisionHolds ==
    \A k \in Calls : answer[k] = "decided" =>
        enrollment[decision[k].enrollment].decision = decision[k]

\* A device is mounted only for an Owner the Hub has approved it for, also when a
\* phone decides between the operator's listing and its approval.
MountedForItsOwner ==
    mount # NoOwner =>
        \E e \in Enrollments :
            /\ enrollment[e].decision # NoDecision
            /\ enrollment[e].decision.verdict = "approve"
            /\ enrollment[e].decision.owner = mount
=============================================================================
