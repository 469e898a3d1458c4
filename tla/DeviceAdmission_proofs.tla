----------------------- MODULE DeviceAdmission_proofs -----------------------
(***************************************************************************)
(* Proofs about DeviceAdmission, for any Enrollments, phones, calls,       *)
(* admissions of the operator, Owners and revisions.                       *)
(***************************************************************************)
EXTENDS DeviceAdmission, TLAPS

Answers == {"none", "decided", "conflict", "violation", "unavailable"}
Awaits == {"unused", "confirmed", "ended"} \cup Working

\* a handler past its intent
Asked == {"review", "decide", "answered", "confirm"}

\* among the Enrollments h the Hub has approved one for Owner w
ApprovedFor(h, w) ==
    \E e \in Enrollments :
        /\ h[e].decision # NoDecision
        /\ h[e].decision.verdict = "approve"
        /\ h[e].decision.owner = w

\* An Enrollment that is still to be decided has no Decision.
UndecidedOK ==
    \A e \in Enrollments : enrollment[e].state \in {"unknown", "pending_review"} =>
        enrollment[e].decision = NoDecision

\* A handler past its intent, and a command on its way, decide what the row says;
\* a call nobody has made has no answer.
HandlersHaveRow ==
    /\ \A k \in Calls : at[k] = "unused" => answer[k] = "none"
    /\ \A k \in Calls : at[k] # "unused" => decision[k] \in Decisions
    /\ \A k \in Calls : at[k] \in Asked \/ k \in pending =>
          /\ row[request[k]] # NoRow
          /\ row[request[k]].decision = decision[k]
          /\ at[k] \notin {"unused", "confirmed", "sent"}

\* The Hub has carried out Decisions of intents only, the operator's apart.
LogOK ==
    \A r \in Requests, d \in Decisions : <<r, d>> \in log =>
        row[r] # NoRow /\ row[r].decision = d

\* A recorded result, and a result in hand, stand for a Decision carried out.
ResultOK ==
    /\ \A r \in Requests : row[r] # NoRow /\ row[r].result # "none"
                             => <<r, row[r].decision>> \in log
    /\ \A k \in Calls : at[k] = "answered" /\ result[k] = "decided"
                             => <<request[k], decision[k]>> \in log

\* The operator's handler asks the Kernel only for an Owner the Hub has approved.
OperationsOK ==
    \A o \in Operations :
        /\ op[o].at \in {"approve", "reread"} => op[o].reviewed \in Decisions
        /\ op[o].at \in {"mounts", "mount"} => ApprovedFor(enrollment, op[o].owner)

Inv ==
    /\ TypeOK /\ UndecidedOK /\ HandlersHaveRow /\ LogOK /\ ResultOK /\ OperationsOK
    /\ AnsweredDecisionHolds /\ MountedForItsOwner

-----------------------------------------------------------------------------

\* The initial state satisfies the invariant.
LEMMA InitInv == Init => Inv
<1> SUFFICES ASSUME Init PROVE Inv
  OBVIOUS
<1>1. TypeOK
  <2>1. 1 \in Owners /\ 1 \in 1..MaxRevision
    BY BoundsAssumption DEF BoundsAssumption, Owners
  <2>2. enrollment \in [Enrollments -> [state : EnrollmentStates, revision : 1..MaxRevision,
                                       decision : Decisions \cup {NoDecision}]]
    BY <2>1 DEF Init, EnrollmentStates
  <2>3. op \in [Operations -> [at : OperationSteps, owner : Owners,
                              reviewed : Decisions \cup {Blank}]]
    BY <2>1 DEF Init, OperationSteps
  <2>4. body \in BOOLEAN
    BY DEF Init
  <2> QED
    BY <2>1, <2>2, <2>3, <2>4 DEF Init, TypeOK, Requests
<1>2. UndecidedOK
  BY DEF Init, UndecidedOK
<1>3. HandlersHaveRow
  BY DEF Init, HandlersHaveRow, Asked
<1>4. LogOK /\ ResultOK
  BY DEF Init, LogOK, ResultOK, Requests
<1>5. OperationsOK
  BY DEF Init, OperationsOK
<1>6. AnsweredDecisionHolds /\ MountedForItsOwner
  BY DEF Init, AnsweredDecisionHolds, MountedForItsOwner
<1> QED
  BY <1>1, <1>2, <1>3, <1>4, <1>5, <1>6 DEF Inv

-----------------------------------------------------------------------------
(* The Hub.                                                                 *)

\* no Decision the Hub holds changes
DecisionsStay ==
    \A e \in Enrollments : enrollment[e].decision # NoDecision =>
        enrollment'[e].decision = enrollment[e].decision

\* What the Hub has approved stays approved.
LEMMA ApprovalsStay ==
    ASSUME DecisionsStay
    PROVE  \A w : ApprovedFor(enrollment, w) => ApprovedFor(enrollment', w)
  BY DEF DecisionsStay, ApprovedFor

\* The Hub carries a command out, or leaves everything as it is; it decides no
\* Enrollment twice.
LEMMA HubLemma ==
    ASSUME Inv, NEW r \in Requests \cup {OperatorRequest}, NEW d \in Decisions,
           HubCarriesOut(r, d)
    PROVE  /\ enrollment' \in [Enrollments -> [state : EnrollmentStates,
                 revision : 1..MaxRevision, decision : Decisions \cup {NoDecision}]]
           /\ UndecidedOK'
           /\ DecisionsStay
           /\ log' = log \/ log' = log \cup {<<r, d>>}
           /\ HubOutcome(r, d) # "refused" => <<r, d>> \in log'
<1>1. CASE HubOutcome(r, d) = "decides"
  <2>1. log' = log \cup {<<r, d>>}
    BY <1>1 DEF HubCarriesOut
  <2>2. PICK state \in {"approved_awaiting_handoff", "rejected"} :
          enrollment' = [enrollment EXCEPT ![d.enrollment] =
                           [@ EXCEPT !.decision = d, !.state = state]]
    BY <1>1, Zenon DEF HubCarriesOut
  <2>3. d.enrollment \in Enrollments /\ enrollment[d.enrollment].state = "pending_review"
    BY <1>1 DEF HubOutcome, Decisions
  <2>4. enrollment[d.enrollment].decision = NoDecision
    BY <2>3 DEF Inv, UndecidedOK
  <2>5. /\ enrollment'[d.enrollment].decision = d
        /\ enrollment'[d.enrollment].state = state
        /\ \A e \in Enrollments : e # d.enrollment => enrollment'[e] = enrollment[e]
    BY <2>2, <2>3 DEF Inv, TypeOK
  <2>6. enrollment' \in [Enrollments -> [state : EnrollmentStates,
           revision : 1..MaxRevision, decision : Decisions \cup {NoDecision}]]
    <3>1. enrollment'[d.enrollment] \in [state : EnrollmentStates,
             revision : 1..MaxRevision, decision : Decisions \cup {NoDecision}]
      <4>1. enrollment'[d.enrollment] =
              [enrollment[d.enrollment] EXCEPT !.decision = d, !.state = state]
        BY <2>2, <2>3 DEF Inv, TypeOK
      <4>2. enrollment[d.enrollment] \in [state : EnrollmentStates,
               revision : 1..MaxRevision, decision : Decisions \cup {NoDecision}]
        BY <2>3 DEF Inv, TypeOK
      <4>3. state \in EnrollmentStates
        BY DEF EnrollmentStates
      <4> QED
        BY <4>1, <4>2, <4>3
    <3> QED
      BY <2>2, <2>3, <2>5, <3>1 DEF Inv, TypeOK
  <2>7. UndecidedOK'
    BY <2>5 DEF Inv, UndecidedOK
  <2>8. DecisionsStay
    BY <2>4, <2>5 DEF DecisionsStay
  <2> QED
    BY <2>1, <2>6, <2>7, <2>8
<1>2. CASE HubOutcome(r, d) # "decides"
  <2>1. enrollment' = enrollment /\ log' = log
    BY <1>2 DEF HubCarriesOut, hub
  <2>2. UndecidedOK' /\ DecisionsStay
    BY <2>1 DEF Inv, UndecidedOK, DecisionsStay
  <2>3. HubOutcome(r, d) # "refused" => <<r, d>> \in log'
    BY <1>2, <2>1 DEF HubOutcome
  <2> QED
    BY <2>1, <2>2, <2>3 DEF Inv, TypeOK
<1> QED
  BY <1>1, <1>2

\* A device proposes, fetches, acknowledges or expires: no Decision changes.
LEMMA EnrollmentMoves ==
    ASSUME Inv, NEW e \in Enrollments, Propose(e) \/ Progress(e)
    PROVE  Inv'
<1> USE DEF kernel, handler
<1>1. /\ UNCHANGED <<log, kernel, owner, row, handler, pending, answer, op>>
      /\ \A f \in Enrollments : enrollment'[f].decision = enrollment[f].decision
      /\ \A f \in Enrollments : enrollment'[f].state \in {"unknown", "pending_review"} =>
            enrollment[f].state \in {"unknown", "pending_review"}
      /\ enrollment' \in [Enrollments -> [state : EnrollmentStates,
            revision : 1..MaxRevision, decision : Decisions \cup {NoDecision}]]
  <2>1. CASE Propose(e)
    <3>1. CASE enrollment' = [enrollment EXCEPT ![e].state = "pending_review"]
                 /\ enrollment[e].state = "unknown"
      BY <2>1, <3>1 DEF Propose, Inv, TypeOK, EnrollmentStates
    <3>2. CASE /\ enrollment' = [enrollment EXCEPT ![e].revision = @ + 1]
               /\ enrollment[e].revision < MaxRevision
               /\ enrollment[e].state = "pending_review"
      <4>1. enrollment[e].revision + 1 \in 1..MaxRevision
        BY <3>2, BoundsAssumption DEF Inv, TypeOK, BoundsAssumption
      <4> QED
        BY <2>1, <3>2, <4>1 DEF Propose, Inv, TypeOK, EnrollmentStates
    <3> QED
      BY <2>1, <3>1, <3>2 DEF Propose
  <2>2. CASE Progress(e)
    <3>1. PICK step \in {<<"approved_awaiting_handoff", "grant_delivered">>,
                         <<"grant_delivered", "grant_acknowledged">>,
                         <<"pending_review", "expired">>,
                         <<"approved_awaiting_handoff", "expired">>} :
            enrollment' = [enrollment EXCEPT ![e].state = step[2]]
      BY <2>2, Zenon DEF Progress
    <3>2. step[2] \in {"grant_delivered", "grant_acknowledged", "expired"}
      BY <3>1
    <3> QED
      BY <2>2, <3>1, <3>2 DEF Progress, Inv, TypeOK, EnrollmentStates
  <2> QED
    BY <2>1, <2>2
<1>2. TypeOK'
  BY <1>1 DEF Inv, TypeOK
<1>3. UndecidedOK'
  BY <1>1 DEF Inv, UndecidedOK
<1>4. HandlersHaveRow' /\ LogOK' /\ ResultOK'
  BY <1>1 DEF Inv, HandlersHaveRow, LogOK, ResultOK
<1>5. DecisionsStay
  BY <1>1 DEF DecisionsStay
<1>6. OperationsOK'
  BY <1>1, <1>5, ApprovalsStay DEF Inv, OperationsOK
<1>7. MountedForItsOwner'
  BY <1>1 DEF Inv, MountedForItsOwner
<1>8. AnsweredDecisionHolds'
  <2>1. \A k \in Calls : answer[k] = "decided" => decision[k].enrollment \in Enrollments
    BY DEF Inv, HandlersHaveRow, Decisions
  <2> QED
    BY <1>1, <2>1 DEF Inv, AnsweredDecisionHolds
<1> QED
  BY <1>2, <1>3, <1>4, <1>6, <1>7, <1>8 DEF Inv

-----------------------------------------------------------------------------
(* The handlers of the phones' calls.                                       *)

\* what the ledger and the handlers of calls are made of
CallTypes ==
    /\ row \in [Requests -> Rows \cup {NoRow}]
    /\ at \in [Calls -> Awaits]
    /\ request \in [Calls -> Requests]
    /\ decision \in [Calls -> Decisions \cup {Blank}]
    /\ result \in [Calls -> {"none", "decided", "refused"}]
    /\ pending \subseteq Calls
    /\ answer \in [Calls -> Answers]

\* A handler's step leaves Hub, Kernel and operator alone.
LEMMA HandlerFrame ==
    ASSUME Inv, UNCHANGED <<hub, kernel, owner, op>>,
           CallTypes', HandlersHaveRow', LogOK', ResultOK', AnsweredDecisionHolds'
    PROVE  Inv'
<1> USE DEF hub, kernel
<1>1. TypeOK'
  BY DEF Inv, TypeOK, CallTypes, Awaits, Answers
<1>2. UndecidedOK'
  BY DEF Inv, UndecidedOK
<1>3. OperationsOK'
  BY DEF Inv, OperationsOK, ApprovedFor
<1>4. MountedForItsOwner'
  BY DEF Inv, MountedForItsOwner
<1> QED
  BY <1>1, <1>2, <1>3, <1>4 DEF Inv

\* What the invariant says of the ledger and the handlers.
LEMMA InvCalls ==
    ASSUME Inv
    PROVE  CallTypes /\ HandlersHaveRow /\ LogOK /\ ResultOK /\ AnsweredDecisionHolds
  BY DEF Inv, TypeOK, CallTypes, Awaits, Answers

\* What one more entry adds to a log of requests in S and Decisions in T.
LEMMA EntryLemma ==
    ASSUME NEW S, NEW T, NEW entries \in SUBSET (S \X T), NEW a \in S, NEW b \in T
    PROVE  /\ entries \cup {<<a, b>>} \subseteq S \X T
           /\ \A r, d : <<r, d>> \in entries \cup {<<a, b>>} =>
                          <<r, d>> \in entries \/ (r = a /\ d = b)
<1>1. <<a, b>> \in S \X T
  OBVIOUS
<1>2. ASSUME NEW r, NEW d, <<r, d>> = <<a, b>> PROVE r = a /\ d = b
  BY <1>2
<1> QED
  BY <1>1, <1>2

\* A handler that ends leaves nothing to keep but its answer.
LEMMA ReplyLemma ==
    ASSUME Inv, NEW k \in Calls, NEW words \in Answers \ {"none"}, at[k] # "unused",
           words = "decided" => CommittedDecision(decision[k]), Reply(k, words),
           UNCHANGED <<hub, kernel, owner, row, request, decision, pending, op>>
    PROVE  Inv'
<1> USE InvCalls
<1>1. /\ at'[k] = "ended" /\ answer'[k] = words /\ result'[k] = "none"
      /\ \A j \in Calls : j # k =>
            at'[j] = at[j] /\ answer'[j] = answer[j] /\ result'[j] = result[j]
  BY DEF Reply, CallTypes
<1>2. CallTypes'
  BY DEF Reply, CallTypes, Awaits
<1>3. HandlersHaveRow'
  BY <1>1 DEF HandlersHaveRow, Asked
<1>4. LogOK'
  BY DEF LogOK, hub
<1>5. ResultOK'
  BY <1>1 DEF ResultOK, hub
<1>6. AnsweredDecisionHolds'
  BY <1>1 DEF AnsweredDecisionHolds, CommittedDecision, hub
<1> QED
  BY <1>2, <1>3, <1>4, <1>5, <1>6, HandlerFrame

\* A handler that goes on without touching the ledger.
LEMMA MoveLemma ==
    ASSUME Inv, NEW k \in Calls, NEW await \in Awaits \ {"unused", "answered"},
           at[k] # "unused", at' = [at EXCEPT ![k] = await],
           await \in Asked => at[k] \in Asked,
           await \in {"confirmed", "sent"} => k \notin pending,
           pending' = pending \/ (pending' = pending \cup {k} /\ await \in Asked),
           UNCHANGED <<hub, kernel, owner, row, request, decision, result, answer, op>>
    PROVE  Inv'
<1> USE InvCalls
<1>1. at'[k] = await /\ \A j \in Calls : j # k => at'[j] = at[j]
  BY DEF CallTypes
<1>2. CallTypes'
  BY DEF CallTypes
<1>3. HandlersHaveRow'
  BY <1>1 DEF HandlersHaveRow, Asked
<1>4. LogOK'
  BY DEF LogOK, hub
<1>5. ResultOK'
  BY <1>1 DEF ResultOK, hub
<1>6. AnsweredDecisionHolds'
  BY DEF AnsweredDecisionHolds, hub
<1> QED
  BY <1>2, <1>3, <1>4, <1>5, <1>6, HandlerFrame

\* A phone confirms a verdict, or sends again what it sent.
LEMMA ConfirmInv ==
    ASSUME Inv, NEW k \in Calls, Confirm(k) \/ Repeat(k)
    PROVE  Inv'
<1> USE InvCalls
<1>1. /\ at[k] = "unused" /\ answer[k] = "none" /\ k \notin pending
      /\ at' = [at EXCEPT ![k] = "confirmed"]
      /\ UNCHANGED <<hub, kernel, owner, row, result, pending, answer, op>>
  BY DEF Confirm, Repeat, HandlersHaveRow
<1>2. PICK r \in Requests, d \in Decisions :
          /\ request' = [request EXCEPT ![k] = r]
          /\ decision' = [decision EXCEPT ![k] = d]
  <2>1. CASE Confirm(k)
    <3>1. PICK r \in RequestIds(k) : request' = [request EXCEPT ![k] = r]
      BY <2>1, Zenon DEF Confirm
    <3>2. r \in Requests
      BY <3>1 DEF RequestIds, CallTypes, Requests
    <3>3. PICK e \in Enrollments, v \in Verdicts, c \in Controllers :
            decision' = [decision EXCEPT ![k] =
                           [enrollment |-> e, revision |-> enrollment[e].revision,
                            verdict |-> v, actor |-> c, owner |-> owner]]
      BY <2>1, Zenon DEF Confirm
    <3>4. [enrollment |-> e, revision |-> enrollment[e].revision,
           verdict |-> v, actor |-> c, owner |-> owner] \in Decisions
      BY DEF Decisions, Inv, TypeOK
    <3> QED
      BY <3>1, <3>2, <3>3, <3>4
  <2>2. CASE Repeat(k)
    <3>1. PICK j \in Calls \ {k} :
            /\ at[j] \notin {"unused", "confirmed"}
            /\ request' = [request EXCEPT ![k] = request[j]]
            /\ decision' = [decision EXCEPT ![k] = decision[j]]
      BY <2>2, Zenon DEF Repeat
    <3>2. request[j] \in Requests /\ decision[j] \in Decisions
      BY <3>1 DEF CallTypes, HandlersHaveRow
    <3> QED
      BY <3>1, <3>2
  <2> QED
    BY <2>1, <2>2
<1>3. /\ at'[k] = "confirmed" /\ decision'[k] = d
      /\ \A j \in Calls : j # k =>
            at'[j] = at[j] /\ request'[j] = request[j] /\ decision'[j] = decision[j]
  BY <1>1, <1>2 DEF CallTypes
<1>4. CallTypes'
  BY <1>1, <1>2 DEF CallTypes, Awaits
<1>5. HandlersHaveRow'
  BY <1>1, <1>3 DEF HandlersHaveRow, Asked
<1>6. LogOK'
  BY <1>1 DEF LogOK, hub
<1>7. ResultOK'
  BY <1>1, <1>3 DEF ResultOK, hub
<1>8. AnsweredDecisionHolds'
  BY <1>1, <1>3 DEF AnsweredDecisionHolds, hub
<1> QED
  BY <1>1, <1>4, <1>5, <1>6, <1>7, <1>8, HandlerFrame

\* The intent is written down, found, or refused.
LEMMA GetOrCreateInv ==
    ASSUME Inv, NEW k \in Calls, GetOrCreate(k)
    PROVE  Inv'
<1> USE InvCalls
<1> DEFINE r == request[k]
<1>0. /\ at[k] = "sent" /\ r \in Requests /\ decision[k] \in Decisions /\ k \notin pending
      /\ UNCHANGED <<hub, kernel, owner, request, decision, pending, op>>
  BY DEF GetOrCreate, CallTypes, HandlersHaveRow
<1>1. CASE /\ row[r] = NoRow
           /\ row' = [row EXCEPT ![r] = [decision |-> decision[k], result |-> "none"]]
           /\ at' = [at EXCEPT ![k] = "review"]
           /\ UNCHANGED <<result, answer>>
  <2>1. [decision |-> decision[k], result |-> "none"] \in Rows
    BY <1>0 DEF Rows
  <2>2. [decision |-> decision[k], result |-> "none"] # NoRow
    BY <2>1, NonesAssumption DEF NonesAssumption
  <2>3. /\ row'[r] = [decision |-> decision[k], result |-> "none"]
        /\ \A q \in Requests : q # r => row'[q] = row[q]
        /\ at'[k] = "review" /\ \A j \in Calls : j # k => at'[j] = at[j]
    BY <1>0, <1>1 DEF CallTypes
  <2>4. CallTypes'
    BY <1>0, <1>1, <2>1 DEF CallTypes, Awaits, Working
  <2>5. HandlersHaveRow'
    <3>1. \A j \in Calls : j # k /\ (at[j] \in Asked \/ j \in pending) => request[j] # r
      BY <1>1 DEF HandlersHaveRow
    <3>2. \A j \in Calls : request[j] \in Requests
      BY DEF CallTypes
    <3> QED
      BY <1>0, <1>1, <2>2, <2>3, <3>1, <3>2 DEF HandlersHaveRow, Asked
  <2>6. LogOK'
    BY <1>0, <1>1, <2>3 DEF LogOK, hub
  <2>7. ResultOK'
    <3>1. \A q \in Requests : row'[q] # NoRow /\ row'[q].result # "none"
                             => <<q, row'[q].decision>> \in log'
      BY <1>0, <2>3 DEF ResultOK, hub
    <3>2. \A j \in Calls : at'[j] = "answered" /\ result'[j] = "decided"
                             => <<request'[j], decision'[j]>> \in log'
      BY <1>0, <1>1, <2>3 DEF ResultOK, hub
    <3> QED
      BY <3>1, <3>2 DEF ResultOK
  <2>8. AnsweredDecisionHolds'
    BY <1>0, <1>1 DEF AnsweredDecisionHolds, hub
  <2> QED
    BY <1>0, <2>4, <2>5, <2>6, <2>7, <2>8, HandlerFrame
<1>2. CASE /\ row[r] # NoRow /\ SameIntent(k)
           /\ result' = [result EXCEPT ![k] = row[r].result]
           /\ at' = [at EXCEPT ![k] = "review"]
           /\ UNCHANGED <<row, answer>>
  <2>1. row[r] \in Rows /\ row[r].result \in {"none", "decided"}
    BY <1>0, <1>2 DEF CallTypes, Rows
  <2>2. /\ at'[k] = "review"
        /\ \A j \in Calls : j # k => at'[j] = at[j] /\ result'[j] = result[j]
    BY <1>2 DEF CallTypes
  <2>3. CallTypes'
    BY <1>0, <1>2, <2>1 DEF CallTypes, Awaits, Working
  <2>4. HandlersHaveRow'
    BY <1>0, <1>2, <2>2 DEF HandlersHaveRow, Asked, SameIntent
  <2>5. LogOK'
    BY <1>0, <1>2 DEF LogOK, hub
  <2>6. ResultOK'
    BY <1>0, <1>2, <2>2 DEF ResultOK, hub
  <2>7. AnsweredDecisionHolds'
    BY <1>0, <1>2 DEF AnsweredDecisionHolds, hub
  <2> QED
    BY <1>0, <2>3, <2>4, <2>5, <2>6, <2>7, HandlerFrame
<1>3. CASE Reply(k, "conflict") /\ UNCHANGED row
  BY <1>0, <1>3, ReplyLemma DEF Answers
<1> QED
  BY <1>1, <1>2, <1>3 DEF GetOrCreate

\* The Enrollment is reviewed, and the Hub is asked unless the result is known.
LEMMA ReviewInv ==
    ASSUME Inv, NEW k \in Calls, Review(k)
    PROVE  Inv'
<1> USE InvCalls
<1>0. at[k] = "review" /\ UNCHANGED <<hub, kernel, owner, row, request, decision, op>>
  BY DEF Review
<1>1. CASE /\ at' = [at EXCEPT ![k] = "decide"] /\ pending' = pending \cup {k}
           /\ UNCHANGED <<result, answer>>
  BY <1>0, <1>1, MoveLemma DEF Asked, Awaits, Working
<1>2. CASE at' = [at EXCEPT ![k] = "confirm"] /\ UNCHANGED <<result, pending, answer>>
  BY <1>0, <1>2, MoveLemma DEF Asked, Awaits, Working
<1>3. CASE (Reply(k, "conflict") \/ Reply(k, "unavailable")) /\ UNCHANGED pending
  BY <1>0, <1>3, ReplyLemma DEF Answers
<1> QED
  BY <1>1, <1>2, <1>3 DEF Review

\* The Hub's result is recorded in the row of its request.
LEMMA MarkInv ==
    ASSUME Inv, NEW k \in Calls, MarkDecisionCommitted(k)
    PROVE  Inv'
<1> USE InvCalls
<1> DEFINE r == request[k]
<1>0. /\ at[k] = "answered" /\ r \in Requests
      /\ UNCHANGED <<hub, kernel, owner, request, decision, pending, op>>
  BY DEF MarkDecisionCommitted, CallTypes
<1>1. CASE /\ result[k] = "decided"
           /\ row' = [row EXCEPT ![r].result = "decided"]
           /\ at' = [at EXCEPT ![k] = "confirm"]
           /\ UNCHANGED <<result, answer>>
  <2>1. /\ row[r] # NoRow /\ row[r] \in Rows /\ row[r].decision = decision[k]
        /\ <<r, decision[k]>> \in log
    BY <1>0, <1>1 DEF HandlersHaveRow, ResultOK, CallTypes, Asked
  <2>2. /\ row'[r] = [row[r] EXCEPT !.result = "decided"]
        /\ \A q \in Requests : q # r => row'[q] = row[q]
        /\ at'[k] = "confirm" /\ \A j \in Calls : j # k => at'[j] = at[j]
    BY <1>0, <1>1 DEF CallTypes
  <2>3. row'[r] \in Rows /\ row'[r].decision = row[r].decision
    BY <2>1, <2>2 DEF Rows
  <2>4. row'[r] # NoRow
    BY <2>3, NonesAssumption DEF NonesAssumption
  <2>5. \A q \in Requests : row[q] # NoRow =>
           row'[q] # NoRow /\ row'[q].decision = row[q].decision
    BY <2>2, <2>3, <2>4
  <2>6. CallTypes'
    <3>1. row' \in [Requests -> Rows \cup {NoRow}]
      BY <1>0, <1>1, <2>2, <2>3 DEF CallTypes
    <3> QED
      BY <1>0, <1>1, <3>1 DEF CallTypes, Awaits, Working
  <2>7. HandlersHaveRow'
    <3>1. \A j \in Calls : request[j] \in Requests
      BY DEF CallTypes
    <3> QED
      BY <1>0, <1>1, <2>2, <2>5, <3>1 DEF HandlersHaveRow, Asked
  <2>8. LogOK'
    BY <1>0, <2>5 DEF LogOK, hub
  <2>9. ResultOK'
    <3>1. \A q \in Requests : row'[q] # NoRow /\ row'[q].result # "none"
                             => <<q, row'[q].decision>> \in log'
      BY <1>0, <2>1, <2>2, <2>3 DEF ResultOK, hub
    <3>2. \A j \in Calls : at'[j] = "answered" /\ result'[j] = "decided"
                             => <<request'[j], decision'[j]>> \in log'
      BY <1>0, <1>1, <2>2 DEF ResultOK, hub
    <3> QED
      BY <3>1, <3>2 DEF ResultOK
  <2>10. AnsweredDecisionHolds'
    BY <1>0, <1>1 DEF AnsweredDecisionHolds, hub
  <2> QED
    BY <1>0, <2>6, <2>7, <2>8, <2>9, <2>10, HandlerFrame
<1>2. CASE Reply(k, "conflict") /\ UNCHANGED row
  BY <1>0, <1>2, ReplyLemma DEF Answers
<1> QED
  BY <1>1, <1>2 DEF MarkDecisionCommitted

\* Every other step of a handler sends the call on or answers it.
LEMMA HandleInv ==
    ASSUME Inv, NEW k \in Calls, Handle(k)
    PROVE  Inv'
<1> USE InvCalls
<1>1. CASE Send(k)
  <2>1. CASE at' = [at EXCEPT ![k] = "sent"] /\ UNCHANGED <<result, answer>>
    <3>1. k \notin pending /\ at[k] = "confirmed"
      BY <1>1 DEF Send, HandlersHaveRow
    <3> QED
      BY <1>1, <2>1, <3>1, MoveLemma DEF Send, Asked, Awaits, Working
  <2>2. CASE Reply(k, "conflict")
    BY <1>1, <2>2, ReplyLemma DEF Send, Answers
  <2> QED
    BY <1>1, <2>1, <2>2 DEF Send
<1>2. CASE DecideFails(k)
  BY <1>2, ReplyLemma DEF DecideFails, Answers
<1>3. CASE ConfirmDecision(k)
  BY <1>3, ReplyLemma DEF ConfirmDecision, Answers
<1> QED
  BY <1>1, <1>2, <1>3, GetOrCreateInv, ReviewInv, MarkInv DEF Handle

\* Where the Hub keeps its Decisions, what was answered and mounted stays true.
LEMMA DecisionsKeepPromises ==
    ASSUME Inv, DecisionsStay
    PROVE  /\ \A k \in Calls : answer[k] = "decided" =>
                 /\ decision[k] \in Decisions
                 /\ enrollment'[decision[k].enrollment].decision = decision[k]
           /\ \A o \in Operations : op[o].at \in {"mounts", "mount"} =>
                 ApprovedFor(enrollment', op[o].owner)
           /\ mount # NoOwner => ApprovedFor(enrollment', mount)
<1>1. ASSUME NEW k \in Calls, answer[k] = "decided"
      PROVE  /\ decision[k] \in Decisions
             /\ enrollment'[decision[k].enrollment].decision = decision[k]
  <2>1. decision[k] \in Decisions
    BY <1>1, InvCalls DEF HandlersHaveRow
  <2>2. decision[k] # NoDecision /\ decision[k].enrollment \in Enrollments
    BY <2>1, NonesAssumption DEF NonesAssumption, Decisions
  <2> QED
    BY <1>1, <2>1, <2>2 DEF Inv, AnsweredDecisionHolds, DecisionsStay
<1>2. \A o \in Operations : op[o].at \in {"mounts", "mount"} =>
         ApprovedFor(enrollment', op[o].owner)
  BY ApprovalsStay DEF Inv, OperationsOK
<1>3. mount # NoOwner => ApprovedFor(enrollment, mount)
  BY DEF Inv, MountedForItsOwner, ApprovedFor
<1> QED
  BY <1>1, <1>2, <1>3, ApprovalsStay

\* A command of a phone's call reaches the Hub.
LEMMA HubDecidesInv ==
    ASSUME Inv, NEW k \in Calls, HubDecides(k)
    PROVE  Inv'
<1> USE InvCalls
<1> DEFINE r == request[k]
           d == decision[k]
<1>0. /\ k \in pending /\ pending' = pending \ {k} /\ HubCarriesOut(r, d)
      /\ UNCHANGED <<kernel, owner, row, request, decision, answer, op>>
  BY DEF HubDecides
<1>1. /\ r \in Requests /\ d \in Decisions /\ row[r] # NoRow /\ row[r].decision = d
      /\ at[k] \notin {"unused", "confirmed", "sent"}
  BY <1>0 DEF CallTypes, HandlersHaveRow
<1>2. /\ enrollment' \in [Enrollments -> [state : EnrollmentStates,
            revision : 1..MaxRevision, decision : Decisions \cup {NoDecision}]]
      /\ UndecidedOK'
      /\ DecisionsStay
      /\ log' = log \/ log' = log \cup {<<r, d>>}
      /\ HubOutcome(r, d) # "refused" => <<r, d>> \in log'
  BY <1>0, <1>1, HubLemma
<1>3. /\ at' \in [Calls -> Awaits] /\ result' \in [Calls -> {"none", "decided", "refused"}]
      /\ \A j \in Calls : j # k => at'[j] = at[j] /\ result'[j] = result[j]
      /\ at'[k] = at[k] \/ at'[k] = "answered"
      /\ at'[k] = "answered" /\ result'[k] = "decided" =>
            \/ HubOutcome(r, d) # "refused"
            \/ at[k] = "answered" /\ result[k] = "decided"
  <2>1. CASE at[k] = "decide"
    BY <2>1 DEF HubDecides, CallTypes, Awaits, Working
  <2>2. CASE at[k] # "decide"
    BY <2>2 DEF HubDecides, CallTypes
  <2> QED
    BY <2>1, <2>2
<1>4. TypeOK'
  <2>0. /\ log \in SUBSET ((Requests \cup {OperatorRequest}) \X Decisions)
        /\ r \in Requests \cup {OperatorRequest}
    BY <1>1 DEF Inv, TypeOK
  <2>1. log' \subseteq (Requests \cup {OperatorRequest}) \X Decisions
    BY <1>1, <1>2, <2>0, EntryLemma
  <2> QED
    BY <1>0, <1>2, <1>3, <2>1 DEF Inv, TypeOK, kernel, Awaits
<1>5. HandlersHaveRow'
  BY <1>0, <1>1, <1>3 DEF HandlersHaveRow, Asked
<1>6. LogOK'
  <2> SUFFICES ASSUME NEW q \in Requests, NEW e \in Decisions, <<q, e>> \in log'
               PROVE  row'[q] # NoRow /\ row'[q].decision = e
    BY DEF LogOK
  <2>1. row' = row
    BY <1>0
  <2>2. CASE <<q, e>> \in log
    BY <2>1, <2>2 DEF LogOK
  <2>3. CASE q = r /\ e = d
    BY <1>1, <2>1, <2>3
  <2>4. /\ log \in SUBSET ((Requests \cup {OperatorRequest}) \X Decisions)
        /\ r \in Requests \cup {OperatorRequest}
    BY <1>1 DEF Inv, TypeOK
  <2>5. <<q, e>> \in log \/ (q = r /\ e = d)
    <3>1. CASE log' = log \cup {<<r, d>>}
      <4>1. <<q, e>> \in log \cup {<<r, d>>}
        BY <3>1
      <4> HIDE DEF r, d
      <4> QED
        BY <1>1, <2>4, <4>1, EntryLemma
    <3> QED
      BY <1>2, <3>1
  <2> QED
    BY <2>2, <2>3, <2>5
<1>7. ResultOK'
  <2>1. \A q \in Requests : row'[q] # NoRow /\ row'[q].result # "none"
                           => <<q, row'[q].decision>> \in log'
    BY <1>0, <1>2 DEF ResultOK
  <2>2. \A j \in Calls : at'[j] = "answered" /\ result'[j] = "decided"
                           => <<request'[j], decision'[j]>> \in log'
    BY <1>0, <1>2, <1>3 DEF ResultOK
  <2> QED
    BY <2>1, <2>2 DEF ResultOK
<1>8. OperationsOK' /\ AnsweredDecisionHolds' /\ MountedForItsOwner'
  BY <1>0, <1>2, DecisionsKeepPromises
     DEF Inv, OperationsOK, AnsweredDecisionHolds, MountedForItsOwner, ApprovedFor, kernel
<1> QED
  BY <1>2, <1>4, <1>5, <1>6, <1>7, <1>8 DEF Inv

-----------------------------------------------------------------------------
(* The operator's page.                                                     *)

\* what an admission is made of
OperationType == [at : OperationSteps, owner : Owners, reviewed : Decisions \cup {Blank}]

\* admission o moves, the others stay where they are
Moves(o) ==
    /\ op' \in [Operations -> OperationType]
    /\ op'[o].owner = op[o].owner
    /\ \A p \in Operations : p # o => op'[p] = op[p]

\* The handler of o goes on to its next await.
LEMMA StandsLemma ==
    ASSUME Inv, NEW o \in Operations, NEW place \in OperationSteps, Stands(o, place)
    PROVE  Moves(o) /\ op'[o].at = place /\ op'[o].reviewed = op[o].reviewed
  BY DEF Inv, TypeOK, Stands, Moves, OperationType

\* The handler of o answers the page.
LEMMA TellsLemma ==
    ASSUME Inv, NEW o \in Operations, NEW words, Tells(o, words)
    PROVE  Moves(o) /\ op'[o].at \in {"idle", "completed"}
<1>1. PICK place \in {"idle", "completed"} :
        op' = [op EXCEPT ![o].at = place, ![o].reviewed = Blank]
  BY Zenon DEF Tells
<1>2. op'[o] = [op[o] EXCEPT !.at = place, !.reviewed = Blank]
  BY <1>1 DEF Inv, TypeOK
<1>3. op[o] \in OperationType /\ place \in OperationSteps
  BY DEF Inv, TypeOK, OperationType, OperationSteps
<1>4. op'[o] \in OperationType /\ op'[o].at = place /\ op'[o].owner = op[o].owner
  BY <1>2, <1>3 DEF OperationType
<1>5. DOMAIN op' = Operations /\ \A p \in Operations : p # o => op'[p] = op[p]
  BY <1>1 DEF Inv, TypeOK
<1> QED
  BY <1>1, <1>4, <1>5 DEF Inv, TypeOK, Moves, OperationType

\* A step of admission o keeps the invariant if the Hub keeps its Decisions, the
\* calls are left alone, and what o does next, or has had mounted, is approved.
LEMMA OperatorFrame ==
    ASSUME Inv, NEW o \in Operations, Moves(o),
           UNCHANGED <<owner, row, handler, pending, answer>>,
           log' = log \/ \E d \in Decisions : log' = log \cup {<<OperatorRequest, d>>},
           enrollment' \in [Enrollments -> [state : EnrollmentStates,
             revision : 1..MaxRevision, decision : Decisions \cup {NoDecision}]],
           UndecidedOK', DecisionsStay,
           op'[o].at \in {"approve", "reread"} => op'[o].reviewed \in Decisions,
           op'[o].at \in {"mounts", "mount"} => ApprovedFor(enrollment', op[o].owner),
           mount' = mount \/ (mount' \in Owners /\ ApprovedFor(enrollment', mount')),
           body' \in BOOLEAN
    PROVE  Inv'
<1> USE DEF handler
<1>0. /\ log \in SUBSET ((Requests \cup {OperatorRequest}) \X Decisions)
      /\ OperatorRequest \in Requests \cup {OperatorRequest}
  BY DEF Inv, TypeOK
<1>1. log' \subseteq (Requests \cup {OperatorRequest}) \X Decisions /\ log \subseteq log'
  <2>1. CASE log' = log
    BY <1>0, <2>1
  <2>2. ASSUME NEW d \in Decisions, log' = log \cup {<<OperatorRequest, d>>}
        PROVE  log' \subseteq (Requests \cup {OperatorRequest}) \X Decisions
    <3>1. log \cup {<<OperatorRequest, d>>} \subseteq (Requests \cup {OperatorRequest}) \X Decisions
      <4>1. <<OperatorRequest, d>> \in (Requests \cup {OperatorRequest}) \X Decisions
        OBVIOUS
      <4>2. log \subseteq (Requests \cup {OperatorRequest}) \X Decisions
        BY <1>0
      <4> DEFINE entry == <<OperatorRequest, d>>
                 entries == (Requests \cup {OperatorRequest}) \X Decisions
      <4>3. entry \in entries /\ log \subseteq entries
        BY <4>1, <4>2
      <4> HIDE DEF entry, entries
      <4>4. log \cup {entry} \subseteq entries
        BY <4>3
      <4> QED
        BY <4>4 DEF entry, entries
    <3> QED
      BY <2>2, <3>1
  <2> QED
    BY <2>1, <2>2
<1>2. TypeOK'
  <2>1. mount' \in Owners \cup {NoOwner}
    BY DEF Inv, TypeOK
  <2> QED
    BY <1>1, <2>1 DEF Inv, TypeOK, Moves, OperationType
<1>3. HandlersHaveRow'
  BY DEF Inv, HandlersHaveRow
<1>4. LogOK'
  <2>1. ASSUME NEW r \in Requests, NEW d \in Decisions, <<r, d>> \in log'
        PROVE  <<r, d>> \in log
    <3>1. r # OperatorRequest
      BY NamesAssumption DEF NamesAssumption, Requests
    <3>2. ASSUME NEW e \in Decisions, log' = log \cup {<<OperatorRequest, e>>}
          PROVE  <<r, d>> \in log
      <4>1. <<r, d>> \in log \cup {<<OperatorRequest, e>>}
        BY <2>1, <3>2
      <4> QED
        BY <1>0, <3>1, <4>1, EntryLemma
    <3> QED
      BY <2>1, <3>2
  <2> QED
    BY <2>1 DEF Inv, LogOK
<1>5. ResultOK'
  BY <1>1 DEF Inv, ResultOK
<1>6. AnsweredDecisionHolds'
  BY DecisionsKeepPromises DEF AnsweredDecisionHolds
<1>7. MountedForItsOwner'
  BY DecisionsKeepPromises DEF MountedForItsOwner, ApprovedFor
<1>8. OperationsOK'
  <2>1. ASSUME NEW p \in Operations
        PROVE  /\ op'[p].at \in {"approve", "reread"} => op'[p].reviewed \in Decisions
               /\ op'[p].at \in {"mounts", "mount"} => ApprovedFor(enrollment', op'[p].owner)
    <3>1. CASE p = o
      BY <3>1 DEF Moves
    <3>2. CASE p # o
      BY <3>2, DecisionsKeepPromises DEF Moves, Inv, OperationsOK
    <3> QED
      BY <3>1, <3>2
  <2> QED
    BY <2>1 DEF OperationsOK
<1> QED
  BY <1>2, <1>3, <1>4, <1>5, <1>6, <1>7, <1>8 DEF Inv

\* The same for a step that leaves the Hub alone.
LEMMA OperatorStep ==
    ASSUME Inv, NEW o \in Operations, Moves(o),
           UNCHANGED <<hub, owner, row, handler, pending, answer>>,
           op'[o].at \in {"approve", "reread"} => op'[o].reviewed \in Decisions,
           op'[o].at \in {"mounts", "mount"} => ApprovedFor(enrollment, op[o].owner),
           mount' = mount \/ (mount' \in Owners /\ ApprovedFor(enrollment, mount')),
           body' \in BOOLEAN
    PROVE  Inv'
<1>1. enrollment' = enrollment /\ log' = log
  BY DEF hub
<1>2. UndecidedOK' /\ DecisionsStay
  BY <1>1 DEF Inv, UndecidedOK, DecisionsStay
<1>3. enrollment' \in [Enrollments -> [state : EnrollmentStates,
        revision : 1..MaxRevision, decision : Decisions \cup {NoDecision}]]
  BY <1>1 DEF Inv, TypeOK
<1> QED
  BY <1>1, <1>2, <1>3, OperatorFrame

\* Listing: the approval is asked for, or was given for this Owner.
LEMMA OperatorListsInv ==
    ASSUME Inv, NEW o \in Operations, OperatorLists(o)
    PROVE  Inv'
<1>0. /\ UNCHANGED <<hub, kernel, owner, row, handler, pending, answer>>
      /\ mount' = mount /\ body' \in BOOLEAN
  BY DEF OperatorLists, kernel, Inv, TypeOK
<1>1. ASSUME NEW words, Tells(o, words) PROVE Inv'
  BY <1>0, <1>1, TellsLemma, OperatorStep
<1>2. ASSUME NEW e \in Enrollments, ApprovedForOwner(o, e), Stands(o, "mounts") PROVE Inv'
  <2>1. ApprovedFor(enrollment, op[o].owner)
    BY <1>2 DEF ApprovedForOwner, ApprovedFor
  <2> QED
    BY <1>0, <1>2, <2>1, StandsLemma, OperatorStep DEF OperationSteps
<1>3. ASSUME NEW e \in Enrollments,
             op' = [op EXCEPT ![o].at = "approve", ![o].reviewed = Approval(o, e)]
      PROVE  Inv'
  <2>1. Approval(o, e) \in Decisions
    BY DEF Approval, Decisions, Verdicts, Inv, TypeOK
  <2>2. op'[o] = [op[o] EXCEPT !.at = "approve", !.reviewed = Approval(o, e)]
    BY <1>3 DEF Inv, TypeOK
  <2>3. op[o] \in OperationType /\ "approve" \in OperationSteps
    BY DEF Inv, TypeOK, OperationType, OperationSteps
  <2>4. /\ op'[o] \in OperationType /\ op'[o].at = "approve"
        /\ op'[o].owner = op[o].owner /\ op'[o].reviewed = Approval(o, e)
    BY <2>1, <2>2, <2>3 DEF OperationType
  <2>5. DOMAIN op' = Operations /\ \A p \in Operations : p # o => op'[p] = op[p]
    BY <1>3 DEF Inv, TypeOK
  <2>6. Moves(o)
    BY <1>3, <2>4, <2>5 DEF Inv, TypeOK, Moves, OperationType
  <2> QED
    BY <1>0, <2>1, <2>4, <2>6, OperatorStep
<1> QED
  BY <1>1, <1>2, <1>3 DEF OperatorLists

\* The operator's approval reaches the Hub, or does not.
LEMMA HubApprovesInv ==
    ASSUME Inv, NEW o \in Operations, HubApproves(o)
    PROVE  Inv'
<1>0. /\ UNCHANGED <<kernel, owner, row, handler, pending, answer>>
      /\ mount' = mount /\ body' \in BOOLEAN
      /\ op[o].reviewed \in Decisions
  BY DEF HubApproves, kernel, Inv, TypeOK, OperationsOK
<1>1. CASE HubCarriesOut(OperatorRequest, op[o].reviewed)
  <2>1. /\ enrollment' \in [Enrollments -> [state : EnrollmentStates,
              revision : 1..MaxRevision, decision : Decisions \cup {NoDecision}]]
        /\ UndecidedOK'
        /\ DecisionsStay
        /\ log' = log \/ log' = log \cup {<<OperatorRequest, op[o].reviewed>>}
    BY <1>0, <1>1, HubLemma
  <2>2. CASE Stands(o, "reread")
    BY <1>0, <2>1, <2>2, StandsLemma, OperatorFrame DEF OperationSteps
  <2>3. ASSUME NEW words, Tells(o, words) PROVE Inv'
    BY <1>0, <2>1, <2>3, TellsLemma, OperatorFrame
  <2> QED
    BY <2>2, <2>3 DEF HubApproves
<1>2. CASE Tells(o, "unavailable") /\ UNCHANGED hub
  BY <1>0, <1>2, TellsLemma, OperatorStep
<1> QED
  BY <1>1, <1>2 DEF HubApproves

\* The operator's reads and writes at the Kernel.
LEMMA OperatorKernelInv ==
    ASSUME Inv, NEW o \in Operations,
           \/ OperatorRereads(o) \/ OperatorReadsMount(o)
           \/ OperatorMounts(o) \/ OperatorAssigns(o)
    PROVE  Inv'
<1>0. UNCHANGED <<hub, owner, row, handler, pending, answer>> /\ body' \in BOOLEAN
  <2>1. body \in BOOLEAN
    BY DEF Inv, TypeOK
  <2> QED
    BY <2>1 DEF OperatorRereads, OperatorReadsMount, OperatorMounts, OperatorAssigns, kernel
<1>1. CASE OperatorRereads(o)
  <2>0. UNCHANGED mount
    BY <1>1 DEF OperatorRereads, kernel
  <2>1. ASSUME NEW words, Tells(o, words) PROVE Inv'
    BY <1>0, <2>0, <2>1, TellsLemma, OperatorStep
  <2>2. CASE Stands(o, "mounts") /\ ApprovedForOwner(o, op[o].reviewed.enrollment)
    <3>1. op[o].reviewed.enrollment \in Enrollments
      BY <1>1 DEF OperatorRereads, Inv, OperationsOK, Decisions
    <3>2. ApprovedFor(enrollment, op[o].owner)
      BY <2>2, <3>1 DEF ApprovedForOwner, ApprovedFor
    <3> QED
      BY <1>0, <2>0, <2>2, <3>2, StandsLemma, OperatorStep DEF OperationSteps
  <2> QED
    BY <1>1, <2>1, <2>2 DEF OperatorRereads
<1>2. CASE OperatorReadsMount(o)
  <2>0. UNCHANGED mount /\ ApprovedFor(enrollment, op[o].owner)
    BY <1>2 DEF OperatorReadsMount, kernel, Inv, OperationsOK
  <2>1. ASSUME NEW words, Tells(o, words) PROVE Inv'
    BY <1>0, <2>0, <2>1, TellsLemma, OperatorStep
  <2>2. ASSUME NEW place \in {"mount", "assign"}, Stands(o, place) PROVE Inv'
    BY <1>0, <2>0, <2>2, StandsLemma, OperatorStep DEF OperationSteps
  <2> QED
    BY <1>2, <2>1, <2>2 DEF OperatorReadsMount, Mounted
<1>3. CASE OperatorMounts(o)
  <2>0. /\ ApprovedFor(enrollment, op[o].owner) /\ op[o].owner \in Owners
        /\ mount' = mount \/ mount' = op[o].owner
    BY <1>3 DEF OperatorMounts, Inv, OperationsOK, TypeOK
  <2>1. ASSUME NEW words, Tells(o, words) PROVE Inv'
    BY <1>0, <2>0, <2>1, TellsLemma, OperatorStep
  <2>2. CASE Stands(o, "assign")
    BY <1>0, <2>0, <2>2, StandsLemma, OperatorStep DEF OperationSteps
  <2> QED
    BY <1>3, <2>1, <2>2 DEF OperatorMounts, Mounted
<1>4. CASE OperatorAssigns(o)
  <2>0. UNCHANGED mount
    BY <1>4 DEF OperatorAssigns
  <2>1. ASSUME NEW words, Tells(o, words) PROVE Inv'
    BY <1>0, <2>0, <2>1, TellsLemma, OperatorStep
  <2> QED
    BY <1>4, <2>1 DEF OperatorAssigns
<1> QED
  BY <1>1, <1>2, <1>3, <1>4

-----------------------------------------------------------------------------
(* The whole.                                                               *)

\* The control plane dies: handlers are gone, ledger and Hub are not.
LEMMA RestartInv ==
    ASSUME Inv, Restart
    PROVE  Inv'
<1> USE InvCalls
<1>0. UNCHANGED <<hub, kernel, owner, row, request, decision, pending>>
  BY DEF Restart
<1>1. \A k \in Calls : /\ at'[k] = IF at[k] \in Working THEN "ended" ELSE at[k]
                       /\ answer'[k] = IF at[k] \in Working THEN "unavailable" ELSE answer[k]
                       /\ result'[k] = "none"
  BY DEF Restart
<1>2. CallTypes'
  BY <1>0 DEF Restart, CallTypes, Awaits, Answers
<1>3. \A o \in Operations : /\ op'[o] \in OperationType /\ op'[o].owner = op[o].owner
                            /\ op'[o].at \in {"idle", "completed"}
  <2> SUFFICES ASSUME NEW o \in Operations
               PROVE  /\ op'[o] \in OperationType /\ op'[o].owner = op[o].owner
                      /\ op'[o].at \in {"idle", "completed"}
    OBVIOUS
  <2>1. op[o] \in OperationType
    BY DEF Inv, TypeOK, OperationType
  <2>2. CASE op[o].at = "completed"
    <3>1. op'[o] = op[o]
      BY <2>2 DEF Restart
    <3> QED
      BY <2>1, <2>2, <3>1
  <2>3. CASE op[o].at # "completed"
    <3>1. op'[o] = [op[o] EXCEPT !.at = "idle", !.reviewed = Blank]
      BY <2>3 DEF Restart
    <3> QED
      BY <2>1, <3>1 DEF OperationType, OperationSteps
  <2> QED
    BY <2>2, <2>3
<1>4. TypeOK'
  <2>1. op' \in [Operations -> OperationType]
    BY <1>3, Zenon DEF Restart
  <2> QED
    BY <1>0, <1>2, <2>1
       DEF Inv, TypeOK, CallTypes, OperationType, Awaits, Answers, hub, kernel
<1>5. UndecidedOK' /\ MountedForItsOwner'
  BY <1>0 DEF Inv, UndecidedOK, MountedForItsOwner, hub, kernel
<1>6. HandlersHaveRow'
  BY <1>0, <1>1 DEF HandlersHaveRow, Asked, Working
<1>7. LogOK'
  BY <1>0 DEF LogOK, hub
<1>8. ResultOK'
  BY <1>0, <1>1 DEF ResultOK, hub, Working
<1>9. OperationsOK'
  BY <1>3 DEF OperationsOK
<1>10. AnsweredDecisionHolds'
  BY <1>0, <1>1 DEF AnsweredDecisionHolds, hub
<1> QED
  BY <1>4, <1>5, <1>6, <1>7, <1>8, <1>9, <1>10 DEF Inv

\* Another Owner: what was decided for the earlier one stays decided.
LEMMA OwnerChangesInv ==
    ASSUME Inv, OwnerChanges
    PROVE  Inv'
<1>1. owner' \in Owners /\ UNCHANGED <<hub, kernel, row, handler, pending, answer, op>>
  BY BoundsAssumption DEF OwnerChanges, Inv, TypeOK, Owners, BoundsAssumption
<1> USE DEF hub, kernel, handler
<1>2. TypeOK'
  BY <1>1 DEF Inv, TypeOK
<1>3. UndecidedOK' /\ HandlersHaveRow' /\ LogOK' /\ ResultOK'
  BY <1>1 DEF Inv, UndecidedOK, HandlersHaveRow, LogOK, ResultOK
<1>4. OperationsOK' /\ AnsweredDecisionHolds' /\ MountedForItsOwner'
  BY <1>1 DEF Inv, OperationsOK, AnsweredDecisionHolds, MountedForItsOwner, ApprovedFor
<1> QED
  BY <1>2, <1>3, <1>4 DEF Inv

\* A step that changes nothing.
LEMMA StutterInv ==
    ASSUME Inv, UNCHANGED vars
    PROVE  Inv'
<1> USE DEF vars, hub, kernel, handler
<1>1. TypeOK'
  BY DEF Inv, TypeOK
<1>2. UndecidedOK' /\ HandlersHaveRow' /\ LogOK' /\ ResultOK'
  BY DEF Inv, UndecidedOK, HandlersHaveRow, LogOK, ResultOK
<1>3. OperationsOK' /\ AnsweredDecisionHolds' /\ MountedForItsOwner'
  BY DEF Inv, OperationsOK, AnsweredDecisionHolds, MountedForItsOwner, ApprovedFor
<1> QED
  BY <1>1, <1>2, <1>3 DEF Inv

\* The invariant holds in every reachable state.
THEOREM Invariance == Spec => []Inv
<1>1. ASSUME Inv, [Next]_vars PROVE Inv'
  <2>1. ASSUME NEW k \in Calls, Confirm(k) \/ Repeat(k) \/ Handle(k) \/ HubDecides(k)
        PROVE  Inv'
    BY <1>1, <2>1, ConfirmInv, HandleInv, HubDecidesInv
  <2>2. ASSUME NEW o \in Operations, Operate(o) PROVE Inv'
    BY <1>1, <2>2, OperatorListsInv, HubApprovesInv, OperatorKernelInv DEF Operate
  <2>3. ASSUME NEW e \in Enrollments, Propose(e) \/ Progress(e) PROVE Inv'
    BY <1>1, <2>3, EnrollmentMoves
  <2> QED
    BY <1>1, <2>1, <2>2, <2>3, OwnerChangesInv, RestartInv, StutterInv DEF Next
<1> QED
  BY <1>1, InitInv, PTL DEF Spec

\* The Hub's Enrollments, the ledger, handlers and admissions keep their shape.
THEOREM TypeCorrect == Spec => []TypeOK
  BY Invariance, PTL DEF Inv

\* A phone that is told "decided" has the Hub's Decision, then and ever after.
THEOREM AnswersHold == Spec => []AnsweredDecisionHolds
  BY Invariance, PTL DEF Inv

\* The Kernel mounts the device only for an Owner the Hub has approved it for.
THEOREM MountsAreApproved == Spec => []MountedForItsOwner
  BY Invariance, PTL DEF Inv

-----------------------------------------------------------------------------
(* The refinement.  The abstract target, effects and record of a request.   *)

TargetOf == [r \in Requests |-> IF row[r] = NoRow THEN NoTarget ELSE row[r].decision]
Effects == {entry \in log : entry[1] \in Requests}
Recorded == {r \in Requests : row[r] # NoRow /\ row[r].result = "decided"}

NewRow(k) == [decision |-> decision[k], result |-> "none"]

\* What a step does to the ledger and to the Hub's log.
LEMMA LedgerStep ==
    ASSUME Inv, [Next]_vars
    PROVE  \/ UNCHANGED <<row, log>>
           \/ \E k \in Calls :
                /\ UNCHANGED log /\ at[k] = "sent" /\ row[request[k]] = NoRow
                /\ row' = [row EXCEPT ![request[k]] = NewRow(k)]
           \/ \E k \in Calls :
                /\ UNCHANGED log /\ at[k] = "answered" /\ result[k] = "decided"
                /\ row' = [row EXCEPT ![request[k]].result = "decided"]
           \/ \E k \in pending :
                UNCHANGED row /\ log' = log \cup {<<request[k], decision[k]>>}
           \/ \E d \in Decisions :
                UNCHANGED row /\ log' = log \cup {<<OperatorRequest, d>>}
<1> USE DEF hub, handler, kernel
<1>1. CASE UNCHANGED vars
  BY <1>1 DEF vars
<1>2. ASSUME NEW k \in Calls, Confirm(k) \/ Repeat(k) PROVE UNCHANGED <<row, log>>
  BY <1>2 DEF Confirm, Repeat
<1>3. ASSUME NEW k \in Calls, Send(k) \/ Review(k) \/ DecideFails(k) \/ ConfirmDecision(k)
      PROVE  UNCHANGED <<row, log>>
  BY <1>3 DEF Send, Review, DecideFails, ConfirmDecision
<1>4. ASSUME NEW k \in Calls, GetOrCreate(k)
      PROVE  /\ UNCHANGED log
             /\ \/ UNCHANGED row
                \/ /\ at[k] = "sent" /\ row[request[k]] = NoRow
                   /\ row' = [row EXCEPT ![request[k]] = NewRow(k)]
  BY <1>4, Zenon DEF GetOrCreate, NewRow
<1>5. ASSUME NEW k \in Calls, MarkDecisionCommitted(k)
      PROVE  /\ UNCHANGED log
             /\ \/ UNCHANGED row
                \/ /\ at[k] = "answered" /\ result[k] = "decided"
                   /\ row' = [row EXCEPT ![request[k]].result = "decided"]
  BY <1>5, Zenon DEF MarkDecisionCommitted
<1>6. ASSUME NEW k \in Calls, HubDecides(k)
      PROVE  /\ UNCHANGED row /\ k \in pending
             /\ UNCHANGED log \/ log' = log \cup {<<request[k], decision[k]>>}
  BY <1>6 DEF HubDecides, HubCarriesOut
<1>7. ASSUME NEW o \in Operations, HubApproves(o)
      PROVE  /\ UNCHANGED row /\ op[o].reviewed \in Decisions
             /\ UNCHANGED log \/ log' = log \cup {<<OperatorRequest, op[o].reviewed>>}
  BY <1>7 DEF HubApproves, HubCarriesOut, Inv, OperationsOK
<1>8. ASSUME NEW o \in Operations,
             \/ OperatorLists(o) \/ OperatorRereads(o) \/ OperatorReadsMount(o)
             \/ OperatorMounts(o) \/ OperatorAssigns(o)
      PROVE  UNCHANGED <<row, log>>
  BY <1>8 DEF OperatorLists, OperatorRereads, OperatorReadsMount, OperatorMounts,
              OperatorAssigns
<1>9. ASSUME NEW e \in Enrollments, Propose(e) \/ Progress(e) PROVE UNCHANGED <<row, log>>
  BY <1>9 DEF Propose, Progress
<1>10. CASE OwnerChanges \/ Restart
  BY <1>10 DEF OwnerChanges, Restart
<1> QED
  BY <1>1, <1>2, <1>3, <1>4, <1>5, <1>6, <1>7, <1>8, <1>9, <1>10, Zenon
     DEF Next, Handle, Operate

\* A new row is an Intend.
LEMMA NewRowIsIntend ==
    ASSUME Inv, NEW k \in Calls, UNCHANGED log, at[k] = "sent",
           row[request[k]] = NoRow, row' = [row EXCEPT ![request[k]] = NewRow(k)]
    PROVE  \E r \in Requests : Abstract!Intend(r)
<1> DEFINE q == request[k]
<1>1. q \in Requests /\ decision[k] \in Decisions
  BY DEF Inv, TypeOK, HandlersHaveRow
<1>2. NewRow(k) # NoRow
  <2>1. NewRow(k) \in Rows
    BY <1>1 DEF NewRow, Rows
  <2> QED
    BY <2>1, NonesAssumption DEF NonesAssumption
<1>3. row'[q] = NewRow(k) /\ \A r \in Requests : r # q => row'[r] = row[r]
  BY <1>1 DEF Inv, TypeOK
<1>4. NewRow(k).decision = decision[k] /\ NewRow(k).result = "none"
  BY DEF NewRow
<1>5. TargetOf' = [TargetOf EXCEPT ![q] = decision[k]]
  <2>1. TargetOf' = [r \in Requests |->
                       IF row'[r] = NoRow THEN NoTarget ELSE row'[r].decision]
    BY DEF TargetOf
  <2>2. \A r \in Requests : TargetOf'[r] = IF r = q THEN decision[k] ELSE TargetOf[r]
    <3> SUFFICES ASSUME NEW r \in Requests
                 PROVE  TargetOf'[r] = IF r = q THEN decision[k] ELSE TargetOf[r]
      OBVIOUS
    <3>1. TargetOf'[r] = IF row'[r] = NoRow THEN NoTarget ELSE row'[r].decision
      BY <2>1
    <3>2. TargetOf[r] = IF row[r] = NoRow THEN NoTarget ELSE row[r].decision
      BY DEF TargetOf
    <3>3. CASE r = q
      BY <1>2, <1>3, <1>4, <3>1, <3>3
    <3>4. CASE r # q
      BY <1>3, <3>1, <3>2, <3>4
    <3> QED
      BY <3>3, <3>4
  <2>3. [TargetOf EXCEPT ![q] = decision[k]]
          = [r \in Requests |-> IF r = q THEN decision[k] ELSE TargetOf[r]]
    BY <1>1, ZenonT(30) DEF TargetOf
  <2>4. TargetOf' = [r \in Requests |-> TargetOf'[r]]
    BY <2>1, SMTT(30)
  <2>5. TargetOf' = [r \in Requests |-> IF r = q THEN decision[k] ELSE TargetOf[r]]
    BY <2>2, <2>4
  <2> QED
    BY <2>3, <2>5
<1>6. Recorded' = Recorded /\ Effects' = Effects
  BY <1>1, <1>3, <1>4 DEF Recorded, Effects
<1>7. TargetOf[q] = NoTarget
  BY <1>1 DEF TargetOf
<1>8. TargetOf'[q] = decision[k]
  BY <1>1, <1>5 DEF TargetOf
<1>9. TargetOf' = [TargetOf EXCEPT ![q] = TargetOf'[q]]
  BY <1>5, <1>8
<1>10. Abstract!Intend(q)
  BY <1>1, <1>6, <1>7, <1>8, <1>9 DEF Abstract!Intend, TargetOf, Recorded, Effects
<1> QED
  BY <1>1, <1>10, ZenonT(30) DEF Abstract!Intend

\* A result that is written down is a Record.
LEMMA MarkIsRecord ==
    ASSUME Inv, NEW k \in Calls, UNCHANGED log, at[k] = "answered", result[k] = "decided",
           row' = [row EXCEPT ![request[k]].result = "decided"]
    PROVE  \E r \in Requests : Abstract!Record(r)
<1> DEFINE q == request[k]
<1>1. /\ q \in Requests /\ row[q] # NoRow /\ row[q].decision = decision[k]
      /\ row[q] \in Rows /\ <<q, decision[k]>> \in log
  BY DEF Inv, TypeOK, HandlersHaveRow, Asked, ResultOK
<1>2. /\ row'[q] = [row[q] EXCEPT !.result = "decided"]
      /\ \A r \in Requests : r # q => row'[r] = row[r]
  BY <1>1 DEF Inv, TypeOK
<1>3. row'[q].decision = row[q].decision /\ row'[q].result = "decided" /\ row'[q] \in Rows
  BY <1>1, <1>2 DEF Rows
<1>4. row'[q] # NoRow
  BY <1>3, NonesAssumption DEF NonesAssumption
<1>5. TargetOf' = TargetOf
  BY <1>1, <1>2, <1>3, <1>4 DEF TargetOf
<1>6. Recorded' = Recorded \cup {q}
  BY <1>1, <1>2, <1>3, <1>4, ZenonT(30) DEF Recorded
<1>7. <<q, TargetOf[q]>> \in Effects /\ Effects' = Effects
  BY <1>1 DEF TargetOf, Effects
<1>8. Abstract!Record(q)
  BY <1>5, <1>6, <1>7 DEF Abstract!Record, TargetOf, Recorded, Effects
<1> QED
  BY <1>1, <1>8, ZenonT(30) DEF Abstract!Record

\* A Controller's command the Hub carries out is a CarryOut.
LEMMA DecisionIsCarryOut ==
    ASSUME Inv, NEW k \in pending, UNCHANGED row,
           log' = log \cup {<<request[k], decision[k]>>}
    PROVE  \E r \in Requests : Abstract!CarryOut(r)
<1> DEFINE q == request[k]
<1>1. /\ q \in Requests /\ row[q] # NoRow /\ row[q].decision = decision[k]
      /\ decision[k] \in Decisions
  BY DEF Inv, TypeOK, HandlersHaveRow
<1>2. TargetOf[q] = decision[k] /\ decision[k] # NoTarget
  BY <1>1, NonesAssumption DEF NonesAssumption, TargetOf
<1>3. Effects' = Effects \cup {<<q, decision[k]>>}
  BY <1>1 DEF Effects
<1>4. TargetOf' = TargetOf /\ Recorded' = Recorded
  BY DEF TargetOf, Recorded
<1>5. Abstract!CarryOut(q)
  BY <1>2, <1>3, <1>4 DEF Abstract!CarryOut, TargetOf, Recorded, Effects
<1> QED
  BY <1>1, <1>5, ZenonT(30) DEF Abstract!CarryOut

\* The ledger and the Hub's log of Controllers' requests implement a durable
\* intent: every step writes a Decision down, carries one out, records a result,
\* or leaves all three alone, the operator's approvals included.
THEOREM Refinement == Spec => DecisionIsDurable
<1>1. Init => Abstract!Init
  BY SMTT(30) DEF Init, Abstract!Init
<1>2. ASSUME Inv, [Next]_vars
      PROVE  Abstract!Next \/ UNCHANGED <<TargetOf, Effects, Recorded>>
  <2>1. CASE UNCHANGED <<row, log>>
    BY <2>1 DEF TargetOf, Effects, Recorded
  <2>2. ASSUME NEW d \in Decisions, UNCHANGED row,
               log' = log \cup {<<OperatorRequest, d>>}
        PROVE  UNCHANGED <<TargetOf, Effects, Recorded>>
    <3>1. OperatorRequest \notin Requests
      BY NamesAssumption DEF NamesAssumption, Requests
    <3>2. Effects' = Effects
      BY <2>2, <3>1 DEF Effects
    <3> QED
      BY <2>2, <3>2 DEF TargetOf, Recorded
  <2> QED
    BY <1>2, <2>1, <2>2, LedgerStep, NewRowIsIntend, MarkIsRecord, DecisionIsCarryOut
       DEF Abstract!Next
<1>3. Inv /\ [Next]_vars => [Abstract!Next]_<<TargetOf, Effects, Recorded>>
  BY <1>2
<1> QED
  BY <1>1, <1>3, Invariance, PTL
     DEF Spec, DecisionIsDurable, Abstract!Spec, TargetOf, Effects, Recorded
=============================================================================
