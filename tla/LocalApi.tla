------------------------------- MODULE LocalApi -------------------------------
(***************************************************************************)
(* The Local API: the sessions of phones that manage a Host, the Owner     *)
(* scope a session resolves, first setup of the Workspace, commissioning   *)
(* vouchers, and the removal of a phone.  Bootstrap is ControllerGrants;   *)
(* Data (the Workspace) and the Hub (the standing of vouchers) are         *)
(* external.                                                               *)
(*                                                                         *)
(* A request is a task with a program counter that names the call it waits *)
(* for.  A step runs from the answer of one call to the next, so two       *)
(* requests, also of one session, interleave at every await.               *)
(***************************************************************************)
EXTENDS Integers, Sequences, SequencesExt

CONSTANTS
    Controllers,    \* phones
    Tokens,         \* access tokens
    Requests,       \* requests in flight
    Inputs,         \* what a phone may ask to set up
    NoToken,        \* a request without a session
    NoSession,      \* a token nobody was given
    Nobody,         \* a request that names no phone
    Absent,         \* the Data plane has no Workspace
    Capacity,       \* sessions kept (1024)
    MaxEpoch        \* resets of the authority

ASSUME BoundsAssumption == Capacity \in Nat \ {0} /\ MaxEpoch \in Nat

ASSUME NamesAssumption ==
    /\ NoToken \notin Tokens
    /\ Nobody \notin Controllers
    /\ Absent \notin Inputs

VARIABLES
    epoch, holders,     \* Bootstrap: the epoch, and who holds the Host in it
    store,              \* the session store, earliest expiry first
    session,            \* what a token stands for, while anyone refers to it
    task,               \* the requests
    workspace,          \* Data: the input the Workspace was made from
    standing,           \* Hub: whether it admits devices in a phone's name
    ready               \* history: the inputs that were answered as set up

authority == <<epoch, holders>>
local == <<store, session, task>>
vars == <<authority, local, workspace, standing, ready>>

Grants == INSTANCE ControllerGrants

\* LocalControllerSession; owner is the memo of owner_scope
Sessions == [controller : Controllers, epoch : 0..MaxEpoch,
             owner : {"unresolved", "absent", "owner"}]

ASSUME NoSessionAssumption == NoSession \notin Sessions

\* "voucher" stands for every Owner-scoped request up to its record call
Kinds == {"login", "status", "setup", "voucher", "revoke"}

Waits == {"idle", "prove", "issue", "validate", "ask", "init", "record", "sign",
          "withdraw", "revoke"}

Tasks == [at : Waits, kind : Kinds, by : Controllers \cup {Nobody}, epoch : 0..MaxEpoch,
          token : Tokens \cup {NoToken}, target : Controllers \cup {Nobody},
          input : Inputs \cup {Absent}]

Idle == [at |-> "idle", kind |-> "login", by |-> Nobody, epoch |-> 0, token |-> NoToken,
         target |-> Nobody, input |-> Absent]

Init ==
    /\ Grants!GrantsInit
    /\ store = <<>>
    /\ session = [t \in Tokens |-> NoSession]
    /\ task = [r \in Requests |-> Idle]
    /\ workspace = Absent
    /\ standing = [c \in Controllers |-> "none"]
    /\ ready = {}

-----------------------------------------------------------------------------
(* Sessions.                                                               *)

\* The next state of the process; a session nobody refers to is gone.
Locally(st, ss, tk) ==
    /\ store' = st
    /\ task' = tk
    /\ session' = [t \in Tokens |->
                     IF t \in Range(st) \/ \E r \in Requests : tk[r].token = t
                     THEN ss[t] ELSE NoSession]

Goes(r, fields) == [task EXCEPT ![r] = fields]
Waiting(r, at) == Goes(r, [task[r] EXCEPT !.at = at])
Ended(r) == Goes(r, Idle)

Answer(r) == Locally(store, session, Ended(r))

\* issue makes room: the session that would expire first goes.  An expired one
\* is not told apart from one that is gone: issue and get drop it first.
Kept(st) == IF Len(st) >= Capacity THEN Tail(st) ELSE st

\* revoke: the session is popped if it is still there; a token is there once
Revoked(st, t) ==
    IF t \in Range(st) THEN RemoveAt(st, CHOOSE i \in DOMAIN st : st[i] = t) ELSE st

\* POST auth/challenges: Bootstrap remembers phone and epoch for a minute
ControllerChallenge(r, c) ==
    /\ task[r] = Idle
    /\ c \in holders
    /\ Locally(store, session,
               Goes(r, [Idle EXCEPT !.at = "prove", !.kind = "login", !.by = c]))
    /\ UNCHANGED <<authority, workspace, standing, ready>>

\* POST auth/sessions at Bootstrap: the challenge is spent, the Grant is read
\* again, and the principal names the Grant's epoch, not the challenge's
AuthenticateController(r) ==
    /\ task[r].at = "prove"
    /\ \/ /\ task[r].by \in holders
          /\ Locally(store, session,
                     Goes(r, [task[r] EXCEPT !.at = "issue", !.epoch = epoch]))
       \/ Answer(r)
    /\ UNCHANGED <<authority, workspace, standing, ready>>

\* the rest of controller_session: sessions.issue
Issue(r) ==
    /\ task[r].at = "issue"
    /\ \E t \in Tokens :
         /\ t \notin Range(Kept(store))
         /\ \A q \in Requests : task[q].token # t
         /\ Locally(Append(Kept(store), t),
                    [session EXCEPT ![t] = [controller |-> task[r].by,
                                            epoch |-> task[r].epoch,
                                            owner |-> "unresolved"]],
                    Ended(r))
    /\ UNCHANGED <<authority, workspace, standing, ready>>

\* The clock reaches the expiry of the oldest session.
Expire ==
    /\ store # <<>>
    /\ Locally(Tail(store), session, task)
    /\ UNCHANGED <<authority, workspace, standing, ready>>

\* authenticated_controller up to its await: sessions.get
Begin(r, t, kind, target, input) ==
    /\ task[r] = Idle
    /\ t \in Range(store)
    /\ Locally(store, session,
               Goes(r, [Idle EXCEPT !.at = "validate", !.kind = kind, !.token = t,
                                    !.by = session[t].controller,
                                    !.epoch = session[t].epoch,
                                    !.target = target, !.input = input]))
    /\ UNCHANGED <<authority, workspace, standing, ready>>

\* The requests a phone may make; a token presented is one of the store,
\* any other is refused without a trace.
GetWorkspace(r, t) == Begin(r, t, "status", Nobody, Absent)
SetUp(r, t) == \E i \in Inputs : Begin(r, t, "setup", Nobody, i)
IssueCommissioningVoucher(r, t) == Begin(r, t, "voucher", Nobody, Absent)
DeleteController(r, t) == \E c \in Controllers : Begin(r, t, "revoke", c, Absent)

Ask(r) ==
    \E t \in Tokens : \/ GetWorkspace(r, t) \/ SetUp(r, t)
                      \/ IssueCommissioningVoucher(r, t) \/ DeleteController(r, t)

-----------------------------------------------------------------------------
(* Validation and the Owner scope.                                         *)

\* validate_controller: the Grant is active, and of the session's epoch
Authorized(r) == task[r].by \in holders /\ task[r].epoch = epoch

\* owner_scope finds its memo, or Data has to be asked; setup and the removal
\* of a phone always ask
Memo(r) == IF task[r].kind = "voucher" THEN session[task[r].token].owner ELSE "unresolved"

AfterMemo(r) ==
    IF Memo(r) = "unresolved" THEN Waiting(r, "ask")
    ELSE IF Memo(r) = "owner" THEN Waiting(r, "record")
    ELSE Ended(r)

\* (faulty variant: any failure ends the session)
ValidateOrRevoke(r) ==
    /\ task[r].at = "validate"
    /\ \/ Authorized(r) /\ Locally(store, session, AfterMemo(r))
       \/ Locally(Revoked(store, task[r].token), session, Ended(r))
    /\ UNCHANGED <<authority, workspace, standing, ready>>

\* the answer of controller.validate: a refusal ends the session, an outage
\* does not
ValidateController(r) ==
    /\ task[r].at = "validate"
    /\ \/ Authorized(r) /\ Locally(store, session, AfterMemo(r))
       \/ ~Authorized(r) /\ Locally(Revoked(store, task[r].token), session, Ended(r))
       \/ Answer(r)
    /\ UNCHANGED <<authority, workspace, standing, ready>>

\* remember_owner on the request's session
Remembered(r) ==
    [session EXCEPT ![task[r].token].owner = IF workspace = Absent THEN "absent" ELSE "owner"]

\* owner_scope, and the guard "Host Workspace is not initialized"
ScopeResolved(r) ==
    /\ task[r].kind \in {"status", "voucher"}
    /\ Locally(store, Remembered(r),
               IF task[r].kind = "voucher" /\ workspace # Absent
               THEN Waiting(r, "record") ELSE Ended(r))
    /\ UNCHANGED ready

\* the phone is told that its Host is set up
Ready(r) ==
    /\ Locally(store, [session EXCEPT ![task[r].token].owner = "owner"], Ended(r))
    /\ ready' = ready \cup {task[r].input}

\* (faulty variant: whatever exists answers the setup)
SetupResolvedByAnyInput(r) ==
    /\ task[r].kind = "setup"
    /\ IF workspace = Absent
       THEN Locally(store, session, Waiting(r, "init")) /\ UNCHANGED ready
       ELSE Ready(r)

\* resolve_workspace_setup: nothing there is initialized, the same input is
\* resumed, another one is a conflict
SetupResolved(r) ==
    /\ task[r].kind = "setup"
    /\ \/ workspace = Absent /\ Locally(store, session, Waiting(r, "init")) /\ UNCHANGED ready
       \/ workspace = task[r].input /\ Ready(r)
       \/ workspace \notin {Absent, task[r].input} /\ Answer(r) /\ UNCHANGED ready

\* withdraw_standing_of: without a Workspace there is nothing to withdraw
RemovalResolved(r) ==
    /\ task[r].kind = "revoke"
    /\ Locally(store, session, Waiting(r, IF workspace = Absent THEN "revoke" ELSE "withdraw"))
    /\ UNCHANGED ready

\* existing_workspace: Data says what it has; a failure to ask is an answer to
\* the phone and is not remembered
ReadWorkspace(r) ==
    /\ task[r].at = "ask"
    /\ \/ ScopeResolved(r)
       \/ SetupResolved(r)
       \/ RemovalResolved(r)
       \/ Answer(r) /\ UNCHANGED ready
    /\ UNCHANGED <<authority, workspace, standing>>

-----------------------------------------------------------------------------
(* Calls that change another authority.  The call may fail before it       *)
(* arrives, or its answer may be lost; a call of a request that is gone    *)
(* (NoToken) still arrives.                                                *)

Alive(r) == task[r].token # NoToken

\* Data makes the Workspace, finds the one this operation made, or refuses
InitializeWorkspace(r) ==
    /\ task[r].at = "init"
    /\ workspace \in {Absent, task[r].input}
    /\ workspace' = task[r].input
    /\ UNCHANGED <<authority, standing>>
    /\ (Answer(r) /\ UNCHANGED ready) \/ (Alive(r) /\ Ready(r))

\* a removal of c has heard the Hub, or has nothing to withdraw
PastWithdrawal(c) == \E q \in Requests : task[q].at = "revoke" /\ task[q].target = c

\* the Hub records that c admits a device, "renewed" while c is being removed, or
\* refuses to
HubAnswers(c) ==
    {standing, [standing EXCEPT ![c] = IF PastWithdrawal(c) THEN "renewed" ELSE "recorded"]}

\* record_commissioning_standing, before anything is signed.  The status of the
\* answer is not looked at: a refusal that is an object names no device base and
\* is signed for a base made up here.
RecordStanding(r) ==
    /\ task[r].at = "record"
    /\ standing' \in HubAnswers(task[r].by)
    /\ Answer(r) \/ (Alive(r) /\ Locally(store, session, Waiting(r, "sign")))
    /\ UNCHANGED <<authority, workspace, ready>>

\* vouchers.issue, and the answer to the phone
SignVoucher(r) ==
    /\ task[r].at = "sign"
    /\ Answer(r)
    /\ UNCHANGED <<authority, workspace, standing, ready>>

\* (faulty variant: a Hub that cannot be told does not stop the removal)
WithdrawIfPossible(r) ==
    /\ task[r].at = "withdraw"
    /\ standing' \in {standing, [standing EXCEPT ![task[r].target] = "withdrawn"]}
    /\ Answer(r) \/ (Alive(r) /\ Locally(store, session, Waiting(r, "revoke")))
    /\ UNCHANGED <<authority, workspace, ready>>

\* the Hub stops acting on what the phone vouched for
WithdrawController(r) ==
    /\ task[r].at = "withdraw"
    /\ standing' = [standing EXCEPT ![task[r].target] = "withdrawn"]
    /\ Answer(r) \/ (Alive(r) /\ Locally(store, session, Waiting(r, "revoke")))
    /\ UNCHANGED <<authority, workspace, ready>>

\* controller.revoke: Bootstrap judges both phones by their current Grants
RevokeController(r) ==
    /\ task[r].at = "revoke"
    /\ task[r].by \in holders
    /\ Grants!Revoke(task[r].target)
    /\ Answer(r)
    /\ UNCHANGED <<workspace, standing, ready>>

\* A call fails or is refused: the phone gets an error.
CallFails(r) ==
    /\ task[r].at \in {"init", "record", "withdraw", "revoke"}
    /\ Answer(r)
    /\ UNCHANGED <<authority, workspace, standing, ready>>

-----------------------------------------------------------------------------
(* Everyone else.                                                          *)

ClaimHost == /\ \E c \in Controllers : Grants!Grant(c)
             /\ UNCHANGED <<local, workspace, standing, ready>>

ResetHost == /\ Grants!Reset
             /\ UNCHANGED <<local, workspace, standing, ready>>

\* The process restarts: sessions and requests are gone, calls under way arrive.
Restart ==
    /\ store # <<>> \/ \E r \in Requests : Alive(r)
    /\ Locally(<<>>, session,
               [r \in Requests |-> IF task[r].at \in {"init", "record", "withdraw", "revoke"}
                                   THEN [task[r] EXCEPT !.token = NoToken] ELSE Idle])
    /\ UNCHANGED <<authority, workspace, standing, ready>>

Step(r) ==
    \/ AuthenticateController(r)
    \/ Issue(r)
    \/ ValidateController(r)
    \/ ReadWorkspace(r)
    \/ InitializeWorkspace(r)
    \/ RecordStanding(r)
    \/ SignVoucher(r)
    \/ WithdrawController(r)
    \/ RevokeController(r)
    \/ CallFails(r)

Next ==
    \/ \E r \in Requests : Step(r) \/ Ask(r) \/ \E c \in Controllers : ControllerChallenge(r, c)
    \/ Expire
    \/ ClaimHost \/ ResetHost
    \/ Restart

Spec == Init /\ [][Next]_vars

-----------------------------------------------------------------------------

\* The store is within its capacity, and sessions, requests, Workspace and
\* standings keep their shape.
TypeOK ==
    /\ epoch \in 0..MaxEpoch /\ holders \subseteq Controllers
    /\ store \in Seq(Tokens) /\ Len(store) <= Capacity
    /\ session \in [Tokens -> Sessions \cup {NoSession}]
    /\ task \in [Requests -> Tasks]
    /\ workspace \in Inputs \cup {Absent}
    /\ standing \in [Controllers -> {"none", "recorded", "renewed", "withdrawn"}]
    /\ ready \subseteq Inputs

\* Two phones that set a Host up at once with different input are not both
\* told that it is ready: an input answered as ready is the Workspace's
\* (resolve_workspace_setup).
SetupIsExclusive == ready \subseteq {workspace}

\* The Grant of a phone is revoked only once the Hub no longer admits devices in
\* its name, whatever vouchers it was given, requests ran beside the removal and
\* processes died (withdraw_standing_of).  What the phone records while its removal
\* is between the Hub and Bootstrap is not covered: its session still stands.
RemovalEndsStanding ==
    \A r \in Requests : task[r].at = "revoke" => standing[task[r].target] # "recorded"

\* A session is lost only because it is the oldest one (it expired, or the store
\* is full), because Bootstrap refuses it, or with the process; never because
\* Bootstrap could not be asked (authenticated_controller).
SessionsLeaveForAReason ==
    [][\A t \in Range(store) \ Range(store') :
         \/ t = Head(store) /\ task' = task
         \/ /\ t = Head(store) /\ Len(store) >= Capacity
            /\ \E r \in Requests : task[r].at = "issue" /\ task'[r] = Idle
         \/ session[t].controller \notin holders \/ session[t].epoch # epoch
         \/ \A r \in Requests : task'[r].token = NoToken]_vars
=============================================================================
