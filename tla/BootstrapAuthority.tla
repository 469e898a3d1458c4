------------------------- MODULE BootstrapAuthority -------------------------
(***************************************************************************)
(* Who may manage a Host: the claim windows (commissioning sessions), the  *)
(* Controller grants and the reset epoch of bootstrapd, with the BLE links *)
(* and LAN requests that claim, the operator's control socket, restarts of *)
(* the daemon and the wall clock every row is stamped with.                *)
(*                                                                         *)
(* The daemon is one asyncio thread and none of these handlers awaits      *)
(* between its first read and its last write, so one handler is one        *)
(* action.  A Setup code is either the one a window was minted for or      *)
(* another one; a Controller is its key (controller_id, public key and     *)
(* fingerprint are derived from each other).  Network operations, which do *)
(* await, are in NetworkChange.                                            *)
(***************************************************************************)
EXTENDS Integers, FiniteSets

CONSTANTS
    Controllers,      \* phones that may claim the Host
    SessionIds,       \* session_id values, ordered as SQLite orders them
    Links,            \* BLE links, each with its CommissioningProtocolSession
    Nobody,           \* "no Controller"
    MaxEpoch,         \* bound: authority resets
    PerSecond,        \* instants in a second of the wall clock (microseconds)
    MaxClock,         \* bound: instants of the wall clock
    MaxAttempts,      \* bound: wrong codes counted on a window
    RecoveryTtl,      \* lifetime of a recovery window, in seconds
    Policies,         \* whether claim_window may be ALWAYS_OPEN, at each start
    FactoryCode,      \* factory_setup_code exists and is usable
    DevelopmentMode,  \* BootstrapMode.DEVELOPMENT
    ClockSteps        \* the wall clock may be set back

ASSUME SessionIdsAssumption == SessionIds \subseteq Nat
ASSUME NobodyAssumption == Nobody \notin Controllers
ASSUME BoundsAssumption ==
    /\ MaxEpoch \in Nat
    /\ PerSecond \in Nat \ {0}
    /\ MaxClock \in Nat
    /\ MaxAttempts \in Nat
    /\ RecoveryTtl \in Nat
ASSUME SettingsAssumption ==
    /\ Policies \subseteq BOOLEAN
    /\ FactoryCode \in BOOLEAN
    /\ DevelopmentMode \in BOOLEAN
    /\ ClockSteps \in BOOLEAN

VARIABLES
    resetEpoch,   \* bootstrap_state.reset_epoch
    claimState,   \* bootstrap_state.claim_state
    session,      \* rows of commissioning_sessions
    grant,        \* rows of controller_grants, by (controller, epoch)
    link,         \* per BLE link: what its protocol session holds in memory
    running,      \* bootstrapd is up
    alwaysOpen,   \* ... with ClaimWindowPolicy.ALWAYS_OPEN
    missed,       \* history: the last attempt to open the standing window failed
    now           \* the wall clock

durable == <<resetEpoch, claimState, session, grant>>
process == <<running, alwaysOpen, missed>>
vars == <<durable, link, process, now>>

Never == -1       \* expires_at IS NULL, consumed_at IS NULL
NoSession == -1
Epochs == 0..MaxEpoch

(* A row that is neither consumed nor revoked is "live": whether it is also *)
(* open depends on the clock.  "epoch" (the epoch it was minted in),        *)
(* "lapsed" (the grant it was consumed for has been revoked since) and      *)
(* "misfiled" (its created_at reads no later than a stamp written before    *)
(* it) are history, read by properties only.                                *)
SessionRow == [state : {"absent", "live", "consumed", "revoked"},
               createdAt : Nat, expiresAt : Nat \cup {Never},
               consumedAt : Nat \cup {Never},
               claimedBy : Controllers \cup {Nobody},
               failedAttempts : 0..MaxAttempts,
               epoch : Epochs, lapsed : BOOLEAN, misfiled : BOOLEAN]

AbsentRow == [state |-> "absent", createdAt |-> 0, expiresAt |-> Never,
              consumedAt |-> Never, claimedBy |-> Nobody,
              failedAttempts |-> 0, epoch |-> 0, lapsed |-> FALSE,
              misfiled |-> FALSE]

GrantRow == [state : {"none", "active", "revoked"}, createdAt : Nat, misfiled : BOOLEAN]
NoGrant == [state |-> "none", createdAt |-> 0, misfiled |-> FALSE]

(* CommissioningAuthorization (session), ControllerAuthorization            *)
(* (controller) or neither, and the outstanding controller.challenge.       *)
LinkState == [session : SessionIds \cup {NoSession},
              controller : Controllers \cup {Nobody},
              challenge : Controllers \cup {Nobody}]
NewLink == [session |-> NoSession, controller |-> Nobody, challenge |-> Nobody]

(* isoformat() leaves out the fraction of a full second, and "Z" sorts      *)
(* after ".": as text, in which columns are compared, the first instant of  *)
(* a second comes after the others.  Text(t) numbers the texts in their     *)
(* order.                                                                   *)
Text(t) == IF t % PerSecond = 0 THEN t + PerSecond ELSE t
Timestamp == Text(now)

ActiveGrants(e) == {c \in Controllers : grant[c][e].state = "active"}
ActiveControllers == ActiveGrants(resetEpoch)

IsOpenIn(ss, s, t) ==
    /\ ss[s].state = "live"
    /\ ss[s].expiresAt = Never \/ ss[s].expiresAt > t

Minted(ss) == {s \in SessionIds : ss[s].state # "absent"}

\* (faulty variant: the oldest row first)
EarlierFirst(ss, s, t) ==
    \/ ss[s].createdAt < ss[t].createdAt
    \/ ss[s].createdAt = ss[t].createdAt /\ s > t

\* ORDER BY created_at DESC, session_id DESC LIMIT 1
Later(ss, s, t) ==
    \/ ss[s].createdAt > ss[t].createdAt
    \/ ss[s].createdAt = ss[t].createdAt /\ s > t

IsLatestIn(ss, s) == s \in Minted(ss) /\ \A t \in Minted(ss) \ {s} : Later(ss, s, t)

\* the latest row, if it is open at t
ActiveSetupSessionIn(ss, t) ==
    LET latest == {s \in SessionIds : IsLatestIn(ss, s) /\ IsOpenIn(ss, s, t)}
    IN  IF latest = {} THEN NoSession ELSE CHOOSE s \in latest : TRUE

\* the setup_session of the signed endpoint
ActiveSetupSession == ActiveSetupSessionIn(session, Timestamp)

-----------------------------------------------------------------------------
(* What the store does to the session rows.                                 *)

Withdraw(ss) ==
    [s \in SessionIds |-> IF ss[s].state = "live"
                          THEN [ss[s] EXCEPT !.state = "revoked"] ELSE ss[s]]

Insert(ss, s, expiry, e) ==
    [ss EXCEPT ![s] =
        [state |-> "live", createdAt |-> Timestamp, expiresAt |-> expiry,
         consumedAt |-> Never, claimedBy |-> Nobody,
         failedAttempts |-> 0, epoch |-> e, lapsed |-> FALSE,
         misfiled |-> \E t \in Minted(ss) : ss[t].createdAt >= Timestamp]]

\* issue_commissioning_session: minting supersedes
MintIn(ss, s) == Insert(Withdraw(ss), s, Never, resetEpoch)

Consume(ss, s, c) ==
    [ss EXCEPT ![s].state = "consumed", ![s].consumedAt = Timestamp,
               ![s].claimedBy = c]

\* history: every window consumed for a Controller of cs has lapsed
Lapse(ss, cs) ==
    [s \in SessionIds |-> IF ss[s].claimedBy \in cs
                          THEN [ss[s] EXCEPT !.lapsed = TRUE] ELSE ss[s]]

(* session_id is a uuid4, so ids come in any order.  Their order only breaks *)
(* a tie of created_at, and without a clock set back there are no ties: then *)
(* ids are drawn in increasing order, which loses no behaviour.              *)
FreshIdIn(ss, s) ==
    /\ ss[s].state = "absent"
    /\ ClockSteps \/ \A t \in SessionIds : t < s => ss[t].state # "absent"

FreshId(s) == FreshIdIn(session, s)

(* Every handler that stamps a row reads datetime.now() once; the next one  *)
(* reads a later instant, since a committed transaction lies between.       *)
Stamp == now < MaxClock /\ now' = now + 1

-----------------------------------------------------------------------------
(* The daemon.                                                              *)

Init ==
    /\ resetEpoch = 0
    /\ claimState = "unclaimed"
    /\ session = [s \in SessionIds |-> AbsentRow]
    /\ grant = [c \in Controllers |-> [e \in Epochs |-> NoGrant]]
    /\ link = [l \in Links |-> NewLink]
    /\ running = FALSE /\ alwaysOpen = FALSE /\ missed = FALSE
    /\ now = 0

\* with the policy this start reads
FactoryWindowDue ==
    /\ FactoryCode
    /\ alwaysOpen' \/ claimState = "unclaimed"
    /\ ActiveSetupSession = NoSession

\* the window the code on the chassis is for: minted, or the file could not be
\* read or the row not be written, which is logged
OpenStandingIn(ss) ==
    \/ /\ \E s \in SessionIds : FreshIdIn(ss, s) /\ session' = MintIn(ss, s)
       /\ missed' = FALSE
    \/ session' = ss /\ missed' = TRUE

\* initialize() with _open_factory_window
Start ==
    /\ ~running
    /\ running' = TRUE
    /\ alwaysOpen' \in Policies
    /\ UNCHANGED <<resetEpoch, claimState, grant, link>>
    /\ IF FactoryWindowDue
       THEN Stamp /\ OpenStandingIn(session)
       ELSE UNCHANGED <<session, now>> /\ missed' = FALSE

\* shutdown, or a crash between two handlers: memory is lost, rows are not
Stop ==
    /\ running
    /\ running' = FALSE
    /\ link' = [l \in Links |-> NewLink]
    /\ UNCHANGED <<durable, alwaysOpen, now, missed>>

Tick ==
    /\ Stamp
    /\ UNCHANGED <<durable, link, process>>

\* datetime.now(UTC) follows the system clock, which may be set back
SetClockBack ==
    /\ ClockSteps
    /\ \E t \in 0..MaxClock : t < now /\ now' = t
    /\ UNCHANGED <<durable, link, process>>

-----------------------------------------------------------------------------
(* The operator, over the control socket.                                   *)

IssueSetupCode(s) ==
    /\ running /\ FreshId(s)
    /\ Stamp
    /\ UNCHANGED <<resetEpoch, claimState, grant, link, running, alwaysOpen>>
    /\ session' = MintIn(session, s) /\ missed' = FALSE

\* the common part of reset_authority
ResetAuthority ==
    /\ running /\ resetEpoch < MaxEpoch
    /\ Stamp
    /\ resetEpoch' = resetEpoch + 1
    /\ claimState' = "unclaimed"
    /\ grant' = [c \in Controllers |-> [e \in Epochs |->
                   IF grant[c][e].state = "active"
                   THEN [grant[c][e] EXCEPT !.state = "revoked"]
                   ELSE grant[c][e]]]
    /\ UNCHANGED <<link, process>>

\* (faulty variant: the windows of the old epoch stay open)
ResetKeepsWindows(s) ==
    /\ FreshId(s)
    /\ ResetAuthority
    /\ session' = Insert(Lapse(session, Controllers), s,
                         Text(now + RecoveryTtl * PerSecond), resetEpoch + 1)

\* open_controller_recovery_window: revoking and opening are one transaction
ControllerReset(s) ==
    /\ FreshId(s)
    /\ ResetAuthority
    /\ session' = Insert(Lapse(Withdraw(session), Controllers), s,
                         Text(now + RecoveryTtl * PerSecond), resetEpoch + 1)

\* reset_development_state: recovery_session = None
DevelopmentReset ==
    /\ DevelopmentMode
    /\ ResetAuthority
    /\ session' = Lapse(Withdraw(session), Controllers)

-----------------------------------------------------------------------------
(* Phones.                                                                  *)

\* the wrong code, over BLE or LAN: counted, and nothing acts on it
WrongCode(s) ==
    /\ running
    /\ IsOpenIn(session, s, Timestamp)
    /\ session[s].failedAttempts < MaxAttempts
    /\ session' = [session EXCEPT ![s].failedAttempts = @ + 1]
    /\ UNCHANGED <<resetEpoch, claimState, grant, link, process, now>>

\* (faulty variant: nothing puts the window back)
NoReopenIn(ss) == session' = ss /\ UNCHANGED missed

\* reopen_standing_claim_window, called after every committed claim
ReopenIn(ss) ==
    IF alwaysOpen /\ FactoryCode /\ ActiveSetupSessionIn(ss, Timestamp) = NoSession
    THEN OpenStandingIn(ss)
    ELSE session' = ss /\ UNCHANGED missed

\* the daemon dies after one transaction of a handler and before the next
CrashAfter(ss) ==
    /\ session' = ss
    /\ running' = FALSE
    /\ link' = [l \in Links |-> NewLink]
    /\ UNCHANGED <<alwaysOpen, missed>>

\* the Grant that a phone's key gets
NewGrant(c) ==
    [state |-> "active", createdAt |-> Timestamp,
     misfiled |-> \E s \in SessionIds : session[s].claimedBy = c
                                        /\ session[s].consumedAt >= Timestamp]

\* claim_controller of the store on an open window, then on_claimed
Claim(s, c) ==
    /\ IsOpenIn(session, s, Timestamp)
    /\ Stamp
    /\ UNCHANGED resetEpoch
    /\ IF c \in ActiveControllers
       THEN UNCHANGED <<grant, claimState>>
       ELSE /\ grant' = [grant EXCEPT ![c][resetEpoch] = NewGrant(c)]
            /\ claimState' = "claimed"
    /\ \/ /\ ReopenIn(Consume(session, s, c))
          /\ UNCHANGED <<link, running, alwaysOpen>>
       \/ CrashAfter(Consume(session, s, c))

\* (faulty variant: any active grant of the phone answers the replay)
ReplayAnyGrant(s, c) ==
    /\ session[s].state = "consumed"
    /\ session[s].claimedBy = c
    /\ c \in ActiveControllers

\* a consumed window answers the phone that consumed it once more
ReplayAllowed(s, c) ==
    /\ session[s].state = "consumed"
    /\ session[s].claimedBy = c
    /\ c \in ActiveControllers
    /\ grant[c][resetEpoch].createdAt <= session[s].consumedAt

\* (faulty variant: the replay re-activates what it finds)
ReplayReactivates(s, c) ==
    /\ session[s].state = "consumed"
    /\ session[s].claimedBy = c
    /\ Stamp
    /\ grant' = [grant EXCEPT ![c][resetEpoch].state = "active"]
    /\ UNCHANGED <<resetEpoch, claimState, session, link, process>>

Replay(s, c) ==
    /\ ReplayAllowed(s, c)
    /\ Stamp
    /\ UNCHANGED <<resetEpoch, claimState, grant, link, running, alwaysOpen>>
    /\ ReopenIn(session)

\* PUT commissioning/claim: authorize, then claim, in one request
ClaimLanController(s, c) ==
    /\ running
    /\ Claim(s, c)

\* session.authenticate with the right code
SessionAuthenticate(l, s) ==
    /\ running
    /\ link[l].session = NoSession /\ link[l].controller = Nobody
    /\ IsOpenIn(session, s, Timestamp)
    /\ link' = [link EXCEPT ![l].session = s]
    /\ UNCHANGED <<durable, process, now>>

\* claim.complete: the authorization of the link may be older than a reset,
\* a supersede or the consumption of its window
ClaimComplete(l, c) ==
    /\ running
    /\ link[l].session # NoSession
    /\ Claim(link[l].session, c) \/ Replay(link[l].session, c)

ControllerChallenge(l, c) ==
    /\ running
    /\ c \in ActiveControllers
    /\ link' = [link EXCEPT ![l].challenge = c]
    /\ UNCHANGED <<durable, process, now>>

\* controller.authenticate: the challenge is spent whatever the outcome
ControllerAuthenticate(l) ==
    /\ running
    /\ link[l].challenge # Nobody
    /\ \/ /\ link[l].challenge \in ActiveControllers
          /\ link' = [link EXCEPT ![l] = [session |-> NoSession,
                                          controller |-> link[l].challenge,
                                          challenge |-> Nobody]]
       \/ link' = [link EXCEPT ![l].challenge = Nobody]
    /\ UNCHANGED <<durable, process, now>>

Disconnect(l) ==
    /\ running
    /\ link[l] # NewLink
    /\ link' = [link EXCEPT ![l] = NewLink]
    /\ UNCHANGED <<durable, process, now>>

\* (faulty variant: the last Controller may go)
RevokeAny(by, target) ==
    /\ running
    /\ by \in ActiveControllers
    /\ target \in ActiveControllers
    /\ Stamp
    /\ grant' = [grant EXCEPT ![target][resetEpoch].state = "revoked"]
    /\ session' = Lapse(session, {target})
    /\ UNCHANGED <<resetEpoch, claimState, link, process>>

\* controllers.revoke, asked by one active Controller about another or itself
RevokeController(by, target) ==
    /\ running
    /\ by \in ActiveControllers
    /\ target \in ActiveControllers
    /\ ActiveControllers # {target}
    /\ Stamp
    /\ grant' = [grant EXCEPT ![target][resetEpoch].state = "revoked"]
    /\ session' = Lapse(session, {target})
    /\ UNCHANGED <<resetEpoch, claimState, link, process>>

-----------------------------------------------------------------------------

Daemon == Start \/ Stop \/ Tick \/ SetClockBack

Operator ==
    \/ \E s \in SessionIds : IssueSetupCode(s) \/ ControllerReset(s)
    \/ DevelopmentReset

Phone ==
    \/ \E s \in SessionIds : WrongCode(s)
    \/ \E s \in SessionIds, c \in Controllers : ClaimLanController(s, c)
    \/ \E l \in Links, s \in SessionIds : SessionAuthenticate(l, s)
    \/ \E l \in Links, c \in Controllers : ClaimComplete(l, c) \/ ControllerChallenge(l, c)
    \/ \E l \in Links : ControllerAuthenticate(l) \/ Disconnect(l)
    \/ \E by, target \in Controllers : RevokeController(by, target)

Next == Daemon \/ Operator \/ Phone

Spec == Init /\ [][Next]_vars

-----------------------------------------------------------------------------
(* Properties.                                                              *)

\* Every row keeps the shape its table gives it.
TypeOK ==
    /\ resetEpoch \in Epochs
    /\ claimState \in {"unclaimed", "claimed"}
    /\ session \in [SessionIds -> SessionRow]
    /\ grant \in [Controllers -> [Epochs -> GrantRow]]
    /\ link \in [Links -> LinkState]
    /\ running \in BOOLEAN /\ alwaysOpen \in BOOLEAN /\ missed \in BOOLEAN
    /\ now \in 0..MaxClock

\* claim_state, which revoke_controller never writes, still says exactly
\* whether some Controller holds the Host in the current epoch.
ClaimedIffHeld == claimState = "claimed" <=> ActiveControllers # {}

\* A Grant of a retired epoch never again holds the Host, and no Grant is
\* written ahead of its epoch.
OnlyCurrentEpochHolds == \A e \in Epochs \ {resetEpoch} : ActiveGrants(e) = {}

\* ADR-0007, minting supersedes: at most one window can accept a code.  A code
\* handed out before a reset opens nothing after it, although a link that
\* presented it keeps its authorization in memory.
OneLiveWindow ==
    \A s, t \in SessionIds :
        session[s].state = "live" => /\ session[t].state = "live" => s = t
                                     /\ session[s].epoch = resetEpoch

\* The endpoint reads the newest row by created_at; the window a phone could
\* still use is that row, so an open window is never hidden, unless its own
\* created_at reads no later than that of a window minted before it: the clock
\* was set back, or the earlier one was stamped at a full second and it in the
\* rest of that second.
OpenWindowIsAdvertised ==
    \A s \in SessionIds :
        IsOpenIn(session, s, Timestamp) /\ ~session[s].misfiled => ActiveSetupSession = s

\* A consumed code restores nothing: it answers its phone again only while
\* the Grant it produced has not been revoked in between, re-claims through
\* a fresh window included, unless the created_at of the new Grant reads no
\* later than a consumed_at written for that phone before it.
ReplayCoversNoRevocation ==
    \A s \in SessionIds, c \in Controllers :
        ReplayAllowed(s, c) /\ ~grant[c][resetEpoch].misfiled => ~session[s].lapsed

\* ALWAYS_OPEN keeps a window open on a claimed Host that runs, through claims,
\* replays, supersedes, resets and restarts and whatever the clock does: it is
\* without one only when the last attempt to put it back failed, until the next
\* start or the next code that is issued.
StandingWindow ==
    alwaysOpen /\ FactoryCode /\ running /\ claimState = "claimed" /\ ~missed
        => \E s \in SessionIds : IsOpenIn(session, s, Timestamp)

\* A Grant comes into force only by consuming, in the same transaction, a
\* window that was open, for that very Controller.
GrantConsumesWindow ==
    [][\A c \in Controllers : c \in ActiveControllers' \ ActiveControllers =>
         \E s \in SessionIds : /\ IsOpenIn(session, s, Timestamp)
                               /\ session'[s].state = "consumed"
                               /\ session'[s].claimedBy = c]_vars

\* Within an epoch the Host never loses its last Controller: only a reset,
\* asked for by name, leaves it with nobody.
LastControllerStays ==
    [][resetEpoch' = resetEpoch /\ ActiveControllers # {} => ActiveControllers' # {}]_vars

\* Who holds the Host changes only as ControllerGrants allows: one phone comes
\* to hold it, a peer that is not the last is removed, or a reset removes them
\* all, whatever windows, links, restarts and the clock do.
Grants == INSTANCE ControllerGrants WITH epoch <- resetEpoch, holders <- ActiveControllers
ImplementsGrants == Grants!GrantsSpec
=============================================================================
