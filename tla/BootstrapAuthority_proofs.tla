---------------------- MODULE BootstrapAuthority_proofs ----------------------
(***************************************************************************)
(* Proofs about BootstrapAuthority, for any number of Controllers, windows *)
(* and links, any setting of the Host and any behaviour of its clock.      *)
(*                                                                         *)
(* The store's operations on the windows keep SessionsOK, those on the     *)
(* grants keep GrantsOK; together with the types of the remaining          *)
(* variables they are the inductive invariant Inv.  What the code reads    *)
(* off timestamps, which it compares as text, holds for rows that are not  *)
(* misfiled: OrderInv, inductive together with Inv, says that these bear   *)
(* the order in which they were written, and that the standing window of a *)
(* claimed Host is there whatever the timestamps say.                      *)
(***************************************************************************)
EXTENDS BootstrapAuthority, TLAPS

\* the windows of a Host whose epoch is e: at most one takes a code, and it
\* was minted in e
SessionsOK(ss, e) ==
    /\ ss \in [SessionIds -> SessionRow]
    /\ \A s, t \in SessionIds : ss[s].state = "live" /\ ss[t].state = "live" => s = t
    /\ \A s \in SessionIds : ss[s].state = "live" => ss[s].epoch = e

\* the grants of a Host whose epoch is e and whose claim_state is cs
GrantsOK(g, e, cs) ==
    /\ g \in [Controllers -> [Epochs -> GrantRow]]
    /\ \A c \in Controllers, f \in Epochs : g[c][f].state = "active" => f = e
    /\ cs = "claimed" <=> \E c \in Controllers : g[c][e].state = "active"

Inv ==
    /\ resetEpoch \in Epochs
    /\ claimState \in {"unclaimed", "claimed"}
    /\ SessionsOK(session, resetEpoch)
    /\ GrantsOK(grant, resetEpoch, claimState)
    /\ link \in [Links -> LinkState]
    /\ running \in BOOLEAN /\ alwaysOpen \in BOOLEAN /\ missed \in BOOLEAN
    /\ now \in 0..MaxClock

-----------------------------------------------------------------------------
(* What the operations on the session rows keep.                            *)

\* A timestamp has a place in the order of the texts.
LEMMA TextType == ASSUME NEW t \in Nat PROVE Text(t) \in Nat
  BY BoundsAssumption DEF BoundsAssumption, Text

\* So does the text of the current instant.
LEMMA TimestampType == ASSUME now \in 0..MaxClock PROVE Timestamp \in Nat
<1>1. now \in Nat
  BY BoundsAssumption DEF BoundsAssumption
<1> QED
  BY <1>1, TextType DEF Timestamp

\* A withdrawn table has no live row and is well-typed.
LEMMA WithdrawLemma ==
    ASSUME NEW ss \in [SessionIds -> SessionRow]
    PROVE  /\ Withdraw(ss) \in [SessionIds -> SessionRow]
           /\ \A s \in SessionIds : Withdraw(ss)[s].state # "live"
<1>1. ASSUME NEW s \in SessionIds
      PROVE  [ss[s] EXCEPT !.state = "revoked"] \in SessionRow
  BY DEF SessionRow
<1> QED
  BY <1>1 DEF Withdraw, SessionRow

\* Marking windows as lapsed changes nothing the invariant looks at.
LEMMA LapseLemma ==
    ASSUME NEW ss \in [SessionIds -> SessionRow], NEW cs
    PROVE  /\ Lapse(ss, cs) \in [SessionIds -> SessionRow]
           /\ \A s \in SessionIds : /\ Lapse(ss, cs)[s].state = ss[s].state
                                    /\ Lapse(ss, cs)[s].epoch = ss[s].epoch
<1>1. ASSUME NEW s \in SessionIds
      PROVE  /\ [ss[s] EXCEPT !.lapsed = TRUE] \in SessionRow
             /\ [ss[s] EXCEPT !.lapsed = TRUE].state = ss[s].state
             /\ [ss[s] EXCEPT !.lapsed = TRUE].epoch = ss[s].epoch
  BY ZenonT(30) DEF SessionRow
<1> QED
  BY <1>1 DEF Lapse

\* Inserting a row of epoch e into a table without live rows leaves one.
LEMMA InsertLemma ==
    ASSUME NEW ss \in [SessionIds -> SessionRow],
           \A t \in SessionIds : ss[t].state # "live",
           NEW s \in SessionIds, NEW expiry \in Nat \cup {Never},
           NEW e \in Epochs, now \in 0..MaxClock
    PROVE  SessionsOK(Insert(ss, s, expiry, e), e)
<1> DEFINE mf == \E t \in Minted(ss) : ss[t].createdAt >= Timestamp
           row == [state |-> "live", createdAt |-> Timestamp, expiresAt |-> expiry,
                   consumedAt |-> Never, claimedBy |-> Nobody,
                   failedAttempts |-> 0, epoch |-> e, lapsed |-> FALSE,
                   misfiled |-> mf]
<1>1. Timestamp \in Nat /\ 0 \in 0..MaxAttempts /\ mf \in BOOLEAN
  BY BoundsAssumption, TimestampType DEF BoundsAssumption
<1>2. /\ row \in SessionRow
      /\ row.state = "live"
      /\ row.epoch = e
  BY <1>1 DEF SessionRow
<1>3. Insert(ss, s, expiry, e) = [ss EXCEPT ![s] = row]
  BY DEF Insert
<1> HIDE DEF row
<1> QED
  BY <1>2, <1>3 DEF SessionsOK

\* Minting leaves exactly the new window, whatever the table held.
LEMMA MintLemma ==
    ASSUME NEW ss \in [SessionIds -> SessionRow], NEW s \in SessionIds,
           resetEpoch \in Epochs, now \in 0..MaxClock
    PROVE  SessionsOK(MintIn(ss, s), resetEpoch)
<1>1. Never \in Nat \cup {Never}
  OBVIOUS
<1> QED
  BY <1>1, WithdrawLemma, InsertLemma, ZenonT(30) DEF MintIn

\* Consuming a window closes it and opens none.
LEMMA ConsumeLemma ==
    ASSUME NEW e, NEW ss, SessionsOK(ss, e), NEW s \in SessionIds,
           NEW c \in Controllers, now \in 0..MaxClock
    PROVE  /\ SessionsOK(Consume(ss, s, c), e)
           /\ Consume(ss, s, c)[s].state = "consumed"
           /\ Consume(ss, s, c)[s].claimedBy = c
<1> DEFINE row == [ss[s] EXCEPT !.state = "consumed", !.consumedAt = Timestamp,
                                !.claimedBy = c]
<1>1. Timestamp \in Nat /\ ss[s] \in SessionRow
  BY TimestampType DEF SessionsOK
<1>2. /\ row \in SessionRow
      /\ row.state = "consumed"
      /\ row.claimedBy = c
  BY <1>1, ZenonT(30) DEF SessionRow
<1>3. Consume(ss, s, c) = [ss EXCEPT ![s] = row]
  BY <1>1, ZenonT(30) DEF Consume, SessionsOK, SessionRow
<1> HIDE DEF row
<1> QED
  BY <1>2, <1>3 DEF SessionsOK

\* Reopening the standing window leaves the table alone or mints.
LEMMA ReopenLemma ==
    ASSUME NEW ss, SessionsOK(ss, resetEpoch), ReopenIn(ss),
           resetEpoch \in Epochs, now \in 0..MaxClock
    PROVE  SessionsOK(session', resetEpoch)
<1>1. \/ session' = ss
      \/ \E s \in SessionIds : session' = MintIn(ss, s)
  BY DEF ReopenIn, OpenStandingIn
<1>2. ss \in [SessionIds -> SessionRow]
  BY DEF SessionsOK
<1> QED
  BY <1>1, <1>2, MintLemma

-----------------------------------------------------------------------------
(* The invariant is inductive.                                              *)

\* A fresh database satisfies the invariant.
LEMMA InitInv == Init => Inv
<1> SUFFICES ASSUME Init PROVE Inv
  OBVIOUS
<1>1. 0 \in Epochs /\ 0 \in 0..MaxClock /\ 0 \in 0..MaxAttempts
  BY BoundsAssumption DEF BoundsAssumption, Epochs
<1>2. AbsentRow \in SessionRow /\ AbsentRow.state = "absent"
  BY <1>1 DEF AbsentRow, SessionRow
<1>3. SessionsOK(session, resetEpoch)
  BY <1>2 DEF Init, SessionsOK
<1>4. GrantsOK(grant, resetEpoch, claimState)
  BY <1>1 DEF Init, GrantsOK, NoGrant, GrantRow
<1>5. link \in [Links -> LinkState]
  BY DEF Init, NewLink, LinkState
<1> QED
  BY <1>1, <1>3, <1>4, <1>5, ZenonT(30) DEF Init, Inv

\* A phone's Grant in the current epoch keeps the grants in order.
LEMMA GrantLemma ==
    ASSUME Inv, NEW c \in Controllers
    PROVE  GrantsOK([grant EXCEPT ![c][resetEpoch] = NewGrant(c)], resetEpoch, "claimed")
<1>1. NewGrant(c) \in GrantRow /\ NewGrant(c).state = "active"
  <2> DEFINE mf == \E s \in SessionIds : session[s].claimedBy = c
                                          /\ session[s].consumedAt >= Timestamp
  <2>1. Timestamp \in Nat /\ mf \in BOOLEAN
    BY TimestampType DEF Inv
  <2>2. NewGrant(c) = [state |-> "active", createdAt |-> Timestamp, misfiled |-> mf]
    BY DEF NewGrant
  <2> HIDE DEF mf
  <2> QED
    BY <2>1, <2>2 DEF GrantRow
<1> QED
  BY <1>1 DEF Inv, GrantsOK

\* Revoking one of several leaves the others, and the Host claimed.
LEMMA RevokeLemma ==
    ASSUME Inv, NEW target \in ActiveControllers, ActiveControllers # {target}
    PROVE  GrantsOK([grant EXCEPT ![target][resetEpoch].state = "revoked"],
                    resetEpoch, claimState)
<1> DEFINE row == [grant[target][resetEpoch] EXCEPT !.state = "revoked"]
           g == [grant EXCEPT ![target] = [grant[target] EXCEPT ![resetEpoch] = row]]
<1>1. /\ target \in Controllers
      /\ grant[target][resetEpoch].state = "active"
  BY DEF ActiveControllers, ActiveGrants
<1>2. row \in GrantRow /\ row.state = "revoked"
  BY <1>1 DEF Inv, GrantsOK, GrantRow
<1>3. [grant EXCEPT ![target][resetEpoch].state = "revoked"] = g
  BY <1>1 DEF Inv, GrantsOK, GrantRow
<1>4. PICK d \in Controllers \ {target} : grant[d][resetEpoch].state = "active"
  BY <1>1 DEF ActiveControllers, ActiveGrants
<1> HIDE DEF row
<1>5. GrantsOK(g, resetEpoch, claimState)
  BY <1>1, <1>2, <1>4 DEF Inv, GrantsOK
<1> QED
  BY <1>3, <1>5

\* A reset leaves no active Grant in any epoch.
LEMMA ResetLemma ==
    ASSUME Inv, ResetAuthority
    PROVE  /\ resetEpoch' \in Epochs /\ resetEpoch' = resetEpoch + 1
           /\ claimState' = "unclaimed"
           /\ GrantsOK(grant', resetEpoch', claimState')
           /\ UNCHANGED <<link, process>>
           /\ now' \in 0..MaxClock
<1>1. /\ resetEpoch' \in Epochs /\ resetEpoch' = resetEpoch + 1
      /\ claimState' = "unclaimed"
      /\ UNCHANGED <<link, process>>
      /\ now' \in 0..MaxClock
  BY BoundsAssumption DEF BoundsAssumption, ResetAuthority, Inv, Epochs, Stamp
<1>2. ASSUME NEW c \in Controllers, NEW e \in Epochs
      PROVE  /\ [grant[c][e] EXCEPT !.state = "revoked"] \in GrantRow
             /\ [grant[c][e] EXCEPT !.state = "revoked"].state = "revoked"
  <2>1. grant[c][e] \in GrantRow
    BY DEF Inv, GrantsOK
  <2> QED
    BY <2>1 DEF GrantRow
<1>3. grant' \in [Controllers -> [Epochs -> GrantRow]]
  BY <1>2 DEF ResetAuthority, Inv, GrantsOK
<1>4. \A c \in Controllers, e \in Epochs : grant'[c][e].state # "active"
  BY <1>2 DEF ResetAuthority
<1> QED
  BY <1>1, <1>3, <1>4 DEF GrantsOK

\* Every claim keeps the invariant: a new window's Grant, a repeated claim by
\* a phone that already holds the Host, and a crash before the window reopens.
LEMMA ClaimLemma ==
    ASSUME Inv, NEW s \in SessionIds, NEW c \in Controllers, Claim(s, c), running
    PROVE  Inv'
<1> DEFINE ss == Consume(session, s, c)
<1>1. now \in 0..MaxClock /\ now' \in 0..MaxClock /\ resetEpoch' = resetEpoch
  BY BoundsAssumption DEF BoundsAssumption, Inv, Claim, Stamp
<1>2. SessionsOK(ss, resetEpoch)
  BY <1>1, ConsumeLemma DEF Inv
<1>3. GrantsOK(grant', resetEpoch, claimState') /\ claimState' \in {"unclaimed", "claimed"}
  <2>1. CASE c \in ActiveControllers
    BY <2>1 DEF Claim, Inv
  <2>2. CASE c \notin ActiveControllers
    BY <2>2, GrantLemma DEF Claim
  <2> QED
    BY <2>1, <2>2
<1>4. NewLink \in LinkState
  BY DEF NewLink, LinkState
<1> HIDE DEF ss
<1>5. CASE ReopenIn(ss) /\ UNCHANGED <<link, running, alwaysOpen>>
  <2>1. missed' \in BOOLEAN
    BY <1>5 DEF ReopenIn, OpenStandingIn, Inv
  <2> QED
    BY <1>1, <1>2, <1>3, <1>5, <2>1, ReopenLemma DEF Inv
<1>6. CASE CrashAfter(ss)
  BY <1>1, <1>2, <1>3, <1>4, <1>6, ZenonT(30) DEF Inv, CrashAfter
<1> QED
  BY <1>5, <1>6 DEF Claim, ss

\* Every step of the daemon, the operator and the phones keeps the invariant.
LEMMA NextInv == Inv /\ [Next]_vars => Inv'
<1> SUFFICES ASSUME Inv, [Next]_vars PROVE Inv'
  OBVIOUS
<1> USE DEF process, durable
<1> USE BoundsAssumption DEF BoundsAssumption
<1>0. session \in [SessionIds -> SessionRow] /\ now \in 0..MaxClock /\ resetEpoch \in Epochs
  BY DEF Inv, SessionsOK
<1>1. CASE Start
  <2>1. SessionsOK(session', resetEpoch) /\ now' \in 0..MaxClock
    BY <1>0, <1>1, MintLemma DEF Start, OpenStandingIn, Stamp, Inv
  <2>2. missed' \in BOOLEAN
    BY <1>1 DEF Start, OpenStandingIn
  <2> QED
    BY <1>1, <2>1, <2>2, SettingsAssumption DEF Start, Inv, SettingsAssumption
<1>2. CASE Stop
  <2>1. NewLink \in LinkState
    BY DEF NewLink, LinkState
  <2> QED
    BY <1>2, <2>1, ZenonT(30) DEF Stop, Inv, durable
<1>3. CASE Tick
  BY <1>3 DEF Tick, Stamp, Inv, durable
<1>4. CASE SetClockBack
  BY <1>4 DEF SetClockBack, Inv, durable
<1>5. ASSUME NEW s \in SessionIds, IssueSetupCode(s) PROVE Inv'
  <2>1. SessionsOK(session', resetEpoch)
    BY <1>0, <1>5, MintLemma DEF IssueSetupCode
  <2>2. missed' \in BOOLEAN
    BY <1>5 DEF IssueSetupCode
  <2> QED
    BY <1>5, <2>1, <2>2 DEF IssueSetupCode, Stamp, Inv
<1>6. ASSUME NEW s \in SessionIds, ControllerReset(s) PROVE Inv'
  <2> DEFINE ss == Lapse(Withdraw(session), Controllers)
             expiry == Text(now + RecoveryTtl * PerSecond)
  <2>1. ResetAuthority /\ session' = Insert(ss, s, expiry, resetEpoch + 1)
    BY <1>6 DEF ControllerReset
  <2>2. ss \in [SessionIds -> SessionRow] /\ \A t \in SessionIds : ss[t].state # "live"
    BY <1>0, WithdrawLemma, LapseLemma
  <2>3. expiry \in Nat
    <3>1. now + RecoveryTtl * PerSecond \in Nat
      BY <1>0
    <3> QED
      BY <3>1, TextType
  <2> HIDE DEF ss, expiry
  <2>4. SessionsOK(session', resetEpoch')
    BY <1>0, <2>1, <2>2, <2>3, ResetLemma, InsertLemma
  <2> QED
    BY <2>1, <2>4, ResetLemma DEF Inv
<1>7. CASE DevelopmentReset
  <2> DEFINE ss == Lapse(Withdraw(session), Controllers)
  <2>1. ResetAuthority /\ session' = ss
    BY <1>7 DEF DevelopmentReset
  <2>2. ss \in [SessionIds -> SessionRow] /\ \A t \in SessionIds : ss[t].state # "live"
    BY <1>0, WithdrawLemma, LapseLemma
  <2> HIDE DEF ss
  <2>3. SessionsOK(session', resetEpoch')
    BY <2>1, <2>2 DEF SessionsOK
  <2> QED
    BY <2>1, <2>3, ResetLemma DEF Inv
<1>8. ASSUME NEW s \in SessionIds, WrongCode(s) PROVE Inv'
  <2> DEFINE row == [session[s] EXCEPT !.failedAttempts = session[s].failedAttempts + 1]
  <2>1. /\ row \in SessionRow
        /\ row.state = session[s].state
        /\ row.epoch = session[s].epoch
    BY <1>0, <1>8 DEF SessionRow, WrongCode
  <2>2. session' = [session EXCEPT ![s] = row]
    BY <1>0, <1>8 DEF WrongCode, SessionRow
  <2> HIDE DEF row
  <2>3. SessionsOK(session', resetEpoch)
    BY <2>1, <2>2 DEF Inv, SessionsOK
  <2> QED
    BY <1>8, <2>3 DEF WrongCode, Inv
<1>9. ASSUME NEW s \in SessionIds, NEW c \in Controllers, ClaimLanController(s, c)
      PROVE  Inv'
  BY <1>9, ClaimLemma DEF ClaimLanController
<1>10. ASSUME NEW l \in Links, NEW s \in SessionIds, SessionAuthenticate(l, s)
       PROVE  Inv'
  BY <1>10 DEF SessionAuthenticate, Inv, LinkState, durable
<1>11. ASSUME NEW l \in Links, NEW c \in Controllers, ClaimComplete(l, c)
       PROVE  Inv'
  <2>1. link[l].session \in SessionIds
    BY <1>11 DEF ClaimComplete, Inv, LinkState
  <2>2. CASE Claim(link[l].session, c)
    BY <1>11, <2>1, <2>2, ClaimLemma DEF ClaimComplete
  <2>3. CASE Replay(link[l].session, c)
    <3>1. SessionsOK(session', resetEpoch)
      BY <1>0, <2>3, ReopenLemma DEF Replay, Inv
    <3>2. missed' \in BOOLEAN
      BY <2>3 DEF Replay, ReopenIn, OpenStandingIn, Inv
    <3> QED
      BY <2>3, <3>1, <3>2 DEF Replay, Stamp, Inv
  <2> QED
    BY <1>11, <2>2, <2>3 DEF ClaimComplete
<1>12. ASSUME NEW l \in Links, NEW c \in Controllers, ControllerChallenge(l, c)
       PROVE  Inv'
  BY <1>12 DEF ControllerChallenge, Inv, LinkState, durable
<1>13. ASSUME NEW l \in Links, ControllerAuthenticate(l) PROVE Inv'
  <2>1. link[l] \in LinkState
    BY DEF Inv
  <2>2. /\ [session |-> NoSession, controller |-> link[l].challenge,
            challenge |-> Nobody] \in LinkState
        /\ [link[l] EXCEPT !.challenge = Nobody] \in LinkState
    BY <2>1 DEF LinkState
  <2>3. link' \in [Links -> LinkState]
    BY <1>13, <2>2 DEF ControllerAuthenticate, Inv
  <2> QED
    BY <1>13, <2>3 DEF ControllerAuthenticate, Inv, durable
<1>14. ASSUME NEW l \in Links, Disconnect(l) PROVE Inv'
  BY <1>14 DEF Disconnect, Inv, NewLink, LinkState, durable
<1>15. ASSUME NEW by \in Controllers, NEW target \in Controllers,
              RevokeController(by, target)
       PROVE  Inv'
  <2>1. SessionsOK(session', resetEpoch)
    <3>1. session' = Lapse(session, {target})
      BY <1>15 DEF RevokeController
    <3> QED
      BY <1>0, <3>1, LapseLemma DEF Inv, SessionsOK
  <2>2. GrantsOK(grant', resetEpoch, claimState)
    BY <1>15, RevokeLemma, ZenonT(30) DEF RevokeController
  <2> QED
    BY <1>15, <2>1, <2>2 DEF RevokeController, Stamp, Inv
<1>16. CASE UNCHANGED vars
  BY <1>16 DEF vars, Inv
<1> QED
  BY <1>1, <1>2, <1>3, <1>4, <1>5, <1>6, <1>7, <1>8, <1>9, <1>10, <1>11, <1>12,
     <1>13, <1>14, <1>15, <1>16 DEF Next, Daemon, Operator, Phone

\* The invariant holds throughout.
LEMMA Invariance == Spec => []Inv
  BY InitInv, NextInv, PTL DEF Spec

-----------------------------------------------------------------------------
(* What follows for the Host.                                               *)

\* Every row of the store keeps its shape, and every link its authorization.
THEOREM TypeCorrect == Spec => []TypeOK
<1>1. Inv => TypeOK
  BY DEF Inv, TypeOK, SessionsOK, GrantsOK
<1> QED
  BY <1>1, Invariance, PTL

\* claim_state says exactly whether somebody holds the Host, although
\* revoke_controller never writes it.
THEOREM ClaimStateIsExact == Spec => []ClaimedIffHeld
<1>1. Inv => ClaimedIffHeld
  BY DEF Inv, GrantsOK, ClaimedIffHeld, ActiveControllers, ActiveGrants
<1> QED
  BY <1>1, Invariance, PTL

\* Grants hold the Host in the current epoch or not at all.
THEOREM EpochsDoNotLeak == Spec => []OnlyCurrentEpochHolds
<1>1. Inv => OnlyCurrentEpochHolds
  BY DEF Inv, GrantsOK, OnlyCurrentEpochHolds, ActiveGrants
<1> QED
  BY <1>1, Invariance, PTL

\* At most one window takes a code, and none from before a reset does.
THEOREM OneCurrentWindow == Spec => []OneLiveWindow
<1>1. Inv => OneLiveWindow
  BY DEF Inv, SessionsOK, OneLiveWindow
<1> QED
  BY <1>1, Invariance, PTL

\* A Grant comes into force only by consuming an open window for its own
\* Controller, in the same step.
THEOREM GrantsComeFromWindows == Spec => GrantConsumesWindow
<1> DEFINE A == \A c \in Controllers : c \in ActiveControllers' \ ActiveControllers =>
                  \E s \in SessionIds : /\ IsOpenIn(session, s, Timestamp)
                                        /\ session'[s].state = "consumed"
                                        /\ session'[s].claimedBy = c
<1>1. ASSUME Inv, NEW s \in SessionIds, NEW c \in Controllers, Claim(s, c) PROVE A
  <2>1. ActiveControllers' \subseteq ActiveControllers \cup {c}
    BY <1>1 DEF Claim, ActiveControllers, ActiveGrants, Inv, GrantsOK
  <2>2. IsOpenIn(session, s, Timestamp)
    BY <1>1 DEF Claim
  <2> DEFINE ss == Consume(session, s, c)
  <2>3. ss \in [SessionIds -> SessionRow] /\ ss[s].state = "consumed" /\ ss[s].claimedBy = c
    BY <1>1, ConsumeLemma DEF Inv, SessionsOK
  <2> HIDE DEF ss
  <2>4. ASSUME NEW t \in SessionIds, FreshIdIn(ss, t)
        PROVE  MintIn(ss, t)[s] = ss[s]
    <3>1. t # s
      BY <2>3, <2>4 DEF FreshIdIn
    <3>2. Withdraw(ss)[s] = ss[s] /\ Withdraw(ss) \in [SessionIds -> SessionRow]
      BY <2>3, WithdrawLemma DEF Withdraw
    <3> QED
      BY <3>1, <3>2 DEF MintIn, Insert
  <2>5. session'[s] = ss[s]
    BY <1>1, <2>4 DEF Claim, ReopenIn, OpenStandingIn, CrashAfter, ss
  <2> QED
    BY <2>1, <2>2, <2>3, <2>5
<1>2. ASSUME Inv, ActiveControllers' \subseteq ActiveControllers PROVE A
  BY <1>2
<1>3. ASSUME Inv, [Next]_vars PROVE A \/ UNCHANGED vars
  <2>1. ASSUME UNCHANGED <<grant, resetEpoch>> PROVE A
    BY <1>2, <1>3, <2>1 DEF ActiveControllers, ActiveGrants
  <2>2. ASSUME ResetAuthority PROVE A
    BY <1>2, <1>3, <2>2, ResetLemma DEF GrantsOK, ActiveControllers, ActiveGrants
  <2>3. ASSUME NEW by \in Controllers, NEW target \in Controllers,
               RevokeController(by, target)
        PROVE  A
    <3>1. /\ resetEpoch' = resetEpoch
          /\ grant' = [grant EXCEPT ![target][resetEpoch].state = "revoked"]
      BY <2>3 DEF RevokeController
    <3>2. ActiveControllers' \subseteq ActiveControllers
      BY <1>3, <3>1 DEF ActiveControllers, ActiveGrants, Inv, GrantsOK, GrantRow
    <3> QED
      BY <1>2, <1>3, <3>2
  <2>4. ASSUME NEW l \in Links, NEW c \in Controllers, ClaimComplete(l, c) PROVE A
    <3>1. link[l].session \in SessionIds
      BY <1>3, <2>4 DEF ClaimComplete, Inv, LinkState
    <3> QED
      BY <1>1, <1>3, <2>1, <2>4, <3>1 DEF ClaimComplete, Replay
  <2>5. ASSUME Daemon PROVE A
    BY <2>1, <2>5 DEF Daemon, Start, Stop, Tick, SetClockBack, durable
  <2>6. ASSUME Operator PROVE A
    BY <2>1, <2>2, <2>6 DEF Operator, IssueSetupCode, ControllerReset, DevelopmentReset
  <2>7. ASSUME Phone PROVE A
    BY <1>1, <1>3, <2>1, <2>3, <2>4, <2>7
       DEF Phone, WrongCode, ClaimLanController, SessionAuthenticate,
           ControllerChallenge, ControllerAuthenticate, Disconnect, durable
  <2> QED
    BY <1>3, <2>5, <2>6, <2>7 DEF Next
<1>4. Inv /\ [Next]_vars => [A]_vars
  BY <1>3
<1> QED
  BY <1>4, Invariance, PTL DEF Spec, GrantConsumesWindow

\* Within an epoch the last Controller is never lost.
THEOREM LastControllerIsKept == Spec => LastControllerStays
<1>1. Inv /\ Inv' /\ [Next]_vars =>
        [resetEpoch' = resetEpoch /\ ActiveControllers # {} => ActiveControllers' # {}]_vars
  <2> SUFFICES ASSUME Inv, Inv', [Next]_vars, resetEpoch' = resetEpoch,
                      ActiveControllers # {}
               PROVE  ActiveControllers' # {}
    OBVIOUS
  <2>1. claimState = "claimed"
    BY DEF Inv, GrantsOK, ActiveControllers, ActiveGrants
  <2>2. ~ResetAuthority
    BY ResetLemma DEF Inv, Epochs
  <2>3. ASSUME NEW s, NEW c, Claim(s, c) PROVE claimState' = "claimed"
    BY <2>1, <2>3 DEF Claim
  <2>4. claimState' = "claimed"
    <3>1. CASE Daemon
      BY <2>1, <3>1 DEF Daemon, Start, Stop, Tick, SetClockBack, durable
    <3>2. CASE Operator
      BY <2>1, <2>2, <3>2 DEF Operator, IssueSetupCode, ControllerReset, DevelopmentReset
    <3>3. CASE Phone
      BY <2>1, <2>3, <3>3, ZenonT(30)
         DEF Phone, WrongCode, ClaimLanController, SessionAuthenticate, ClaimComplete,
             Replay, ControllerChallenge, ControllerAuthenticate, Disconnect,
             RevokeController, durable
    <3>4. CASE UNCHANGED vars
      BY <2>1, <3>4 DEF vars, durable
    <3> QED
      BY <3>1, <3>2, <3>3, <3>4 DEF Next
  <2> QED
    BY <2>4 DEF Inv, GrantsOK, ActiveControllers, ActiveGrants
<1> QED
  BY <1>1, Invariance, PTL DEF Spec, LastControllerStays

\* A step that leaves epoch and grants alone leaves the holders alone.
LEMMA SameGrantsSameHolders ==
    ASSUME UNCHANGED <<resetEpoch, grant>>
    PROVE  UNCHANGED <<resetEpoch, ActiveControllers>>
BY DEF ActiveControllers, ActiveGrants

\* The holders of the Host change only as ControllerGrants allows: the
\* authority implements that specification.
THEOREM AuthorityImplementsGrants == Spec => ImplementsGrants
<1>1. Init => Grants!GrantsInit
  BY BoundsAssumption
     DEF BoundsAssumption, Init, Grants!GrantsInit, ActiveControllers, ActiveGrants,
         NoGrant, Epochs
<1>2. Inv /\ Inv' /\ [Next]_vars => [Grants!GrantsNext]_<<resetEpoch, ActiveControllers>>
  <2> SUFFICES ASSUME Inv, Inv', [Next]_vars,
                      ~UNCHANGED <<resetEpoch, ActiveControllers>>
               PROVE  Grants!GrantsNext
    OBVIOUS
  <2>1. ASSUME NEW s \in SessionIds, NEW c \in Controllers, Claim(s, c)
        PROVE  Grants!GrantsNext
    <3>1. c \notin ActiveControllers
      BY <2>1, SameGrantsSameHolders DEF Claim
    <3>2. grant' = [grant EXCEPT ![c][resetEpoch] = NewGrant(c)]
      BY <2>1, <3>1 DEF Claim
    <3>3. ActiveControllers' = ActiveControllers \cup {c} /\ resetEpoch' = resetEpoch
      <4> DEFINE held == NewGrant(c)
      <4>1. resetEpoch' = resetEpoch
        BY <2>1 DEF Claim
      <4>2. /\ grant \in [Controllers -> [Epochs -> GrantRow]] /\ resetEpoch \in Epochs
            /\ held.state = "active"
        BY DEF Inv, GrantsOK, NewGrant
      <4> HIDE DEF held
      <4>3. grant' = [grant EXCEPT ![c][resetEpoch] = held]
        BY <3>2 DEF held
      <4>4. /\ grant'[c][resetEpoch].state = "active"
            /\ \A x \in Controllers : x # c => grant'[x] = grant[x]
        BY <4>2, <4>3
      <4>5. ActiveControllers' = ActiveControllers \cup {c}
        <5>1. ActiveControllers' = {x \in Controllers : grant'[x][resetEpoch].state = "active"}
          BY <4>1 DEF ActiveControllers, ActiveGrants
        <5>2. ActiveControllers = {x \in Controllers : grant[x][resetEpoch].state = "active"}
          BY DEF ActiveControllers, ActiveGrants
        <5> QED
          BY <4>4, <5>1, <5>2
      <4> QED
        BY <4>1, <4>5
    <3> QED
      BY <3>3 DEF Grants!GrantsNext, Grants!Grant
  <2>2. ASSUME NEW by \in Controllers, NEW target \in Controllers,
               RevokeController(by, target)
        PROVE  Grants!GrantsNext
    <3>1. /\ target \in ActiveControllers /\ ActiveControllers # {target}
          /\ resetEpoch' = resetEpoch
      BY <2>2 DEF RevokeController
    <3>2. grant' = [grant EXCEPT ![target][resetEpoch].state = "revoked"]
      BY <2>2 DEF RevokeController
    <3>3. \A c \in Controllers : grant'[c][resetEpoch].state = "active"
                                   <=> grant[c][resetEpoch].state = "active" /\ c # target
      BY <3>1, <3>2 DEF Inv, GrantsOK, GrantRow
    <3>4. ActiveControllers' = ActiveControllers \ {target}
      BY <3>1, <3>3 DEF ActiveControllers, ActiveGrants
    <3> QED
      BY <3>1, <3>4 DEF Grants!GrantsNext, Grants!Revoke
  <2>3. ASSUME ResetAuthority PROVE Grants!GrantsNext
    <3>1. /\ resetEpoch < MaxEpoch /\ resetEpoch' = resetEpoch + 1
          /\ claimState' = "unclaimed"
      BY <2>3 DEF ResetAuthority
    <3>2. ActiveControllers' = {}
      BY <3>1 DEF Inv, GrantsOK, ActiveControllers, ActiveGrants
    <3> QED
      BY <3>1, <3>2 DEF Grants!GrantsNext, Grants!Reset
  <2>4. CASE Daemon
    BY <2>4, SameGrantsSameHolders DEF Daemon, Start, Stop, Tick, SetClockBack, durable
  <2>5. CASE Operator
    BY <2>3, <2>5, SameGrantsSameHolders
       DEF Operator, IssueSetupCode, ControllerReset, DevelopmentReset
  <2>6. CASE Phone
    <3>1. ASSUME NEW s \in SessionIds, NEW c \in Controllers, Replay(s, c)
          PROVE  FALSE
      BY <3>1, SameGrantsSameHolders DEF Replay
    <3>2. ASSUME NEW l \in Links, NEW c \in Controllers, ClaimComplete(l, c)
          PROVE  Grants!GrantsNext
      <4>1. link[l].session \in SessionIds
        BY <3>2 DEF ClaimComplete, Inv, LinkState
      <4> QED
        BY <2>1, <3>1, <3>2, <4>1 DEF ClaimComplete
    <3>3. ASSUME NEW s \in SessionIds, WrongCode(s) PROVE FALSE
      BY <3>3, SameGrantsSameHolders DEF WrongCode
    <3>4. ASSUME NEW s \in SessionIds, NEW c \in Controllers, ClaimLanController(s, c)
          PROVE  Grants!GrantsNext
      BY <2>1, <3>4 DEF ClaimLanController
    <3>5. ASSUME NEW l \in Links, NEW s \in SessionIds, SessionAuthenticate(l, s)
          PROVE  FALSE
      BY <3>5, SameGrantsSameHolders DEF SessionAuthenticate, durable
    <3>6. ASSUME NEW l \in Links, NEW c \in Controllers, ControllerChallenge(l, c)
          PROVE  FALSE
      BY <3>6, SameGrantsSameHolders DEF ControllerChallenge, durable
    <3>7. ASSUME NEW l \in Links, ControllerAuthenticate(l) \/ Disconnect(l)
          PROVE  FALSE
      BY <3>7, SameGrantsSameHolders DEF ControllerAuthenticate, Disconnect, durable
    <3> QED
      BY <2>2, <2>6, <3>2, <3>3, <3>4, <3>5, <3>6, <3>7 DEF Phone
  <2>7. ~UNCHANGED vars
    BY SameGrantsSameHolders DEF vars, durable
  <2> QED
    BY <2>4, <2>5, <2>6, <2>7 DEF Next
<1> QED
  BY <1>1, <1>2, Invariance, PTL DEF Spec, ImplementsGrants, Grants!GrantsSpec

-----------------------------------------------------------------------------
(* What the timestamps say.  A row that is not misfiled was stamped later   *)
(* than all before it, and so the newest row by created_at is the one that  *)
(* was minted last; a Grant that is not misfiled is newer than everything   *)
(* its phone consumed before.  Which rows exist does not depend on that.    *)

\* a live window is nobody's yet, and newer than all others unless it is misfiled
RowsOK(ss) ==
    /\ \A s, u \in SessionIds :
          ss[s].state = "live" /\ ~ss[s].misfiled /\ ss[u].state # "absent" /\ u # s
            => ss[u].createdAt < ss[s].createdAt
    /\ \A s \in SessionIds : ss[s].state = "live" => ss[s].claimedBy = Nobody /\ ~ss[s].lapsed

\* a window consumed for a Grant that was revoked since is older than the Grant its
\* phone holds now
LapsedOK(ss, g, e) ==
    \A s \in SessionIds, c \in Controllers :
        /\ ss[s].state = "consumed" /\ ss[s].claimedBy = c /\ ss[s].lapsed
        /\ g[c][e].state = "active" /\ ~g[c][e].misfiled
        => ss[s].consumedAt < g[c][e].createdAt

\* the windows of a claimed Host stay open, and one of them stands if it has to
StandsOK(ss, stands) ==
    /\ \A s \in SessionIds : ss[s].state = "live" => ss[s].expiresAt = Never
    /\ stands => \E s \in SessionIds : ss[s].state = "live"

Stands == alwaysOpen /\ FactoryCode /\ running /\ ~missed

OrderInv ==
    /\ RowsOK(session)
    /\ LapsedOK(session, grant, resetEpoch)
    /\ claimState = "claimed" => StandsOK(session, Stands)

\* What a later table keeps of the rows of an earlier one; a row may stop being live.
SameRow(q, r) ==
    /\ q.createdAt = r.createdAt /\ q.expiresAt = r.expiresAt
    /\ q.consumedAt = r.consumedAt /\ q.claimedBy = r.claimedBy
    /\ q.misfiled = r.misfiled
    /\ q.state = r.state \/ (r.state = "live" /\ q.state = "revoked")

\* Withdrawing changes no column but the state.
LEMMA WithdrawRows ==
    ASSUME NEW ss \in [SessionIds -> SessionRow], NEW s \in SessionIds
    PROVE  SameRow(Withdraw(ss)[s], ss[s]) /\ Withdraw(ss)[s].lapsed = ss[s].lapsed
<1> DEFINE x == [ss[s] EXCEPT !.state = "revoked"]
<1>1. ss[s] \in SessionRow
  OBVIOUS
<1>2. /\ x.state = "revoked" /\ x.createdAt = ss[s].createdAt /\ x.expiresAt = ss[s].expiresAt
      /\ x.consumedAt = ss[s].consumedAt /\ x.claimedBy = ss[s].claimedBy
      /\ x.lapsed = ss[s].lapsed /\ x.misfiled = ss[s].misfiled
  BY <1>1 DEF SessionRow
<1>3. Withdraw(ss)[s] = IF ss[s].state = "live" THEN x ELSE ss[s]
  BY DEF Withdraw
<1> HIDE DEF x
<1> QED
  BY <1>2, <1>3 DEF SameRow

\* The mark of a revocation changes no column, and touches no window that was not
\* consumed for one of cs.
LEMMA LapseRows ==
    ASSUME NEW ss \in [SessionIds -> SessionRow], NEW cs, NEW s \in SessionIds
    PROVE  /\ SameRow(Lapse(ss, cs)[s], ss[s]) /\ Lapse(ss, cs)[s].state = ss[s].state
           /\ ss[s].claimedBy \notin cs => Lapse(ss, cs)[s].lapsed = ss[s].lapsed
<1> DEFINE x == [ss[s] EXCEPT !.lapsed = TRUE]
<1>1. ss[s] \in SessionRow
  OBVIOUS
<1>2. /\ x.state = ss[s].state /\ x.createdAt = ss[s].createdAt
      /\ x.expiresAt = ss[s].expiresAt
      /\ x.consumedAt = ss[s].consumedAt /\ x.claimedBy = ss[s].claimedBy
      /\ x.misfiled = ss[s].misfiled
  BY <1>1 DEF SessionRow
<1>3. Lapse(ss, cs)[s] = IF ss[s].claimedBy \in cs THEN x ELSE ss[s]
  BY DEF Lapse
<1> HIDE DEF x
<1> QED
  BY <1>2, <1>3 DEF SameRow

\* Tables that differ in states and marks only, and in no mark of a live row.
LEMMA RowsKept ==
    ASSUME NEW ss, NEW tt, RowsOK(ss),
           \A s \in SessionIds :
              /\ tt[s].createdAt = ss[s].createdAt
              /\ tt[s].state = "absent" <=> ss[s].state = "absent"
              /\ tt[s].state = "live" => /\ ss[s].state = "live"
                                         /\ tt[s].claimedBy = ss[s].claimedBy
                                         /\ tt[s].lapsed = ss[s].lapsed
                                         /\ tt[s].misfiled = ss[s].misfiled
    PROVE  RowsOK(tt)
<1>1. \A s, v \in SessionIds :
          tt[s].state = "live" /\ ~tt[s].misfiled /\ tt[v].state # "absent" /\ v # s
            => tt[v].createdAt < tt[s].createdAt
  BY ZenonT(30) DEF RowsOK
<1>2. \A s \in SessionIds : tt[s].state = "live" => tt[s].claimedBy = Nobody /\ ~tt[s].lapsed
  BY ZenonT(30) DEF RowsOK
<1> QED
  BY <1>1, <1>2 DEF RowsOK

\* no window is live, as Withdraw leaves the table
NoneLive(ss) == \A u \in SessionIds : ss[u].state # "live"

\* A new row is the newest or misfiled, whatever the table held.
LEMMA InsertRows ==
    ASSUME NEW ss \in [SessionIds -> SessionRow], Timestamp \in Nat, NoneLive(ss),
           NEW s \in SessionIds, NEW expiry, NEW e
    PROVE  /\ RowsOK(Insert(ss, s, expiry, e))
           /\ Insert(ss, s, expiry, e)[s].state = "live"
           /\ Insert(ss, s, expiry, e)[s].expiresAt = expiry
           /\ \A u \in SessionIds \ {s} : Insert(ss, s, expiry, e)[u] = ss[u]
<1> DEFINE mf == \E t \in Minted(ss) : ss[t].createdAt >= Timestamp
           row == [state |-> "live", createdAt |-> Timestamp, expiresAt |-> expiry,
                   consumedAt |-> Never, claimedBy |-> Nobody,
                   failedAttempts |-> 0, epoch |-> e, lapsed |-> FALSE,
                   misfiled |-> mf]
           tt == Insert(ss, s, expiry, e)
<1>1. tt = [ss EXCEPT ![s] = row]
  BY DEF Insert
<1>2. \A u \in SessionIds : ss[u].state # "absent" /\ ~mf => ss[u].createdAt < Timestamp
  <2>1. \A u \in SessionIds : ss[u].createdAt \in Nat
    BY DEF SessionRow
  <2> QED
    BY <2>1 DEF Minted
<1> HIDE DEF mf
<1>3. /\ row.state = "live" /\ row.createdAt = Timestamp /\ row.expiresAt = expiry
      /\ row.claimedBy = Nobody /\ ~row.lapsed /\ row.misfiled = mf
  OBVIOUS
<1> HIDE DEF row, tt
<1>4. tt[s] = row /\ \A u \in SessionIds \ {s} : tt[u] = ss[u]
  BY <1>1
<1>5. \A u, v \in SessionIds :
          tt[u].state = "live" /\ ~tt[u].misfiled /\ tt[v].state # "absent" /\ v # u
            => tt[v].createdAt < tt[u].createdAt
  <2> SUFFICES ASSUME NEW u \in SessionIds, NEW v \in SessionIds, tt[u].state = "live",
                      ~tt[u].misfiled, tt[v].state # "absent", v # u
               PROVE  tt[v].createdAt < tt[u].createdAt
    OBVIOUS
  <2>1. u = s
    BY <1>4 DEF NoneLive
  <2>2. ~mf /\ tt[u].createdAt = Timestamp /\ tt[v] = ss[v]
    BY <1>3, <1>4, <2>1
  <2> QED
    BY <1>2, <2>2
<1>6. \A u \in SessionIds : tt[u].state = "live" => tt[u].claimedBy = Nobody /\ ~tt[u].lapsed
  BY <1>3, <1>4 DEF NoneLive
<1>7. RowsOK(tt)
  BY <1>5, <1>6 DEF RowsOK
<1> QED
  BY <1>3, <1>4, <1>7 DEF tt

\* The session of the endpoint, if there is one, is open, and so is a window; a window
\* that is open and not misfiled is the session of the endpoint.
LEMMA AdvertisedLemma ==
    ASSUME NEW ss \in [SessionIds -> SessionRow], NEW t
    PROVE  /\ ActiveSetupSessionIn(ss, t) # NoSession =>
                 \E s \in SessionIds : ss[s].state = "live"
           /\ \A s \in SessionIds :
                 RowsOK(ss) /\ IsOpenIn(ss, s, t) /\ ~ss[s].misfiled
                    => ActiveSetupSessionIn(ss, t) = s
<1> DEFINE latest == {s \in SessionIds : IsLatestIn(ss, s) /\ IsOpenIn(ss, s, t)}
<1>0. ActiveSetupSessionIn(ss, t) = IF latest = {} THEN NoSession ELSE CHOOSE s \in latest : TRUE
  BY DEF ActiveSetupSessionIn
<1>1. ASSUME ActiveSetupSessionIn(ss, t) # NoSession
      PROVE  \E s \in SessionIds : ss[s].state = "live"
  BY <1>0, <1>1 DEF IsOpenIn
<1>2. ASSUME NEW s \in SessionIds, RowsOK(ss), IsOpenIn(ss, s, t), ~ss[s].misfiled
      PROVE  ActiveSetupSessionIn(ss, t) = s
  <2>0. \A u \in SessionIds : ss[u].createdAt \in Nat
    BY DEF SessionRow
  <2>1. ss[s].state = "live"
    BY <1>2 DEF IsOpenIn
  <2>2. \A u \in Minted(ss) \ {s} : ss[u].createdAt < ss[s].createdAt
    BY <1>2, <2>1 DEF RowsOK, Minted
  <2>3. IsLatestIn(ss, s)
    BY <2>0, <2>1, <2>2 DEF IsLatestIn, Later, Minted
  <2>4. ASSUME NEW u \in SessionIds, IsLatestIn(ss, u), u # s PROVE FALSE
    <3>1. u \in Minted(ss) /\ Later(ss, u, s)
      BY <2>1, <2>4 DEF IsLatestIn, Minted
    <3>2. ss[u].createdAt < ss[s].createdAt
      BY <2>2, <2>4, <3>1
    <3> QED
      BY <2>0, <3>1, <3>2 DEF Later
  <2>5. latest = {s}
    BY <1>2, <2>3, <2>4
  <2> HIDE DEF latest
  <2> QED
    BY <1>0, <2>5
<1> QED
  BY <1>1, <1>2

\* What a table tt keeps of the consumed windows of ss: no other window is consumed.
Settled(tt, ss) ==
    \A u \in SessionIds : tt[u].state = "consumed" =>
        /\ ss[u].state = "consumed" /\ tt[u].consumedAt = ss[u].consumedAt
        /\ tt[u].claimedBy = ss[u].claimedBy /\ tt[u].lapsed = ss[u].lapsed

\* What is known of consumed windows stays true.
LEMMA SettledLemma ==
    ASSUME NEW ss, NEW tt, Settled(tt, ss), NEW g, NEW e, LapsedOK(ss, g, e)
    PROVE  LapsedOK(tt, g, e)
BY DEF Settled, LapsedOK

\* Minting: the new window is the newest or misfiled, it is the only live one, and it
\* stays open.
LEMMA MintRows ==
    ASSUME NEW ss \in [SessionIds -> SessionRow], Timestamp \in Nat,
           NEW s \in SessionIds, ss[s].state = "absent"
    PROVE  /\ RowsOK(MintIn(ss, s)) /\ Settled(MintIn(ss, s), ss)
           /\ \A x : StandsOK(MintIn(ss, s), x)
<1> DEFINE rr == Withdraw(ss)
           tt == Insert(rr, s, Never, resetEpoch)
<1>1. rr \in [SessionIds -> SessionRow] /\ \A u \in SessionIds : rr[u].state # "live"
  BY WithdrawLemma
<1>2. \A u \in SessionIds : SameRow(rr[u], ss[u]) /\ rr[u].lapsed = ss[u].lapsed
  BY WithdrawRows
<1> HIDE DEF rr
<1>3. /\ RowsOK(tt)
      /\ tt[s].state = "live" /\ tt[s].expiresAt = Never
      /\ \A u \in SessionIds \ {s} : tt[u] = rr[u]
  <2>1. NoneLive(rr)
    BY <1>1 DEF NoneLive
  <2> QED
    BY <1>1, <2>1, InsertRows
<1> HIDE DEF tt
<1>4. Settled(tt, ss)
  BY <1>2, <1>3 DEF Settled, SameRow
<1>5. \A x : StandsOK(tt, x)
  BY <1>1, <1>3 DEF StandsOK
<1> QED
  BY <1>3, <1>4, <1>5 DEF tt, rr, MintIn

\* Opening the standing window: it is there afterwards, or it was missed.
LEMMA StandingRows ==
    ASSUME NEW ss \in [SessionIds -> SessionRow], Timestamp \in Nat, RowsOK(ss),
           OpenStandingIn(ss)
    PROVE  /\ RowsOK(session') /\ Settled(session', ss)
           /\ \/ session' = ss /\ missed'
              \/ \A x : StandsOK(session', x)
<1>1. ASSUME NEW s \in SessionIds, FreshIdIn(ss, s), session' = MintIn(ss, s)
      PROVE  /\ RowsOK(session') /\ Settled(session', ss)
             /\ \A x : StandsOK(session', x)
  BY <1>1, MintRows DEF FreshIdIn
<1>2. CASE session' = ss /\ missed' = TRUE
  BY <1>2 DEF Settled
<1> QED
  BY <1>1, <1>2 DEF OpenStandingIn

\* Putting the standing window back: afterwards one is live, if it has to be, or it
\* was missed.
LEMMA ReopenRows ==
    ASSUME NEW ss \in [SessionIds -> SessionRow], Timestamp \in Nat, RowsOK(ss), ReopenIn(ss)
    PROVE  /\ RowsOK(session') /\ Settled(session', ss)
           /\ alwaysOpen /\ FactoryCode /\ ~missed'
                 => \E s \in SessionIds : session'[s].state = "live"
           /\ \/ session' = ss
              \/ \A x : StandsOK(session', x)
<1>1. CASE session' = ss /\ ~(/\ alwaysOpen /\ FactoryCode
                              /\ ActiveSetupSessionIn(ss, Timestamp) = NoSession)
  <2>1. ASSUME alwaysOpen, FactoryCode PROVE \E s \in SessionIds : ss[s].state = "live"
    BY <1>1, <2>1, AdvertisedLemma
  <2> QED
    BY <1>1, <2>1 DEF Settled
<1>2. CASE OpenStandingIn(ss)
  <2>1. /\ RowsOK(session') /\ Settled(session', ss)
        /\ (session' = ss /\ missed') \/ \A x : StandsOK(session', x)
    BY <1>2, StandingRows
  <2>2. ASSUME \A x : StandsOK(session', x)
        PROVE  \E s \in SessionIds : session'[s].state = "live"
    <3>1. StandsOK(session', TRUE)
      BY <2>2
    <3> QED
      BY <3>1 DEF StandsOK
  <2> QED
    BY <2>1, <2>2
<1> QED
  BY <1>1, <1>2 DEF ReopenIn

\* Consuming the live window: none is left, and it bears no mark.
LEMMA ConsumeRows ==
    ASSUME NEW e, NEW ss, SessionsOK(ss, e), now \in 0..MaxClock, RowsOK(ss),
           NEW s \in SessionIds, ss[s].state = "live", NEW c \in Controllers
    PROVE  LET tt == Consume(ss, s, c)
           IN /\ RowsOK(tt)
              /\ \A u \in SessionIds : tt[u].state # "live"
              /\ ~tt[s].lapsed /\ \A u \in SessionIds \ {s} : tt[u] = ss[u]
<1> DEFINE row == [ss[s] EXCEPT !.state = "consumed", !.consumedAt = Timestamp,
                                !.claimedBy = c]
           tt == Consume(ss, s, c)
<1>0. Timestamp \in Nat /\ ss[s] \in SessionRow /\ ss \in [SessionIds -> SessionRow]
  BY TimestampType DEF SessionsOK
<1>1. row.state = "consumed" /\ row.lapsed = ss[s].lapsed
  BY <1>0, ZenonT(30) DEF SessionRow
<1>2. tt = [ss EXCEPT ![s] = row]
  BY <1>0, ZenonT(30) DEF Consume, SessionRow
<1> HIDE DEF row, tt
<1>3. tt[s] = row /\ \A u \in SessionIds \ {s} : tt[u] = ss[u]
  BY <1>0, <1>2
<1>4. \A u \in SessionIds : tt[u].state # "live"
  BY <1>1, <1>3 DEF SessionsOK
<1>5. RowsOK(tt) /\ ~tt[s].lapsed
  BY <1>1, <1>3, <1>4 DEF RowsOK
<1> QED
  BY <1>3, <1>4, <1>5 DEF tt

\* A claim: the Grant it may write is newer than every window its phone consumed
\* before it, or misfiled.
LEMMA ClaimRows ==
    ASSUME Inv, OrderInv, NEW s \in SessionIds, NEW c \in Controllers, Claim(s, c)
    PROVE  OrderInv'
<1> DEFINE ss == Consume(session, s, c)
<1>0. /\ now \in 0..MaxClock /\ resetEpoch' = resetEpoch /\ Timestamp \in Nat
      /\ session[s].state = "live" /\ SessionsOK(session, resetEpoch)
      /\ RowsOK(session) /\ LapsedOK(session, grant, resetEpoch)
  BY TimestampType DEF Inv, OrderInv, Claim, IsOpenIn
<1>1. /\ RowsOK(ss)
      /\ \A u \in SessionIds : ss[u].state # "live"
      /\ ~ss[s].lapsed /\ \A u \in SessionIds \ {s} : ss[u] = session[u]
  BY <1>0, ConsumeRows, ZenonT(30)
<1>2. ss \in [SessionIds -> SessionRow]
  BY <1>0, ConsumeLemma DEF SessionsOK
<1>3. /\ (ReopenIn(ss) /\ UNCHANGED <<link, running, alwaysOpen>>) \/ CrashAfter(ss)
      /\ \/ UNCHANGED grant
         \/ grant' = [grant EXCEPT ![c][resetEpoch] = NewGrant(c)]
  BY DEF Claim
<1> HIDE DEF ss
<1>4. LapsedOK(ss, grant', resetEpoch)
  <2>1. ASSUME NEW u \in SessionIds, NEW d \in Controllers,
               ss[u].state = "consumed", ss[u].claimedBy = d, ss[u].lapsed,
               grant'[d][resetEpoch].state = "active", ~grant'[d][resetEpoch].misfiled
        PROVE  ss[u].consumedAt < grant'[d][resetEpoch].createdAt
    <3>1. u # s /\ ss[u] = session[u]
      BY <1>1, <2>1
    <3>2. grant'[d][resetEpoch] = grant[d][resetEpoch]
          \/ (d = c /\ grant'[d][resetEpoch] = NewGrant(c))
      BY <1>3 DEF Inv, GrantsOK
    <3>3. CASE grant'[d][resetEpoch] = grant[d][resetEpoch]
      BY <1>0, <2>1, <3>1, <3>3 DEF LapsedOK
    <3>4. CASE d = c /\ grant'[d][resetEpoch] = NewGrant(c)
      <4>1. ~NewGrant(c).misfiled /\ NewGrant(c).createdAt = Timestamp
        BY <2>1, <3>4 DEF NewGrant
      <4>2. ~(session[u].consumedAt >= Timestamp)
        BY <2>1, <3>1, <3>4, <4>1 DEF NewGrant
      <4>3. session[u].consumedAt \in Nat \cup {Never}
        BY <1>0 DEF SessionsOK, SessionRow
      <4> QED
        BY <1>0, <3>1, <3>4, <4>1, <4>2, <4>3 DEF Never
    <3> QED
      BY <3>2, <3>3, <3>4
  <2> QED
    BY <2>1 DEF LapsedOK
<1>5. CASE ReopenIn(ss) /\ UNCHANGED <<link, running, alwaysOpen>>
  <2>1. /\ RowsOK(session') /\ Settled(session', ss)
        /\ alwaysOpen /\ FactoryCode /\ ~missed'
              => \E u \in SessionIds : session'[u].state = "live"
        /\ session' = ss \/ \A x : StandsOK(session', x)
    BY <1>0, <1>1, <1>2, <1>5, ReopenRows
  <2>2. LapsedOK(session', grant', resetEpoch)
    BY <1>4, <2>1, SettledLemma
  <2>3. StandsOK(session', Stands')
    <3>1. CASE session' = ss
      BY <1>1, <1>5, <2>1, <3>1 DEF StandsOK, Stands
    <3> QED
      BY <2>1, <3>1
  <2> QED
    BY <1>0, <2>1, <2>2, <2>3 DEF OrderInv
<1>6. CASE CrashAfter(ss)
  <2>1. session' = ss /\ ~running'
    BY <1>6 DEF CrashAfter
  <2>2. StandsOK(session', Stands')
    BY <1>1, <2>1 DEF StandsOK, Stands
  <2> QED
    BY <1>0, <1>1, <1>4, <2>1, <2>2 DEF OrderInv
<1> QED
  BY <1>3, <1>5, <1>6

\* A step that leaves windows, grants and the claim alone.
LEMMA SameRows ==
    ASSUME OrderInv, UNCHANGED durable, Stands' => Stands
    PROVE  OrderInv'
<1>1. claimState = "claimed" => StandsOK(session, Stands')
  BY DEF OrderInv, StandsOK
<1> QED
  BY <1>1 DEF OrderInv, durable

\* A reset: nobody holds the Host, and what it leaves of the windows is older than
\* the window it may open, unless that one is misfiled.
LEMMA ResetRows ==
    ASSUME Inv, OrderInv, ResetAuthority,
           LET ss == Lapse(Withdraw(session), Controllers)
           IN  \/ session' = ss
               \/ \E s \in SessionIds, expiry \in Nat, e \in Nat : session' = Insert(ss, s, expiry, e)
    PROVE  OrderInv'
<1> DEFINE rr == Withdraw(session)
           ss == Lapse(rr, Controllers)
<1>0. Timestamp \in Nat /\ session \in [SessionIds -> SessionRow]
  BY TimestampType DEF Inv, SessionsOK
<1>1. /\ claimState' = "unclaimed"
      /\ \A c \in Controllers : grant'[c][resetEpoch'].state # "active"
  BY ResetLemma DEF GrantsOK
<1>2. rr \in [SessionIds -> SessionRow] /\ \A u \in SessionIds : rr[u].state # "live"
  BY <1>0, WithdrawLemma
<1> HIDE DEF rr
<1>3. ss \in [SessionIds -> SessionRow] /\ NoneLive(ss)
  BY <1>2, LapseLemma DEF NoneLive
<1> HIDE DEF ss
<1>4. LapsedOK(session', grant', resetEpoch')
  BY <1>1 DEF LapsedOK
<1>5. RowsOK(session')
  <2>1. CASE session' = ss
    BY <1>3, <2>1 DEF RowsOK, NoneLive
  <2>2. ASSUME NEW s \in SessionIds, NEW expiry \in Nat, NEW e \in Nat,
               session' = Insert(ss, s, expiry, e)
        PROVE  RowsOK(session')
    BY <1>0, <1>3, <2>2, InsertRows
  <2> QED
    BY <2>1, <2>2 DEF ss, rr
<1> QED
  BY <1>1, <1>4, <1>5 DEF OrderInv

\* The operator asks for a code.
LEMMA IssueRows ==
    ASSUME Inv, OrderInv, NEW s \in SessionIds, IssueSetupCode(s)
    PROVE  OrderInv'
<1>0. /\ Timestamp \in Nat /\ session \in [SessionIds -> SessionRow]
      /\ session' = MintIn(session, s) /\ session[s].state = "absent"
      /\ UNCHANGED <<resetEpoch, grant>>
  BY TimestampType DEF Inv, SessionsOK, IssueSetupCode, FreshId, FreshIdIn
<1>1. /\ RowsOK(session') /\ Settled(session', session)
      /\ \A x : StandsOK(session', x)
  BY <1>0, MintRows
<1>2. LapsedOK(session', grant, resetEpoch)
  BY <1>1, SettledLemma DEF OrderInv
<1>3. StandsOK(session', Stands')
  BY <1>1
<1> QED
  BY <1>0, <1>1, <1>2, <1>3 DEF OrderInv

\* A start opens the standing window, misses it, or finds one.
LEMMA StartRows ==
    ASSUME Inv, OrderInv, Start
    PROVE  OrderInv'
<1>0. /\ session \in [SessionIds -> SessionRow] /\ Timestamp \in Nat
      /\ UNCHANGED <<resetEpoch, claimState, grant>>
      /\ RowsOK(session) /\ LapsedOK(session, grant, resetEpoch)
  BY TimestampType DEF Start, Inv, SessionsOK, OrderInv
<1>1. CASE FactoryWindowDue
  <2>1. /\ RowsOK(session') /\ Settled(session', session)
        /\ (session' = session /\ missed') \/ \A x : StandsOK(session', x)
    BY <1>0, <1>1, StandingRows DEF Start
  <2>2. LapsedOK(session', grant, resetEpoch)
    BY <1>0, <2>1, SettledLemma
  <2>3. claimState = "claimed" => StandsOK(session', Stands')
    <3>1. CASE session' = session /\ missed'
      BY <3>1 DEF OrderInv, StandsOK, Stands
    <3> QED
      BY <2>1, <3>1
  <2> QED
    BY <1>0, <2>1, <2>2, <2>3 DEF OrderInv
<1>2. CASE ~FactoryWindowDue
  <2>0. UNCHANGED session
    BY <1>2 DEF Start
  <2>1. ASSUME claimState = "claimed", Stands' PROVE \E s \in SessionIds : session[s].state = "live"
    <3>1. ActiveSetupSessionIn(session, Timestamp) # NoSession
      BY <1>2, <2>1 DEF FactoryWindowDue, Stands, ActiveSetupSession
    <3> QED
      BY <1>0, <3>1, AdvertisedLemma
  <2>2. claimState = "claimed" => StandsOK(session, Stands')
    BY <2>1 DEF OrderInv, StandsOK
  <2> QED
    BY <1>0, <2>0, <2>2 DEF OrderInv
<1> QED
  BY <1>1, <1>2

\* A wrong code counts up a column nothing else reads.
LEMMA WrongCodeRows ==
    ASSUME Inv, OrderInv, NEW s \in SessionIds, WrongCode(s)
    PROVE  OrderInv'
<1> DEFINE row == [session[s] EXCEPT !.failedAttempts = session[s].failedAttempts + 1]
<1>0. /\ session \in [SessionIds -> SessionRow]
      /\ UNCHANGED <<resetEpoch, claimState, grant, process>>
      /\ session[s] \in SessionRow /\ session[s].failedAttempts < MaxAttempts
  BY DEF Inv, SessionsOK, WrongCode
<1>1. /\ row.state = session[s].state /\ row.createdAt = session[s].createdAt
      /\ row.expiresAt = session[s].expiresAt /\ row.consumedAt = session[s].consumedAt
      /\ row.claimedBy = session[s].claimedBy /\ row.lapsed = session[s].lapsed
      /\ row.misfiled = session[s].misfiled
  BY <1>0 DEF SessionRow
<1>2. session' = [session EXCEPT ![s] = row]
  BY <1>0 DEF WrongCode, SessionRow
<1> HIDE DEF row
<1>3. \A u \in SessionIds :
            /\ session'[u].state = session[u].state
            /\ session'[u].createdAt = session[u].createdAt
            /\ session'[u].expiresAt = session[u].expiresAt
            /\ session'[u].consumedAt = session[u].consumedAt
            /\ session'[u].claimedBy = session[u].claimedBy
            /\ session'[u].lapsed = session[u].lapsed
            /\ session'[u].misfiled = session[u].misfiled
  BY <1>0, <1>1, <1>2
<1>4. RowsOK(session')
  BY <1>3, RowsKept DEF OrderInv
<1>5. LapsedOK(session', grant, resetEpoch)
  BY <1>3, ZenonT(30) DEF OrderInv, LapsedOK
<1>6. claimState = "claimed" => StandsOK(session', Stands)
  BY <1>3 DEF OrderInv, StandsOK
<1>7. UNCHANGED Stands
  BY <1>0 DEF Stands, process
<1> QED
  BY <1>0, <1>4, <1>5, <1>6, <1>7 DEF OrderInv

\* A replay writes no Grant; it may put the standing window back.
LEMMA ReplayRows ==
    ASSUME Inv, OrderInv, NEW s, NEW c, Replay(s, c)
    PROVE  OrderInv'
<1>0. /\ session \in [SessionIds -> SessionRow] /\ Timestamp \in Nat
      /\ UNCHANGED <<resetEpoch, claimState, grant, running, alwaysOpen>> /\ ReopenIn(session)
      /\ RowsOK(session) /\ LapsedOK(session, grant, resetEpoch)
  BY TimestampType DEF Inv, SessionsOK, OrderInv, Replay
<1>1. /\ RowsOK(session') /\ Settled(session', session)
      /\ alwaysOpen /\ FactoryCode /\ ~missed'
            => \E u \in SessionIds : session'[u].state = "live"
      /\ session' = session \/ \A x : StandsOK(session', x)
  BY <1>0, ReopenRows
<1>2. LapsedOK(session', grant, resetEpoch)
  BY <1>0, <1>1, SettledLemma
<1>3. claimState = "claimed" => StandsOK(session', Stands')
  <2>1. CASE session' = session
    BY <1>0, <1>1, <2>1 DEF OrderInv, StandsOK, Stands
  <2> QED
    BY <1>1, <2>1
<1> QED
  BY <1>0, <1>1, <1>2, <1>3 DEF OrderInv

\* A revocation marks the windows of a phone that no longer holds the Host.
LEMMA RevokeRows ==
    ASSUME Inv, OrderInv, NEW by \in Controllers, NEW target \in Controllers,
           RevokeController(by, target)
    PROVE  OrderInv'
<1> DEFINE ss == Lapse(session, {target})
<1>0. /\ session \in [SessionIds -> SessionRow]
      /\ UNCHANGED <<resetEpoch, claimState, process>> /\ session' = ss
      /\ resetEpoch \in Epochs /\ grant \in [Controllers -> [Epochs -> GrantRow]]
      /\ grant' = [grant EXCEPT ![target][resetEpoch].state = "revoked"]
      /\ RowsOK(session) /\ LapsedOK(session, grant, resetEpoch)
  BY DEF Inv, SessionsOK, GrantsOK, OrderInv, RevokeController
<1>1. \A u \in SessionIds :
         /\ ss[u].state = session[u].state /\ ss[u].createdAt = session[u].createdAt
         /\ ss[u].expiresAt = session[u].expiresAt
         /\ ss[u].consumedAt = session[u].consumedAt
         /\ ss[u].claimedBy = session[u].claimedBy
         /\ ss[u].misfiled = session[u].misfiled
  <2>1. \A u \in SessionIds : SameRow(ss[u], session[u]) /\ ss[u].state = session[u].state
    BY <1>0, LapseRows
  <2> HIDE DEF ss
  <2> QED
    BY <2>1 DEF SameRow
<1>2. ASSUME NEW u \in SessionIds, session[u].claimedBy # target
      PROVE  ss[u].lapsed = session[u].lapsed
  BY <1>0, <1>2, LapseRows
<1> HIDE DEF ss
<1>3. RowsOK(ss)
  <2>1. ASSUME NEW u \in SessionIds, session[u].state = "live"
        PROVE  ss[u].lapsed = session[u].lapsed
    BY <1>0, <1>2, <2>1, NobodyAssumption DEF NobodyAssumption, RowsOK
  <2> QED
    BY <1>0, <1>1, <2>1, RowsKept
<1>4. LapsedOK(ss, grant', resetEpoch)
  <2>1. \A d \in Controllers \ {target} : grant'[d][resetEpoch] = grant[d][resetEpoch]
    BY <1>0
  <2>2. grant'[target][resetEpoch].state # "active"
    BY <1>0 DEF GrantRow
  <2>3. ASSUME NEW u \in SessionIds, NEW d \in Controllers,
               ss[u].state = "consumed", ss[u].claimedBy = d, ss[u].lapsed,
               grant'[d][resetEpoch].state = "active", ~grant'[d][resetEpoch].misfiled
        PROVE  ss[u].consumedAt < grant'[d][resetEpoch].createdAt
    <3>1. d # target
      BY <2>2, <2>3
    <3>2. /\ session[u].state = "consumed" /\ session[u].claimedBy = d
          /\ session[u].lapsed /\ ss[u].consumedAt = session[u].consumedAt
      BY <1>1, <1>2, <2>3, <3>1
    <3> QED
      BY <1>0, <2>1, <2>3, <3>1, <3>2 DEF LapsedOK
  <2> QED
    BY <2>3 DEF LapsedOK
<1>5. UNCHANGED Stands
  BY <1>0 DEF Stands, process
<1>6. claimState = "claimed" => StandsOK(ss, Stands)
  BY <1>1 DEF OrderInv, StandsOK
<1> QED
  BY <1>0, <1>3, <1>4, <1>5, <1>6 DEF OrderInv

\* Every step keeps OrderInv, those of the clock included.
LEMMA NextOrder == Inv /\ OrderInv /\ [Next]_vars => OrderInv'
<1> SUFFICES ASSUME Inv, OrderInv, [Next]_vars PROVE OrderInv'
  OBVIOUS
<1>1. CASE Start
  BY <1>1, StartRows
<1>2. CASE Stop
  BY <1>2, SameRows DEF Stop, Stands
<1>3. ASSUME UNCHANGED <<durable, process>> PROVE OrderInv'
  BY <1>3, SameRows DEF Stands, process
<1>4. ASSUME NEW s \in SessionIds, IssueSetupCode(s) PROVE OrderInv'
  BY <1>4, IssueRows
<1>5. ASSUME NEW s \in SessionIds, ControllerReset(s) PROVE OrderInv'
  <2> DEFINE expiry == Text(now + RecoveryTtl * PerSecond)
             e == resetEpoch + 1
  <2>1. expiry \in Nat
    <3>1. now + RecoveryTtl * PerSecond \in Nat
      BY BoundsAssumption DEF BoundsAssumption, Inv
    <3> QED
      BY <3>1, TextType
  <2>2. e \in Nat
    BY BoundsAssumption DEF BoundsAssumption, Inv, Epochs
  <2>3. session' = Insert(Lapse(Withdraw(session), Controllers), s, expiry, e) /\ ResetAuthority
    BY <1>5 DEF ControllerReset
  <2> HIDE DEF expiry, e
  <2> QED
    BY <2>1, <2>2, <2>3, ResetRows
<1>6. CASE DevelopmentReset
  BY <1>6, ResetRows DEF DevelopmentReset
<1>7. ASSUME NEW s \in SessionIds, WrongCode(s) PROVE OrderInv'
  BY <1>7, WrongCodeRows
<1>8. ASSUME NEW s \in SessionIds, NEW c \in Controllers, ClaimLanController(s, c)
      PROVE  OrderInv'
  BY <1>8, ClaimRows DEF ClaimLanController
<1>9. ASSUME NEW l \in Links, NEW c \in Controllers, ClaimComplete(l, c) PROVE OrderInv'
  <2>1. link[l].session \in SessionIds
    BY <1>9 DEF ClaimComplete, Inv, LinkState
  <2> QED
    BY <1>9, <2>1, ClaimRows, ReplayRows DEF ClaimComplete
<1>10. ASSUME NEW l \in Links,
              \/ \E s \in SessionIds : SessionAuthenticate(l, s)
              \/ \E c \in Controllers : ControllerChallenge(l, c)
              \/ ControllerAuthenticate(l) \/ Disconnect(l)
       PROVE  UNCHANGED <<durable, process>>
  BY <1>10 DEF SessionAuthenticate, ControllerChallenge, ControllerAuthenticate, Disconnect
<1>11. ASSUME NEW by \in Controllers, NEW target \in Controllers,
              RevokeController(by, target)
       PROVE  OrderInv'
  BY <1>11, RevokeRows
<1>12. CASE UNCHANGED vars
  BY <1>3, <1>12 DEF vars
<1>13. CASE Daemon
  BY <1>1, <1>2, <1>3, <1>13 DEF Daemon, Tick, SetClockBack
<1>14. CASE Operator
  BY <1>4, <1>5, <1>6, <1>14 DEF Operator
<1>15. CASE Phone
  BY <1>3, <1>7, <1>8, <1>9, <1>10, <1>11, <1>15 DEF Phone
<1> QED
  BY <1>12, <1>13, <1>14, <1>15 DEF Next

\* OrderInv holds throughout, with Inv.
LEMMA OrderInvariance == Spec => [](Inv /\ OrderInv)
<1>1. Init => OrderInv
  <2> SUFFICES ASSUME Init PROVE OrderInv
    OBVIOUS
  <2>1. \A s \in SessionIds : session[s].state = "absent"
    BY DEF Init, AbsentRow
  <2>2. RowsOK(session) /\ LapsedOK(session, grant, resetEpoch)
    BY <2>1 DEF RowsOK, LapsedOK
  <2>3. claimState # "claimed"
    BY DEF Init
  <2> QED
    BY <2>2, <2>3 DEF OrderInv
<1> QED
  BY <1>1, InitInv, NextInv, NextOrder, PTL DEF Spec

\* The endpoint, which takes the newest row by the text of created_at, hides no window
\* that still takes a code, whatever the clock does, except one whose own created_at
\* reads no later than that of a window before it.
THEOREM OpenWindowsAreSeen == Spec => []OpenWindowIsAdvertised
<1>1. Inv /\ OrderInv => OpenWindowIsAdvertised
  BY AdvertisedLemma
     DEF Inv, SessionsOK, OrderInv, OpenWindowIsAdvertised, ActiveSetupSession
<1> QED
  BY <1>1, OrderInvariance, PTL

\* The consumed code of a phone that was revoked answers it no more, re-claims through
\* a fresh window included, whatever the clock does, unless the created_at of its new
\* Grant reads no later than a consumed_at written for it before.
THEOREM ReplayIsNoRestore == Spec => []ReplayCoversNoRevocation
<1>1. Inv /\ OrderInv => ReplayCoversNoRevocation
  <2> SUFFICES ASSUME Inv, OrderInv, NEW s \in SessionIds, NEW c \in Controllers,
                      ReplayAllowed(s, c), ~grant[c][resetEpoch].misfiled, session[s].lapsed
               PROVE  FALSE
    BY DEF ReplayCoversNoRevocation
  <2>1. /\ session[s].state = "consumed" /\ session[s].claimedBy = c
        /\ grant[c][resetEpoch].state = "active"
        /\ grant[c][resetEpoch].createdAt <= session[s].consumedAt
    BY DEF ReplayAllowed, ActiveControllers, ActiveGrants
  <2>2. session[s].consumedAt < grant[c][resetEpoch].createdAt
    BY <2>1 DEF OrderInv, LapsedOK
  <2>3. session[s].consumedAt \in Nat \cup {Never} /\ grant[c][resetEpoch].createdAt \in Nat
    BY DEF Inv, SessionsOK, GrantsOK, SessionRow, GrantRow
  <2> QED
    BY <2>1, <2>2, <2>3 DEF Never
<1> QED
  BY <1>1, OrderInvariance, PTL

\* ALWAYS_OPEN keeps its promise on a claimed Host, whatever the clock does: a running
\* daemon whose last attempt to open the standing window did not fail has a window that
\* takes a code.
THEOREM WindowStands == Spec => []StandingWindow
<1>1. Inv /\ OrderInv => StandingWindow
  BY DEF OrderInv, StandingWindow, StandsOK, Stands, IsOpenIn
<1> QED
  BY <1>1, OrderInvariance, PTL
=============================================================================
