------------------------ MODULE CommissioningStream -------------------------
(***************************************************************************)
(* The BLE side of bootstrapd: the supervisor that keeps a GATT listener   *)
(* up, the listener that turns subscriptions and writes of a central into  *)
(* links, and one session task per link, which speaks TLS over it and      *)
(* answers one request at a time.                                          *)
(*                                                                         *)
(* Sessions are tasks of one event loop and share the listener's TX        *)
(* characteristic: one "notifying" flag and one slot for the confirmation  *)
(* that the sender awaits.  A step is what a task does between two awaits. *)
(* A write is told apart by what TLS and the line reader make of it; a     *)
(* reply is its number of indications.  What a request does to the Host is *)
(* in BootstrapAuthority and NetworkChange.                                *)
(***************************************************************************)
EXTENDS Integers, Sequences

CONSTANTS
    Centrals,     \* phones in range
    Links,        \* _BlueZCommissioningLink objects, numbered as created
    Nobody,       \* "no central"
    Flights,      \* writes of a central that complete the TLS handshake
    MaxChunks,    \* bound: indications of one reply
    MaxInbox      \* bound: writes waiting in a link

ASSUME LinksAssumption == Links \subseteq Nat \ {0}
ASSUME NobodyAssumption == Nobody \notin Centrals
ASSUME BoundsAssumption ==
    Flights \in Nat /\ MaxChunks \in Nat \ {0} /\ MaxInbox \in Nat

VARIABLES
    stage,      \* where _run_bluez_commissioning stands
    subscriber, \* BlueZ: the central whose subscription is on
    notifying,  \* _TxCharacteristic._notifying
    slot,       \* _TxCharacteristic._confirmation: the session it belongs to
    air,        \* the indication its central has not confirmed, by session
    current,    \* BlueZCommissioningListener._link
    link        \* every link with its session

vars == <<stage, subscriber, notifying, slot, air, current, link>>

NoLink == 0

\* what a write is: a handshake flight, a piece of a line, the end of a line
\* that asks for something, or what ends the session: close_notify, bytes TLS
\* or JSON refuses, a line past _MAX_APPLICATION_MESSAGE
Lines == {"authenticate", "work"}
Writes == {"flight", "piece", "garbage"} \cup Lines

NewLink == [phase |-> "none", central |-> Nobody, closed |-> FALSE, inbox |-> <<>>,
            flights |-> 0, authorized |-> FALSE, left |-> 0,
            late |-> 0, unheard |-> FALSE]

\* a session that is over; only its history is kept
Ended(r) == [NewLink EXCEPT !.phase = "ended", !.closed = TRUE, !.late = r.late]

Init ==
    /\ stage = "starting"
    /\ subscriber = Nobody
    /\ notifying = FALSE
    /\ slot = NoLink /\ air = NoLink /\ current = NoLink
    /\ link = [l \in Links |-> NewLink]

-----------------------------------------------------------------------------
(* The listener.                                                            *)

\* (faulty variant: the listener only forgets its link)
CloseForgotten(ls) == ls

\* link.close() of the current link; what it had queued stays readable, its
\* device_path is not read again
CloseCurrent(ls) ==
    IF current = NoLink \/ ls[current].closed THEN ls
    ELSE [ls EXCEPT ![current].closed = TRUE, ![current].central = Nobody,
                    ![current].inbox = Append(@, "closed")]

CentralDisconnected ==
    /\ link' = CloseCurrent(link)
    /\ current' = NoLink

\* listener.start(): registered, or stop() after whatever it raised
StartListener ==
    /\ stage = "starting"
    /\ stage' \in {"ready", "degraded"}
    /\ UNCHANGED <<subscriber, notifying, slot, air, current, link>>

\* _wait_or_stop(stop_event, 5), then a new listener
RetryListener ==
    /\ stage = "degraded"
    /\ stage' = "starting"
    /\ UNCHANGED <<subscriber, notifying, slot, air, current, link>>

\* the daemon cancels the supervisor, whose finally stops the listener; the
\* cancellation skips the lines that would have cancelled the sessions
CancelSupervisor ==
    /\ stage # "cancelled"
    /\ stage' = "cancelled"
    /\ CentralDisconnected
    /\ subscriber' = Nobody /\ air' = NoLink
    /\ UNCHANGED <<notifying, slot>>

\* the process ends, after that or by a crash, and systemd starts the next
Restart ==
    /\ stage' = "starting"
    /\ subscriber' = Nobody
    /\ notifying' = FALSE
    /\ slot' = NoLink /\ air' = NoLink /\ current' = NoLink
    /\ link' = [l \in Links |->
                  IF link[l].phase = "none" THEN NewLink
                  ELSE Ended(link[l])]

-----------------------------------------------------------------------------
(* What BlueZ calls.                                                        *)

StartNotify(c) ==
    /\ stage = "ready" /\ subscriber = Nobody
    /\ ~notifying
    /\ subscriber' = c
    /\ notifying' = TRUE
    /\ air' = NoLink
    /\ UNCHANGED <<stage, slot, current, link>>

\* the central unsubscribed or went away: central_disconnected
StopNotify ==
    /\ stage = "ready" /\ subscriber # Nobody
    /\ subscriber' = Nobody
    /\ notifying' = FALSE
    /\ CentralDisconnected
    /\ UNCHANGED <<stage, slot, air>>

Fresh(l) == link[l].phase = "none" /\ \A m \in Links : m < l => link[m].phase # "none"

\* link.feed(): a closed link takes nothing
Feed(ls, l, w) ==
    /\ ~ls[l].closed
    /\ Len(ls[l].inbox) < MaxInbox
    /\ link' = [ls EXCEPT ![l].inbox = Append(@, w)]

\* the first write opens a link, later ones feed it while it is theirs
CentralData(c, w) ==
    \/ /\ current = NoLink
       /\ \E l \in Links :
             /\ Fresh(l)
             /\ current' = l
             /\ Feed([link EXCEPT ![l].phase = "accepted", ![l].central = c], l, w)
    \/ /\ current # NoLink /\ link[current].central = c
       /\ Feed(link, current, w)
       /\ UNCHANGED current

WriteValue(c, w) ==
    /\ stage = "ready" /\ notifying
    /\ CentralData(c, w)
    /\ UNCHANGED <<stage, subscriber, notifying, slot, air>>

-----------------------------------------------------------------------------
(* What a session does once it runs: s and a are slot and air if it says    *)
(* nothing.                                                                 *)

\* indicate(): the confirmation slot becomes this session's
Emit(l, r) ==
    /\ link' = [link EXCEPT ![l] = [r EXCEPT !.unheard = FALSE]]
    /\ slot' = l /\ air' = l

Rest(l, r, s, a) ==
    /\ link' = [link EXCEPT ![l] = r]
    /\ slot' = s /\ air' = a

\* CommissioningTlsSession.close(): close_notify if it can still be sent,
\* then link.close()
Finish(l, r, s, a) ==
    \/ /\ ~r.closed /\ notifying
       /\ Emit(l, [r EXCEPT !.phase = "closing"])
    \/ /\ r.closed \/ ~notifying \/ r.flights < Flights
       /\ Rest(l, Ended(r), s, a)

\* one more indication of a reply under way
Indicate(l, r, s, a) ==
    IF notifying THEN Emit(l, [r EXCEPT !.phase = "sending"])
    ELSE Finish(l, r, s, a)

\* (faulty variant: a closed link still sends)
SendAnyway(l, r, s, a) ==
    \E n \in 1..MaxChunks : Indicate(l, [r EXCEPT !.left = n - 1], s, a)

\* link.send(): closed is looked at before the first indication only
Send(l, r, s, a) ==
    IF r.closed THEN Finish(l, r, s, a)
    ELSE \E n \in 1..MaxChunks : Indicate(l, [r EXCEPT !.left = n - 1], s, a)

\* history: a request was carried out although its link had closed
Counted(r) == IF r.closed THEN [r EXCEPT !.late = @ + 1] ELSE r

\* protocol.handle(): most operations answer at once, the network operations
\* of an authorized link await; the answer may be too large to send
Handle(l, r, op, s, a) ==
    \/ /\ op = "authenticate"
       /\ \E ok \in BOOLEAN :
             Send(l, Counted([r EXCEPT !.authorized = @ \/ ok]), s, a)
    \/ /\ op = "work" /\ ~r.authorized
       /\ Send(l, Counted(r), s, a)
    \/ /\ op = "work" /\ r.authorized
       /\ Rest(l, [r EXCEPT !.phase = "handling"], s, a)

-----------------------------------------------------------------------------
(* The sessions.                                                            *)

\* listener.accept(), in the order the links were made
Accept(l) ==
    /\ stage = "ready"
    /\ link[l].phase = "accepted"
    /\ \A m \in Links : m < l => link[m].phase # "accepted"
    /\ Rest(l, [link[l] EXCEPT !.phase = "receiving"], slot, air)
    /\ UNCHANGED <<stage, subscriber, notifying, current>>

\* handshake() and receive_json(), with the item link.receive() returned
Receive(l) ==
    /\ link[l].phase = "receiving" /\ link[l].inbox # <<>>
    /\ UNCHANGED <<stage, subscriber, notifying, current>>
    /\ LET w == Head(link[l].inbox)
           r == [link[l] EXCEPT !.inbox = Tail(@)]
           secure == r.flights = Flights
       IN \/ /\ w = "flight" /\ ~secure
             /\ Send(l, [r EXCEPT !.flights = @ + 1], slot, air)
          \/ /\ w = "piece" /\ secure
             /\ Rest(l, r, slot, air)
          \/ /\ w \in Lines /\ secure
             /\ Handle(l, r, w, slot, air)
          \/ /\ w \in {"closed", "garbage"} \/ (secure <=> w = "flight")
             /\ Finish(l, r, slot, air)

\* the network operation a session awaited is over
Handled(l) ==
    /\ link[l].phase = "handling"
    /\ UNCHANGED <<stage, subscriber, notifying, current>>
    /\ LET r == Counted([link[l] EXCEPT !.phase = "receiving"])
       IN Send(l, r, slot, air) \/ Finish(l, r, slot, air)

\* where a session goes once its indication was confirmed
Onward(l, r, s, a) ==
    \/ /\ r.phase = "sending" /\ r.left > 0
       /\ Indicate(l, [r EXCEPT !.left = @ - 1], s, a)
    \/ /\ r.phase = "sending" /\ r.left = 0
       /\ Rest(l, [r EXCEPT !.phase = "receiving"], s, a)
    \/ /\ r.phase = "closing"
       /\ Rest(l, Ended(r), s, a)

\* the central confirms the indication; the waiting session is the next to run
Confirm ==
    /\ stage = "ready" /\ air # NoLink
    /\ UNCHANGED <<stage, subscriber, notifying, current>>
    /\ IF slot # NoLink
       THEN Onward(slot, link[slot], NoLink, NoLink)
       ELSE Rest(air, [link[air] EXCEPT !.unheard = TRUE], slot, NoLink)

\* (faulty variant: the wait for a confirmation has no limit)
WaitForever(l) ==
    /\ FALSE
    /\ UNCHANGED vars

\* five seconds without a confirmation: the finally empties the slot, whoever
\* it belongs to by now
IndicationTimesOut(l) ==
    /\ link[l].phase \in {"sending", "closing"}
    /\ UNCHANGED <<stage, subscriber, notifying, current>>
    /\ LET a == IF air = l THEN NoLink ELSE air
       IN IF link[l].phase = "sending"
          THEN Finish(l, link[l], NoLink, a)
          ELSE Rest(l, Ended(link[l]), NoLink, a)

-----------------------------------------------------------------------------

Supervisor == StartListener \/ RetryListener \/ CancelSupervisor \/ Restart

Bluetooth ==
    \/ \E c \in Centrals : StartNotify(c)
    \/ \E c \in Centrals, w \in Writes : WriteValue(c, w)
    \/ StopNotify
    \/ Confirm

Session(l) == Accept(l) \/ Receive(l) \/ Handled(l) \/ IndicationTimesOut(l)

Next == Supervisor \/ Bluetooth \/ \E l \in Links : Session(l)

(* The event loop runs every task that is ready, a wait of five seconds ends *)
(* and a network operation comes to an end; a cancelled daemon exits.        *)
Spec ==
    /\ Init /\ [][Next]_vars
    /\ \A l \in Links : WF_vars(Session(l))
    /\ WF_vars(stage = "cancelled" /\ Restart)

-----------------------------------------------------------------------------
(* Properties.                                                              *)

Phases == {"none", "accepted", "receiving", "handling", "sending", "closing", "ended"}

LinkRows ==
    [phase : Phases, central : Centrals \cup {Nobody}, closed : BOOLEAN,
     inbox : Seq(Writes \cup {"closed"}), flights : 0..Flights, authorized : BOOLEAN,
     left : Nat, late : Nat, unheard : BOOLEAN]

\* The types of the state: the supervisor's stage, the listener's flags and links.
TypeOK ==
    /\ stage \in {"starting", "ready", "degraded", "cancelled"}
    /\ subscriber \in Centrals \cup {Nobody}
    /\ notifying \in BOOLEAN
    /\ {slot, air, current} \subseteq Links \cup {NoLink}
    /\ link \in [Links -> LinkRows]

Waiting(l) == link[l].phase \in {"sending", "closing"}

\* A central is sent what the session of the listener's current link says and
\* nothing else: a session whose central has left never speaks into the
\* subscription of the next one, whatever it was waiting for meanwhile.
OnlyTheCurrentLinkSpeaks ==
    stage = "ready" /\ notifying /\ air # NoLink => air = current

\* A request that was still queued when its central left is carried out, but
\* only one: the reply that cannot be sent ends the session.
OneRequestAfterTheEnd == \A l \in Links : link[l].late <= 1

\* Every session ends once its link is closed: no network operation, lost
\* confirmation or later central keeps it.
ClosedSessionsEnd ==
    \A l \in Links : link[l].closed ~> link[l].phase = "ended"

\* "Reliable ordered byte-stream boundary implemented by the BLE adapter": an
\* indication its central has confirmed does not leave its sender waiting.
ConfirmationIsHeard == \A l \in Links : Waiting(l) => ~link[l].unheard
=============================================================================
