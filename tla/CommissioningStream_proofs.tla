--------------------- MODULE CommissioningStream_proofs ---------------------
(***************************************************************************)
(* Proofs about CommissioningStream, for any number of centrals and links, *)
(* any number of handshake flights, any length of reply and of inbox: who  *)
(* speaks into a subscription, and how much a session does after its link  *)
(* was closed.                                                             *)
(*                                                                         *)
(* The argument: a link that is not closed is the listener's current one   *)
(* (OpenIsCurrent), so a session that looked at closed before it speaks is *)
(* the current link's.  The one that does not look is the session whose    *)
(* indication was just confirmed; it is the one on the air (SlotIsOnAir),  *)
(* which is the current link's by induction.                               *)
(***************************************************************************)
EXTENDS CommissioningStream, TLAPS

Live(x) == x.phase \notin {"none", "ended"}

\* A link of its own: what was carried out after the end came with the end.
RowOK(x) ==
    /\ x.late <= 1
    /\ x.late > 0 => x.phase = "ended" /\ x.closed

RowsOK == \A l \in Links : RowOK(link[l])

\* No subscription outlives the listener that took it.
QuietBefore == stage \in {"starting", "degraded"} => ~notifying

\* A confirmation slot that is waited for while something is on the air belongs
\* to the session that sent it.
SlotIsOnAir == slot # NoLink /\ air # NoLink => slot = air

\* A session whose link is not closed is the one of the listener's current link.
OpenIsCurrent == \A l \in Links : Live(link[l]) /\ ~link[l].closed => l = current

Inv ==
    /\ TypeOK
    /\ RowsOK
    /\ QuietBefore
    /\ SlotIsOnAir
    /\ OpenIsCurrent
    /\ OnlyTheCurrentLinkSpeaks

-----------------------------------------------------------------------------
(* Rows.                                                                    *)

\* The row of a link that was never opened, and of a session that is over.
LEMMA EndRows ==
    /\ NewLink \in LinkRows /\ NewLink.phase = "none" /\ NewLink.late = 0
    /\ \A x \in LinkRows : /\ Ended(x) \in LinkRows /\ Ended(x).phase = "ended"
                            /\ Ended(x).closed = TRUE /\ Ended(x).late = x.late
<1>1. /\ Nobody \in Centrals \cup {Nobody} /\ 0 \in 0..Flights
      /\ <<>> \in Seq(Writes \cup {"closed"})
  BY BoundsAssumption DEF BoundsAssumption
<1>2. /\ NewLink \in LinkRows /\ NewLink.phase = "none" /\ NewLink.late = 0
  BY <1>1 DEF NewLink, LinkRows, Phases
<1>3. ASSUME NEW x \in LinkRows
      PROVE  /\ Ended(x) \in LinkRows /\ Ended(x).phase = "ended"
             /\ Ended(x).closed = TRUE /\ Ended(x).late = x.late
  <2>1. x.late \in Nat
    BY DEF LinkRows
  <2> QED
    BY <1>2, <2>1 DEF Ended, LinkRows, Phases
<1> QED
  BY <1>2, <1>3

\* The process starts with no link and nothing to say.
LEMMA InitInv == Init => Inv
<1> SUFFICES ASSUME Init PROVE Inv
  OBVIOUS
<1>1. \A l \in Links : link[l] = NewLink
  BY DEF Init
<1>2. TypeOK
  BY EndRows DEF Init, TypeOK
<1>3. RowsOK /\ OpenIsCurrent
  BY <1>1, EndRows DEF RowsOK, RowOK, OpenIsCurrent, Live
<1>4. QuietBefore /\ SlotIsOnAir /\ OnlyTheCurrentLinkSpeaks
  BY DEF Init, QuietBefore, SlotIsOnAir, OnlyTheCurrentLinkSpeaks
<1> QED
  BY <1>2, <1>3, <1>4 DEF Inv

-----------------------------------------------------------------------------
(* What a session does.                                                     *)

Elsewhere == UNCHANGED <<stage, subscriber, notifying, current>>

\* What the session of l knows of its row r while it runs: whether the link was
\* closed, and what it carried out since.
Held(l, r) ==
    /\ r \in LinkRows
    /\ Live(link[l]) /\ Live(r)
    /\ r.closed = link[l].closed
    /\ r.late <= 1
    /\ ~r.closed => r.late = 0

\* A session leaves a row and says nothing.
LEMMA RestLemma ==
    ASSUME Inv, Elsewhere, NEW l \in Links, NEW x \in LinkRows, RowOK(x),
           Live(x) => x.closed = link[l].closed /\ Live(link[l]),
           NEW s \in {slot, NoLink}, NEW a \in {air, NoLink}, Rest(l, x, s, a)
    PROVE  Inv'
<1>0. /\ link \in [Links -> LinkRows] /\ link' = [link EXCEPT ![l] = x]
      /\ slot' = s /\ air' = a
  BY DEF Inv, TypeOK, Rest
<1>1. /\ link' \in [Links -> LinkRows] /\ link'[l] = x
      /\ \A m \in Links \ {l} : link'[m] = link[m]
  BY <1>0
<1>2. TypeOK'
  BY <1>0, <1>1 DEF Inv, TypeOK, Elsewhere
<1>3. RowsOK'
  BY <1>1 DEF Inv, RowsOK
<1>4. OpenIsCurrent'
  BY <1>1 DEF Inv, OpenIsCurrent, Elsewhere
<1>5. QuietBefore' /\ SlotIsOnAir' /\ OnlyTheCurrentLinkSpeaks'
  BY <1>0 DEF Inv, QuietBefore, SlotIsOnAir, OnlyTheCurrentLinkSpeaks, Elsewhere
<1> QED
  BY <1>2, <1>3, <1>4, <1>5 DEF Inv

\* A session indicates something: it must be the current link's if it is heard.
LEMMA EmitLemma ==
    ASSUME Inv, Elsewhere, NEW l \in Links, NEW r, Held(l, r), r.late = 0,
           stage = "ready" => l = current, Emit(l, r)
    PROVE  Inv'
<1> DEFINE x == [r EXCEPT !.unheard = FALSE]
<1>0. /\ link \in [Links -> LinkRows] /\ link' = [link EXCEPT ![l] = x]
      /\ slot' = l /\ air' = l
  BY DEF Inv, TypeOK, Emit
<1>1. /\ x \in LinkRows /\ x.phase = r.phase /\ x.late = 0 /\ x.closed = r.closed
  BY DEF Held, LinkRows
<1> HIDE DEF x
<1>2. /\ link' \in [Links -> LinkRows] /\ link'[l] = x
      /\ \A m \in Links \ {l} : link'[m] = link[m]
  BY <1>0, <1>1
<1>3. TypeOK'
  BY <1>0, <1>2 DEF Inv, TypeOK, Elsewhere
<1>4. RowsOK'
  BY <1>1, <1>2 DEF Inv, RowsOK, RowOK
<1>5. OpenIsCurrent'
  BY <1>1, <1>2 DEF Inv, OpenIsCurrent, Elsewhere, Held, Live
<1>6. QuietBefore' /\ SlotIsOnAir' /\ OnlyTheCurrentLinkSpeaks'
  BY <1>0 DEF Inv, QuietBefore, SlotIsOnAir, OnlyTheCurrentLinkSpeaks, Elsewhere
<1> QED
  BY <1>3, <1>4, <1>5, <1>6 DEF Inv

\* close(): the farewell is only tried on a link that is not closed.
LEMMA FinishLemma ==
    ASSUME Inv, Elsewhere, NEW l \in Links, NEW r, Held(l, r),
           NEW s \in {slot, NoLink}, NEW a \in {air, NoLink}, Finish(l, r, s, a)
    PROVE  Inv'
<1> DEFINE x == [r EXCEPT !.phase = "closing"]
<1>0. x \in LinkRows /\ x.phase = "closing" /\ x.closed = r.closed /\ x.late = r.late
  BY DEF Held, LinkRows, Phases
<1>1. CASE ~r.closed /\ Emit(l, x)
  <2>1. Held(l, x) /\ x.late = 0 /\ l = current
    BY <1>0, <1>1 DEF Held, Live, Inv, OpenIsCurrent
  <2> QED
    BY <1>1, <2>1, EmitLemma
<1>2. CASE Rest(l, Ended(r), s, a)
  <2>1. Ended(r) \in LinkRows /\ RowOK(Ended(r)) /\ ~Live(Ended(r))
    BY EndRows DEF Held, RowOK, Live
  <2> QED
    BY <1>2, <2>1, RestLemma
<1> QED
  BY <1>1, <1>2 DEF Finish

\* An indication of a reply, whoever has made sure that the link may speak.
LEMMA IndicateLemma ==
    ASSUME Inv, Elsewhere, NEW l \in Links, NEW r, Held(l, r), r.late = 0,
           notifying /\ stage = "ready" => l = current,
           NEW s \in {slot, NoLink}, NEW a \in {air, NoLink}, Indicate(l, r, s, a)
    PROVE  Inv'
<1> DEFINE x == [r EXCEPT !.phase = "sending"]
<1>1. Held(l, x) /\ x.late = 0
  <2>1. x \in LinkRows /\ x.phase = "sending" /\ x.closed = r.closed /\ x.late = r.late
    BY DEF Held, LinkRows, Phases
  <2> QED
    BY <2>1 DEF Held, Live
<1>2. CASE notifying /\ Emit(l, x)
  BY <1>1, <1>2, EmitLemma
<1>3. CASE Finish(l, r, s, a)
  BY <1>3, FinishLemma
<1> QED
  BY <1>2, <1>3 DEF Indicate

\* send(): it looks at closed, and a link that is not closed is the current one.
LEMMA SendLemma ==
    ASSUME Inv, Elsewhere, NEW l \in Links, NEW r, Held(l, r),
           NEW s \in {slot, NoLink}, NEW a \in {air, NoLink}, Send(l, r, s, a)
    PROVE  Inv'
<1>1. CASE Finish(l, r, s, a)
  BY <1>1, FinishLemma
<1>2. ASSUME ~r.closed, NEW n \in 1..MaxChunks, Indicate(l, [r EXCEPT !.left = n - 1], s, a)
      PROVE  Inv'
  <2> DEFINE x == [r EXCEPT !.left = n - 1]
  <2>1. n - 1 \in Nat
    BY BoundsAssumption DEF BoundsAssumption
  <2>2. x \in LinkRows /\ x.phase = r.phase /\ x.closed = r.closed /\ x.late = r.late
    BY <2>1 DEF Held, LinkRows
  <2>3. Held(l, x) /\ x.late = 0 /\ l = current
    BY <1>2, <2>2 DEF Held, Live, Inv, OpenIsCurrent
  <2> QED
    BY <1>2, <2>3, IndicateLemma
<1> QED
  BY <1>1, <1>2 DEF Send

\* The count of what is carried out after the end.
LEMMA CountedLemma ==
    ASSUME NEW l \in Links, NEW r, Held(l, r), r.late = 0
    PROVE  Held(l, Counted(r))
<1>1. CASE r.closed
  <2> DEFINE x == [r EXCEPT !.late = @ + 1]
  <2>1. /\ x \in LinkRows /\ x.phase = r.phase /\ x.closed = r.closed /\ x.late = 1
    BY DEF Held, LinkRows
  <2>2. Counted(r) = x
    BY <1>1 DEF Counted
  <2> HIDE DEF x
  <2>3. Held(l, x)
    BY <1>1, <2>1 DEF Held, Live
  <2> QED
    BY <2>2, <2>3
<1>2. CASE ~r.closed
  BY <1>2 DEF Counted
<1> QED
  BY <1>1, <1>2

\* protocol.handle() with a request it has read.
LEMMA HandleLemma ==
    ASSUME Inv, Elsewhere, NEW l \in Links, NEW r, Held(l, r), r.late = 0,
           NEW op, Handle(l, r, op, slot, air)
    PROVE  Inv'
<1>1. ASSUME NEW ok \in BOOLEAN, Send(l, Counted([r EXCEPT !.authorized = @ \/ ok]), slot, air)
      PROVE  Inv'
  <2> DEFINE x == [r EXCEPT !.authorized = @ \/ ok]
  <2>1. x \in LinkRows /\ x.phase = r.phase /\ x.closed = r.closed /\ x.late = r.late
    BY DEF Held, LinkRows
  <2>2. Send(l, Counted(x), slot, air)
    BY <1>1
  <2> HIDE DEF x
  <2>3. Held(l, x) /\ x.late = 0
    BY <2>1 DEF Held, Live
  <2>4. Held(l, Counted(x))
    BY <2>3, CountedLemma
  <2> QED
    BY <2>2, <2>4, SendLemma
<1>2. CASE Send(l, Counted(r), slot, air)
  BY <1>2, CountedLemma, SendLemma
<1>3. CASE Rest(l, [r EXCEPT !.phase = "handling"], slot, air)
  <2> DEFINE x == [r EXCEPT !.phase = "handling"]
  <2>1. /\ x \in LinkRows /\ x.phase = "handling" /\ x.closed = r.closed /\ x.late = r.late
    BY DEF Held, LinkRows, Phases
  <2>2. RowOK(x) /\ x.closed = link[l].closed /\ Live(link[l])
    BY <2>1 DEF Held, RowOK
  <2> QED
    BY <1>3, <2>1, <2>2, RestLemma
<1> QED
  BY <1>1, <1>2, <1>3 DEF Handle

\* The row of a session that is under way, as it finds it.
LEMMA HeldRow ==
    ASSUME Inv, NEW l \in Links, Live(link[l])
    PROVE  Held(l, link[l]) /\ link[l].late = 0
<1>1. link[l] \in LinkRows /\ RowOK(link[l])
  BY DEF Inv, TypeOK, RowsOK
<1>2. link[l].late \in Nat
  BY <1>1 DEF LinkRows
<1> QED
  BY <1>1, <1>2 DEF Held, RowOK, Live

\* The session goes on with another row, in another phase.
LEMMA RestHeld ==
    ASSUME Inv, Elsewhere, NEW l \in Links, NEW x, Held(l, x), x.late = 0,
           NEW s \in {slot, NoLink}, NEW a \in {air, NoLink}, Rest(l, x, s, a)
    PROVE  Inv'
<1>1. x \in LinkRows /\ RowOK(x) /\ x.closed = link[l].closed /\ Live(link[l])
  BY DEF Held, RowOK
<1> QED
  BY <1>1, RestLemma

\* A session reads the next item of its link: handshake, part of a line, request or end.
LEMMA ReceiveInv ==
    ASSUME Inv, NEW l \in Links, Receive(l)
    PROVE  Inv'
<1> DEFINE w == Head(link[l].inbox)
           r == [link[l] EXCEPT !.inbox = Tail(@)]
<1>0. /\ Elsewhere /\ link[l].phase = "receiving" /\ link[l].inbox # <<>>
  BY DEF Receive, Elsewhere
<1>1. Held(l, link[l]) /\ link[l].late = 0 /\ link[l] \in LinkRows
  BY <1>0, HeldRow DEF Live, Held
<1>2. /\ r \in LinkRows /\ r.phase = "receiving" /\ r.closed = link[l].closed
      /\ r.late = 0 /\ r.flights = link[l].flights
  <2>1. Tail(link[l].inbox) \in Seq(Writes \cup {"closed"})
    BY <1>0, <1>1 DEF LinkRows
  <2> QED
    BY <1>0, <1>1, <2>1 DEF LinkRows
<1>3. Held(l, r)
  BY <1>1, <1>2 DEF Held, Live
<1>4. \/ r.flights # Flights /\ Send(l, [r EXCEPT !.flights = @ + 1], slot, air)
      \/ Rest(l, r, slot, air)
      \/ Handle(l, r, w, slot, air)
      \/ Finish(l, r, slot, air)
  BY DEF Receive
<1> HIDE DEF w, r
<1>5. CASE r.flights # Flights /\ Send(l, [r EXCEPT !.flights = @ + 1], slot, air)
  <2> DEFINE x == [r EXCEPT !.flights = @ + 1]
  <2>1. r.flights \in 0..Flights /\ r.flights + 1 \in 0..Flights
    BY <1>2, <1>5, BoundsAssumption DEF BoundsAssumption, LinkRows
  <2>2. x \in LinkRows /\ x.phase = r.phase /\ x.closed = r.closed /\ x.late = r.late
    BY <1>2, <2>1 DEF LinkRows
  <2>3. Held(l, x)
    BY <1>3, <2>2 DEF Held, Live
  <2> QED
    BY <1>0, <1>5, <2>3, SendLemma
<1>6. CASE Rest(l, r, slot, air)
  BY <1>0, <1>2, <1>3, <1>6, RestHeld
<1>7. CASE Handle(l, r, w, slot, air)
  BY <1>0, <1>2, <1>3, <1>7, HandleLemma
<1>8. CASE Finish(l, r, slot, air)
  BY <1>0, <1>3, <1>8, FinishLemma
<1> QED
  BY <1>4, <1>5, <1>6, <1>7, <1>8

\* A step of a session task.
LEMMA SessionInv ==
    ASSUME Inv, NEW l \in Links, Session(l)
    PROVE  Inv'
<1>1. CASE Accept(l)
  <2> DEFINE x == [link[l] EXCEPT !.phase = "receiving"]
  <2>0. Elsewhere /\ link[l].phase = "accepted" /\ Rest(l, x, slot, air)
    BY <1>1 DEF Accept, Elsewhere
  <2>1. Held(l, link[l]) /\ link[l].late = 0
    BY <2>0, HeldRow DEF Live
  <2>2. /\ x \in LinkRows /\ x.phase = "receiving" /\ x.closed = link[l].closed
        /\ x.late = link[l].late
    BY <2>1 DEF Held, LinkRows, Phases
  <2> HIDE DEF x
  <2>3. Held(l, x) /\ x.late = 0
    BY <2>1, <2>2 DEF Held, Live
  <2> QED
    BY <2>0, <2>3, RestHeld
<1>2. CASE Receive(l)
  BY <1>2, ReceiveInv
<1>3. CASE Handled(l)
  <2> DEFINE x == [link[l] EXCEPT !.phase = "receiving"]
  <2>0. /\ Elsewhere /\ link[l].phase = "handling"
        /\ Send(l, Counted(x), slot, air) \/ Finish(l, Counted(x), slot, air)
    BY <1>3 DEF Handled, Elsewhere
  <2>1. Held(l, link[l]) /\ link[l].late = 0
    BY <2>0, HeldRow DEF Live
  <2>2. /\ x \in LinkRows /\ x.phase = "receiving" /\ x.closed = link[l].closed
        /\ x.late = link[l].late
    BY <2>1 DEF Held, LinkRows, Phases
  <2> HIDE DEF x
  <2>3. Held(l, x) /\ x.late = 0
    BY <2>1, <2>2 DEF Held, Live
  <2> QED
    BY <2>0, <2>3, CountedLemma, SendLemma, FinishLemma
<1>4. CASE IndicationTimesOut(l)
  <2> DEFINE a == IF air = l THEN NoLink ELSE air
  <2>0. /\ Elsewhere /\ link[l].phase \in {"sending", "closing"}
        /\ Finish(l, link[l], NoLink, a) \/ Rest(l, Ended(link[l]), NoLink, a)
    BY <1>4 DEF IndicationTimesOut, Elsewhere
  <2>1. Held(l, link[l]) /\ link[l].late = 0 /\ a \in {air, NoLink}
    BY <2>0, HeldRow DEF Live
  <2> HIDE DEF a
  <2>2. /\ Ended(link[l]) \in LinkRows /\ RowOK(Ended(link[l])) /\ ~Live(Ended(link[l]))
    BY <2>1, EndRows DEF Held, RowOK, Live
  <2>3. NoLink \in {slot, NoLink}
    OBVIOUS
  <2> QED
    BY <2>0, <2>1, <2>2, <2>3, FinishLemma, RestLemma
<1> QED
  BY <1>1, <1>2, <1>3, <1>4 DEF Session

\* The session that goes on after a confirmation does not look at closed; it is the
\* one that was on the air.
LEMMA ConfirmInv ==
    ASSUME Inv, Confirm
    PROVE  Inv'
<1>0. /\ Elsewhere /\ stage = "ready" /\ air # NoLink
      /\ air \in Links /\ slot \in Links \cup {NoLink} /\ link \in [Links -> LinkRows]
  BY DEF Confirm, Elsewhere, Inv, TypeOK
<1>1. CASE slot # NoLink
  <2> DEFINE r == link[slot]
             x == [r EXCEPT !.left = @ - 1]
             y == [r EXCEPT !.phase = "receiving"]
  <2>0. /\ slot \in Links /\ slot = air
        /\ notifying => slot = current
        /\ Onward(slot, r, NoLink, NoLink)
    BY <1>0, <1>1 DEF Confirm, Inv, SlotIsOnAir, OnlyTheCurrentLinkSpeaks
  <2>1. r.phase \in {"sending", "closing"}
    BY <2>0 DEF Onward
  <2>2. Held(slot, r) /\ r.late = 0 /\ r \in LinkRows
    BY <1>0, <2>0, <2>1, HeldRow DEF Live
  <2>3. NoLink \in {slot, NoLink} /\ NoLink \in {air, NoLink}
    OBVIOUS
  <2>4. \/ r.left > 0 /\ Indicate(slot, x, NoLink, NoLink)
        \/ Rest(slot, y, NoLink, NoLink)
        \/ Rest(slot, Ended(r), NoLink, NoLink)
    BY <2>0 DEF Onward
  <2> HIDE DEF r
  <2>5. CASE r.left > 0 /\ Indicate(slot, x, NoLink, NoLink)
    <3>1. r.left \in Nat /\ r.left - 1 \in Nat
      BY <2>2, <2>5 DEF LinkRows
    <3>2. x \in LinkRows /\ x.phase = r.phase /\ x.closed = r.closed /\ x.late = r.late
      BY <2>2, <3>1 DEF LinkRows
    <3>3. Held(slot, x) /\ x.late = 0
      BY <2>2, <3>2 DEF Held, Live
    <3> QED
      BY <1>0, <2>0, <2>3, <2>5, <3>3, IndicateLemma
  <2>6. CASE Rest(slot, y, NoLink, NoLink)
    <3>1. y \in LinkRows /\ y.phase = "receiving" /\ y.closed = r.closed /\ y.late = r.late
      BY <2>2 DEF LinkRows, Phases
    <3> HIDE DEF y
    <3>2. Held(slot, y) /\ y.late = 0
      BY <2>2, <3>1 DEF Held, Live
    <3> QED
      BY <1>0, <2>0, <2>3, <2>6, <3>2, RestHeld
  <2>7. CASE Rest(slot, Ended(r), NoLink, NoLink)
    <3>1. Ended(r) \in LinkRows /\ RowOK(Ended(r)) /\ ~Live(Ended(r))
      BY <2>2, EndRows DEF RowOK, Live
    <3> QED
      BY <1>0, <2>0, <2>3, <2>7, <3>1, RestLemma
  <2> QED
    BY <2>4, <2>5, <2>6, <2>7
<1>2. CASE slot = NoLink
  <2> DEFINE x == [link[air] EXCEPT !.unheard = TRUE]
  <2>0. Rest(air, x, slot, NoLink)
    BY <1>2 DEF Confirm
  <2>1. link[air] \in LinkRows /\ RowOK(link[air])
    BY <1>0 DEF Inv, RowsOK
  <2>2. /\ x \in LinkRows /\ x.phase = link[air].phase /\ x.closed = link[air].closed
        /\ x.late = link[air].late
    BY <2>1 DEF LinkRows
  <2> HIDE DEF x
  <2>3. RowOK(x) /\ (Live(x) => x.closed = link[air].closed /\ Live(link[air]))
    BY <2>1, <2>2 DEF RowOK, Live
  <2>4. slot \in {slot, NoLink} /\ NoLink \in {air, NoLink}
    OBVIOUS
  <2> QED
    BY <1>0, <2>0, <2>2, <2>3, <2>4, RestLemma
<1> QED
  BY <1>1, <1>2

-----------------------------------------------------------------------------
(* What the supervisor and BlueZ do.                                        *)

\* The listener closes its current link: whatever the others are, it then has no
\* link, and no link is open.
LEMMA CloseLemma ==
    ASSUME Inv, CentralDisconnected
    PROVE  /\ link' \in [Links -> LinkRows] /\ RowsOK' /\ OpenIsCurrent'
           /\ current' = NoLink
<1>0. /\ link \in [Links -> LinkRows] /\ current \in Links \cup {NoLink}
      /\ current' = NoLink /\ link' = CloseCurrent(link)
  BY DEF Inv, TypeOK, CentralDisconnected
<1>1. CASE current = NoLink \/ link[current].closed
  <2>1. link' = link
    BY <1>0, <1>1 DEF CloseCurrent
  <2>2. ASSUME NEW l \in Links PROVE ~(Live(link[l]) /\ ~link[l].closed)
    <3>1. Live(link[l]) /\ ~link[l].closed => l = current
      BY DEF Inv, OpenIsCurrent
    <3>2. l # NoLink
      BY LinksAssumption DEF LinksAssumption, NoLink
    <3> QED
      BY <1>1, <3>1, <3>2
  <2> QED
    BY <1>0, <2>1, <2>2 DEF Inv, RowsOK, OpenIsCurrent
<1>2. CASE current \in Links /\ ~link[current].closed
  <2> DEFINE x == [link[current] EXCEPT !.closed = TRUE, !.central = Nobody,
                                        !.inbox = Append(@, "closed")]
  <2>1. current # NoLink
    BY <1>2, LinksAssumption DEF LinksAssumption, NoLink
  <2>2. link' = [link EXCEPT ![current] = x]
    BY <1>0, <1>2, <2>1 DEF CloseCurrent
  <2>3. link[current] \in LinkRows /\ RowOK(link[current])
    BY <1>0, <1>2 DEF Inv, RowsOK
  <2>4. /\ x \in LinkRows /\ x.phase = link[current].phase /\ x.closed = TRUE
        /\ x.late = link[current].late
    <3>1. Append(link[current].inbox, "closed") \in Seq(Writes \cup {"closed"})
      BY <2>3 DEF LinkRows
    <3> QED
      BY <2>3, <3>1 DEF LinkRows
  <2> HIDE DEF x
  <2>5. /\ link' \in [Links -> LinkRows] /\ link'[current] = x
        /\ \A l \in Links \ {current} : link'[l] = link[l]
    BY <1>0, <1>2, <2>2, <2>4
  <2>6. RowsOK'
    BY <2>3, <2>4, <2>5 DEF Inv, RowsOK, RowOK
  <2>7. ASSUME NEW l \in Links PROVE ~(Live(link'[l]) /\ ~link'[l].closed)
    BY <2>4, <2>5 DEF Inv, OpenIsCurrent
  <2> QED
    BY <1>0, <2>5, <2>6, <2>7 DEF OpenIsCurrent
<1> QED
  BY <1>0, <1>1, <1>2

\* A step of the supervisor, or the process restarts.
LEMMA SupervisorInv ==
    ASSUME Inv, Supervisor
    PROVE  Inv'
<1>1. CASE StartListener \/ RetryListener
  <2>1. TypeOK' /\ RowsOK' /\ OpenIsCurrent'
    BY <1>1 DEF StartListener, RetryListener, Inv, TypeOK, RowsOK, OpenIsCurrent
  <2>2. QuietBefore' /\ SlotIsOnAir' /\ OnlyTheCurrentLinkSpeaks'
    BY <1>1 DEF StartListener, RetryListener, Inv, QuietBefore, SlotIsOnAir,
                OnlyTheCurrentLinkSpeaks
  <2> QED
    BY <2>1, <2>2 DEF Inv
<1>2. CASE CancelSupervisor
  <2>1. /\ link' \in [Links -> LinkRows] /\ RowsOK' /\ OpenIsCurrent'
        /\ current' = NoLink
    BY <1>2, CloseLemma DEF CancelSupervisor
  <2>2. TypeOK'
    BY <1>2, <2>1 DEF CancelSupervisor, Inv, TypeOK
  <2>3. QuietBefore' /\ SlotIsOnAir' /\ OnlyTheCurrentLinkSpeaks'
    BY <1>2 DEF CancelSupervisor, QuietBefore, SlotIsOnAir, OnlyTheCurrentLinkSpeaks
  <2> QED
    BY <2>1, <2>2, <2>3 DEF Inv
<1>3. CASE Restart
  <2>1. ASSUME NEW l \in Links
        PROVE  link'[l] \in LinkRows /\ RowOK(link'[l]) /\ ~Live(link'[l])
    <3>1. link[l] \in LinkRows /\ RowOK(link[l])
      BY DEF Inv, TypeOK, RowsOK
    <3>2. link'[l] = NewLink \/ link'[l] = Ended(link[l])
      BY <1>3 DEF Restart
    <3>3. RowOK(NewLink) /\ ~Live(NewLink)
      BY EndRows DEF RowOK, Live
    <3>4. RowOK(Ended(link[l])) /\ ~Live(Ended(link[l]))
      BY <3>1, EndRows DEF RowOK, Live
    <3> QED
      BY <3>1, <3>2, <3>3, <3>4, EndRows
  <2>2. link' \in [Links -> LinkRows]
    <3>1. link' = [l \in Links |-> link'[l]]
      BY <1>3 DEF Restart
    <3> QED
      BY <2>1, <3>1
  <2>3. TypeOK' /\ RowsOK' /\ OpenIsCurrent'
    BY <1>3, <2>1, <2>2 DEF Restart, TypeOK, RowsOK, OpenIsCurrent
  <2>4. QuietBefore' /\ SlotIsOnAir' /\ OnlyTheCurrentLinkSpeaks'
    BY <1>3 DEF Restart, QuietBefore, SlotIsOnAir, OnlyTheCurrentLinkSpeaks
  <2> QED
    BY <2>3, <2>4 DEF Inv
<1> QED
  BY <1>1, <1>2, <1>3 DEF Supervisor

\* A write is queued in a link that is open, and is the current one afterwards.
LEMMA FeedLemma ==
    ASSUME Inv, NEW l \in Links, NEW x \in LinkRows, NEW w \in Writes,
           x.late = 0, ~x.closed, current' = l,
           link' = [link EXCEPT ![l] = [x EXCEPT !.inbox = Append(@, w)]],
           \A m \in Links \ {l} : ~(Live(link[m]) /\ ~link[m].closed)
    PROVE  link' \in [Links -> LinkRows] /\ RowsOK' /\ OpenIsCurrent'
<1> DEFINE y == [x EXCEPT !.inbox = Append(@, w)]
<1>1. /\ y \in LinkRows /\ y.late = 0
  <2>1. Append(x.inbox, w) \in Seq(Writes \cup {"closed"})
    BY DEF LinkRows
  <2> QED
    BY <2>1 DEF LinkRows
<1>2. link' = [link EXCEPT ![l] = y]
  OBVIOUS
<1> HIDE DEF y
<1>3. /\ link' \in [Links -> LinkRows] /\ link'[l] = y
      /\ \A m \in Links \ {l} : link'[m] = link[m]
  BY <1>1, <1>2 DEF Inv, TypeOK
<1>4. RowsOK'
  BY <1>1, <1>3 DEF Inv, RowsOK, RowOK
<1>5. OpenIsCurrent'
  BY <1>3 DEF OpenIsCurrent
<1> QED
  BY <1>3, <1>4, <1>5

\* A write opens a link only while the listener has none.
LEMMA WriteInv ==
    ASSUME Inv, NEW c \in Centrals, NEW w \in Writes, WriteValue(c, w)
    PROVE  Inv'
<1>0. /\ stage = "ready" /\ notifying /\ UNCHANGED <<stage, subscriber, notifying, slot, air>>
      /\ link \in [Links -> LinkRows] /\ current \in Links \cup {NoLink} /\ NoLink \notin Links
  BY LinksAssumption DEF WriteValue, Inv, TypeOK, LinksAssumption, NoLink
<1>1. /\ link' \in [Links -> LinkRows] /\ RowsOK' /\ OpenIsCurrent'
      /\ current' \in Links /\ (current # NoLink => current' = current)
  <2>1. ASSUME NEW l \in Links, current = NoLink, Fresh(l), current' = l,
               Feed([link EXCEPT ![l].phase = "accepted", ![l].central = c], l, w)
        PROVE  link' \in [Links -> LinkRows] /\ RowsOK' /\ OpenIsCurrent'
    <3> DEFINE x == [link[l] EXCEPT !.phase = "accepted", !.central = c]
               ls == [link EXCEPT ![l].phase = "accepted", ![l].central = c]
    <3>1. link[l] \in LinkRows /\ RowOK(link[l]) /\ link[l].phase = "none"
      BY <1>0, <2>1 DEF Inv, RowsOK, Fresh
    <3>2. link[l].late \in Nat /\ link[l].late = 0
      BY <3>1 DEF RowOK, LinkRows
    <3>3. ls = [link EXCEPT ![l] = x]
      BY <1>0
    <3>4. /\ x \in LinkRows /\ x.late = link[l].late
      BY <3>1 DEF LinkRows, Phases
    <3>5. ~ls[l].closed /\ link' = [ls EXCEPT ![l].inbox = Append(@, w)]
      BY <2>1 DEF Feed
    <3> HIDE DEF x, ls
    <3>6. /\ ~x.closed
          /\ link' = [link EXCEPT ![l] = [x EXCEPT !.inbox = Append(@, w)]]
      BY <1>0, <3>3, <3>5
    <3>7. \A m \in Links \ {l} : ~(Live(link[m]) /\ ~link[m].closed)
      BY <1>0, <2>1 DEF Inv, OpenIsCurrent
    <3> QED
      BY <2>1, <3>2, <3>4, <3>6, <3>7, FeedLemma
  <2>2. ASSUME current # NoLink, link[current].central = c, Feed(link, current, w),
               UNCHANGED current
        PROVE  link' \in [Links -> LinkRows] /\ RowsOK' /\ OpenIsCurrent'
    <3>0. current \in Links
      BY <1>0, <2>2
    <3>1. /\ ~link[current].closed
          /\ link' = [link EXCEPT ![current].inbox = Append(@, w)]
      BY <2>2 DEF Feed
    <3>2. /\ \A m \in Links \ {current} : ~(Live(link[m]) /\ ~link[m].closed)
      BY DEF Inv, OpenIsCurrent
    <3>3. link[current] \in LinkRows /\ RowOK(link[current])
      BY <1>0, <3>0 DEF Inv, RowsOK
    <3>4. link[current].late \in Nat /\ link[current].late = 0
      BY <3>1, <3>3 DEF RowOK, LinkRows
    <3>5. link' = [link EXCEPT ![current] = [link[current] EXCEPT !.inbox = Append(@, w)]]
      BY <1>0, <3>0, <3>1
    <3> QED
      BY <2>2, <3>0, <3>1, <3>2, <3>3, <3>4, <3>5, FeedLemma
  <2> QED
    BY <1>0, <2>1, <2>2 DEF WriteValue, CentralData
<1>2. TypeOK'
  BY <1>0, <1>1 DEF Inv, TypeOK
<1>3. QuietBefore' /\ SlotIsOnAir' /\ OnlyTheCurrentLinkSpeaks'
  BY <1>0, <1>1 DEF Inv, QuietBefore, SlotIsOnAir, OnlyTheCurrentLinkSpeaks
<1> QED
  BY <1>1, <1>2, <1>3 DEF Inv

\* A call by BlueZ.
LEMMA BluetoothInv ==
    ASSUME Inv, Bluetooth
    PROVE  Inv'
<1>1. ASSUME NEW c \in Centrals, StartNotify(c) PROVE Inv'
  <2>1. TypeOK' /\ RowsOK' /\ OpenIsCurrent'
    BY <1>1 DEF StartNotify, Inv, TypeOK, RowsOK, OpenIsCurrent
  <2>2. QuietBefore' /\ SlotIsOnAir' /\ OnlyTheCurrentLinkSpeaks'
    BY <1>1 DEF StartNotify, QuietBefore, SlotIsOnAir, OnlyTheCurrentLinkSpeaks
  <2> QED
    BY <2>1, <2>2 DEF Inv
<1>2. CASE StopNotify
  <2>1. /\ link' \in [Links -> LinkRows] /\ RowsOK' /\ OpenIsCurrent'
        /\ current' = NoLink
    BY <1>2, CloseLemma DEF StopNotify
  <2>2. TypeOK'
    BY <1>2, <2>1 DEF StopNotify, Inv, TypeOK
  <2>3. QuietBefore' /\ SlotIsOnAir' /\ OnlyTheCurrentLinkSpeaks'
    BY <1>2 DEF StopNotify, Inv, QuietBefore, SlotIsOnAir, OnlyTheCurrentLinkSpeaks
  <2> QED
    BY <2>1, <2>2, <2>3 DEF Inv
<1> QED
  BY <1>1, <1>2, WriteInv, ConfirmInv DEF Bluetooth

\* The inductive invariant: RowsOK, QuietBefore, SlotIsOnAir and OpenIsCurrent are
\* what the two properties of the links and sessions need.
THEOREM Invariance == Spec => []Inv
<1>1. Inv /\ [Next]_vars => Inv'
  <2> SUFFICES ASSUME Inv, [Next]_vars PROVE Inv'
    OBVIOUS
  <2>1. CASE UNCHANGED vars
    BY <2>1 DEF vars, Inv, TypeOK, RowsOK, QuietBefore, SlotIsOnAir, OpenIsCurrent,
                OnlyTheCurrentLinkSpeaks
  <2> QED
    BY <2>1, SupervisorInv, BluetoothInv, SessionInv DEF Next
<1> QED
  BY <1>1, InitInv, PTL DEF Spec

\* The listener's fields and its links keep their types.
THEOREM TypeCorrect == Spec => []TypeOK
BY Invariance, PTL DEF Inv

\* A session speaks into a subscription only while its link is the listener's
\* current one: for any centrals and links, and whatever was awaited meanwhile.
THEOREM OneSpeaker == Spec => []OnlyTheCurrentLinkSpeaks
BY Invariance, PTL DEF Inv

\* At most one request of a session is carried out after its link was closed.
THEOREM OneLateRequest == Spec => []OneRequestAfterTheEnd
<1>1. Inv => OneRequestAfterTheEnd
  BY DEF Inv, RowsOK, RowOK, OneRequestAfterTheEnd
<1> QED
  BY <1>1, Invariance, PTL
=============================================================================
