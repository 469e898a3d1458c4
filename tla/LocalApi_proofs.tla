--------------------------- MODULE LocalApi_proofs ---------------------------
(***************************************************************************)
(* Proofs about LocalApi, for any phones, tokens, requests, inputs, epochs *)
(* and any capacity of the session store.                                  *)
(***************************************************************************)
EXTENDS LocalApi, TLAPS

SessionMaps == [Tokens -> Sessions \cup {NoSession}]

\* What a request x knows when sessions are ss: the session it was made in is
\* still there and has not changed hands, and its arguments fit its kind.
TaskOK(x, ss) ==
    /\ x.token # NoToken => /\ ss[x.token] \in Sessions
                            /\ ss[x.token].controller = x.by
                            /\ ss[x.token].epoch = x.epoch
    /\ x.at \in {"validate", "ask", "sign"} => x.token # NoToken
    /\ x.at \in {"prove", "issue"} => x.token = NoToken
    /\ x.at # "idle" => x.by \in Controllers
    /\ x.kind = "setup" => x.input \in Inputs
    /\ x.at = "init" => x.kind = "setup"
    /\ x.kind = "revoke" => x.target \in Controllers
    /\ x.at \in {"withdraw", "revoke"} => x.kind = "revoke"

\* Every token of the store, and of a request, stands for a session.
SessionsOK ==
    /\ \A t \in Range(store) : session[t] \in Sessions
    /\ \A r \in Requests : TaskOK(task[r], session)

LocalTypes ==
    /\ store \in Seq(Tokens) /\ Len(store) <= Capacity
    /\ session \in SessionMaps
    /\ task \in [Requests -> Tasks]

\* ss remembers an Owner nowhere
NoOwner(ss) == \A t \in Tokens : ss[t] \in Sessions => ss[t].owner # "owner"

\* Without a Workspace nobody has an Owner scope, and the Hub knows no phone.
ScopeOK ==
    workspace = Absent =>
        /\ \A c \in Controllers : standing[c] = "none"
        /\ NoOwner(session)
        /\ \A r \in Requests : task[r].at \notin {"record", "withdraw"}

Inv == TypeOK /\ SessionsOK /\ SetupIsExclusive /\ RemovalEndsStanding /\ ScopeOK

-----------------------------------------------------------------------------
(* The session store.                                                       *)

\* The tokens of a store are its elements.
LEMMA InRange ==
    ASSUME NEW st \in Seq(Tokens)
    PROVE  /\ \A i \in 1..Len(st) : st[i] \in Range(st)
           /\ \A t \in Range(st) : \E i \in 1..Len(st) : t = st[i]
  BY DEF Range

\* A store without its oldest session has every other one.
LEMMA TailLemma ==
    ASSUME NEW st \in Seq(Tokens), st # <<>>
    PROVE  /\ Tail(st) \in Seq(Tokens) /\ Len(Tail(st)) = Len(st) - 1
           /\ Range(Tail(st)) \subseteq Range(st)
           /\ Range(st) \ Range(Tail(st)) \subseteq {Head(st)}
<1>1. Tail(st) \in Seq(Tokens) /\ Len(Tail(st)) = Len(st) - 1
  OBVIOUS
<1>2. \A i \in 1..Len(Tail(st)) : Tail(st)[i] = st[i + 1]
  OBVIOUS
<1>3. Range(Tail(st)) \subseteq Range(st)
  BY <1>1, <1>2 DEF Range
<1>4. ASSUME NEW i \in 1..Len(st), i # 1 PROVE st[i] \in Range(Tail(st))
  <2>1. PICK j \in 1..Len(Tail(st)) : j + 1 = i
    <3>1. i - 1 \in 1..Len(Tail(st)) /\ (i - 1) + 1 = i
      BY <1>1, <1>4
    <3> QED
      BY <3>1
  <2>2. Tail(st)[j] = st[i]
    BY <1>2, <2>1
  <2> QED
    BY <1>1, <2>2, InRange
<1>5. Range(st) \ Range(Tail(st)) \subseteq {Head(st)}
  BY <1>4 DEF Range
<1> QED
  BY <1>1, <1>3, <1>5

\* revoke takes one session out of the store.
LEMMA RevokedLemma ==
    ASSUME NEW st \in Seq(Tokens), NEW t
    PROVE  /\ Revoked(st, t) \in Seq(Tokens) /\ Len(Revoked(st, t)) <= Len(st)
           /\ Range(Revoked(st, t)) \subseteq Range(st)
           /\ Range(st) \ Range(Revoked(st, t)) \subseteq {t}
<1>1. CASE t \notin Range(st)
  BY <1>1 DEF Revoked
<1>2. CASE t \in Range(st)
  <2> DEFINE i == CHOOSE j \in DOMAIN st : st[j] = t
             new == SubSeq(st, 1, i - 1) \o SubSeq(st, i + 1, Len(st))
  <2>1. i \in 1..Len(st) /\ st[i] = t
    BY <1>2 DEF Range
  <2>2. Revoked(st, t) = new
    BY <1>2 DEF Revoked, RemoveAt
  <2> HIDE DEF i
  <2>3. /\ SubSeq(st, 1, i - 1) \in Seq(Tokens) /\ Len(SubSeq(st, 1, i - 1)) = i - 1
        /\ \A j \in 1..(i - 1) : SubSeq(st, 1, i - 1)[j] = st[j]
    BY <2>1
  <2>4. /\ SubSeq(st, i + 1, Len(st)) \in Seq(Tokens)
        /\ Len(SubSeq(st, i + 1, Len(st))) = Len(st) - i
        /\ \A j \in 1..(Len(st) - i) : SubSeq(st, i + 1, Len(st))[j] = st[i + j]
    BY <2>1
  <2>5. /\ new \in Seq(Tokens) /\ Len(new) = Len(st) - 1
        /\ \A j \in 1..(i - 1) : new[j] = st[j]
        /\ \A j \in i..(Len(st) - 1) : new[j] = st[j + 1]
    <3> DEFINE a == SubSeq(st, 1, i - 1)
               b == SubSeq(st, i + 1, Len(st))
    <3> HIDE DEF a, b
    <3>1. /\ a \in Seq(Tokens) /\ Len(a) = i - 1 /\ b \in Seq(Tokens)
          /\ Len(b) = Len(st) - i /\ i \in Nat /\ Len(st) \in Nat /\ new = a \o b
      BY <2>1, <2>3, <2>4 DEF a, b
    <3>2. /\ a \o b \in Seq(Tokens) /\ Len(a \o b) = Len(st) - 1
          /\ \A j \in 1..(i - 1) : (a \o b)[j] = a[j]
      BY <2>1, <3>1, SMTT(30)
    <3>3. ASSUME NEW j \in i..(Len(st) - 1) PROVE new[j] = st[j + 1]
      <4>0. j \in 1..(Len(a) + Len(b)) /\ j > Len(a)
        BY <2>1, <3>1
      <4>1. (a \o b)[j] = b[j - Len(a)]
        BY <3>1, <4>0
      <4>2. j - Len(a) \in 1..(Len(st) - i) /\ i + (j - Len(a)) = j + 1
        BY <2>1, <3>1
      <4>3. b[j - Len(a)] = st[i + (j - Len(a))]
        BY <2>4, <4>2 DEF b
      <4> QED
        BY <3>1, <4>1, <4>2, <4>3
    <3> QED
      BY <2>3, <3>1, <3>2, <3>3 DEF a
  <2> HIDE DEF new
  <2>6. Range(new) \subseteq Range(st)
    <3> SUFFICES ASSUME NEW j \in 1..Len(new) PROVE new[j] \in Range(st)
      BY <2>5, InRange
    <3>1. CASE j \in 1..(i - 1)
      BY <2>1, <2>5, <3>1, InRange
    <3>2. CASE j \in i..(Len(st) - 1)
      <4>1. j + 1 \in 1..Len(st)
        BY <2>1, <3>2
      <4> QED
        BY <2>5, <3>2, <4>1, InRange
    <3> QED
      BY <2>1, <2>5, <3>1, <3>2
  <2>7. ASSUME NEW j \in 1..Len(st), j # i PROVE st[j] \in Range(new)
    <3>1. CASE j < i
      BY <2>1, <2>5, <3>1 DEF Range
    <3>2. CASE j > i
      <4>1. j - 1 \in 1..Len(new) /\ new[j - 1] = st[j]
        BY <2>1, <2>5, <3>2
      <4> QED
        BY <2>5, <4>1 DEF Range
    <3> QED
      BY <2>1, <2>7, <3>1, <3>2
  <2>8. Range(st) \ Range(new) \subseteq {t}
    BY <2>1, <2>7 DEF Range
  <2> QED
    BY <2>2, <2>5, <2>6, <2>8
<1> QED
  BY <1>1, <1>2

\* issue makes room and adds one session.
LEMMA IssueLemma ==
    ASSUME NEW st \in Seq(Tokens), Len(st) <= Capacity, NEW t \in Tokens
    PROVE  /\ Kept(st) \in Seq(Tokens) /\ Range(Kept(st)) \subseteq Range(st)
           /\ Append(Kept(st), t) \in Seq(Tokens) /\ Len(Append(Kept(st), t)) <= Capacity
           /\ Range(Append(Kept(st), t)) = Range(Kept(st)) \cup {t}
           /\ Range(st) \ Range(Kept(st)) \subseteq {Head(st)}
           /\ Range(Kept(st)) # Range(st) => Len(st) >= Capacity
<1>1. /\ Kept(st) \in Seq(Tokens) /\ Range(Kept(st)) \subseteq Range(st)
      /\ Len(Kept(st)) < Capacity
      /\ Range(st) \ Range(Kept(st)) \subseteq {Head(st)}
      /\ Range(Kept(st)) # Range(st) => Len(st) >= Capacity
  BY TailLemma, BoundsAssumption DEF BoundsAssumption, Kept
<1> DEFINE kept == Kept(st)
<1>2. kept \in Seq(Tokens) /\ Len(kept) \in Nat /\ Len(kept) < Capacity
  BY <1>1
<1> HIDE DEF kept
<1>3. /\ Append(kept, t) \in Seq(Tokens) /\ Len(Append(kept, t)) <= Capacity
      /\ Range(Append(kept, t)) = Range(kept) \cup {t}
  <2>1. /\ Append(kept, t) \in Seq(Tokens) /\ Len(Append(kept, t)) = Len(kept) + 1
        /\ \A i \in 1..Len(kept) : Append(kept, t)[i] = kept[i]
        /\ Append(kept, t)[Len(kept) + 1] = t
    BY <1>2
  <2>2. Range(Append(kept, t)) \subseteq Range(kept) \cup {t}
    <3> SUFFICES ASSUME NEW u \in Range(Append(kept, t)) PROVE u \in Range(kept) \cup {t}
      OBVIOUS
    <3>0. PICK i \in 1..Len(Append(kept, t)) : u = Append(kept, t)[i]
      BY <2>1, InRange
    <3>1. CASE i \in 1..Len(kept)
      BY <1>2, <2>1, <3>0, <3>1, InRange
    <3> QED
      BY <1>2, <2>1, <3>0, <3>1
  <2>3. Range(kept) \subseteq Range(Append(kept, t))
    <3> SUFFICES ASSUME NEW u \in Range(kept) PROVE u \in Range(Append(kept, t))
      OBVIOUS
    <3>0. PICK i \in 1..Len(kept) : u = kept[i]
      BY <1>2, InRange
    <3>1. i \in 1..Len(Append(kept, t)) /\ kept[i] = Append(kept, t)[i]
      BY <1>2, <2>1
    <3> QED
      BY <2>1, <3>0, <3>1, InRange
  <2>4. Len(kept) + 1 \in 1..Len(Append(kept, t))
    BY <1>2, <2>1
  <2>5. t \in Range(Append(kept, t))
    BY <2>1, <2>4, InRange
  <2> QED
    BY <1>2, <2>1, <2>2, <2>3, <2>5, BoundsAssumption DEF BoundsAssumption
<1> QED
  BY <1>1, <1>3 DEF kept

-----------------------------------------------------------------------------
(* The process.                                                             *)

\* The initial state satisfies the invariant.
LEMMA InitInv == Init => Inv
<1> SUFFICES ASSUME Init PROVE Inv
  OBVIOUS
<1>1. Idle \in Tasks
  BY BoundsAssumption DEF BoundsAssumption, Idle, Tasks, Waits, Kinds
<1>2. TypeOK
  BY <1>1, BoundsAssumption
     DEF BoundsAssumption, Init, TypeOK, Grants!GrantsInit, Sessions
<1>3. SessionsOK
  BY DEF Init, SessionsOK, TaskOK, Idle, Range
<1>4. SetupIsExclusive /\ RemovalEndsStanding /\ ScopeOK
  BY NoSessionAssumption
     DEF Init, SetupIsExclusive, RemovalEndsStanding, ScopeOK, NoOwner, Idle,
         NoSessionAssumption
<1> QED
  BY <1>2, <1>3, <1>4 DEF Inv

\* Sessions that are referred to survive a step of the process.
LEMMA LocallyLemma ==
    ASSUME NEW st \in Seq(Tokens), Len(st) <= Capacity, NEW ss \in SessionMaps,
           NEW tk \in [Requests -> Tasks], Locally(st, ss, tk),
           \A t \in Range(st) : ss[t] \in Sessions,
           \A r \in Requests : TaskOK(tk[r], ss)
    PROVE  LocalTypes' /\ SessionsOK' /\ store' = st /\ task' = tk
<1>1. store' = st /\ task' = tk
  BY DEF Locally
<1>2. session' \in SessionMaps
  BY DEF Locally, SessionMaps
<1>3. \A t \in Range(st) : t \in Tokens /\ session'[t] = ss[t]
  BY InRange DEF Locally
<1>4. \A r \in Requests : TaskOK(tk[r], session')
  <2> SUFFICES ASSUME NEW r \in Requests PROVE TaskOK(tk[r], session')
    OBVIOUS
  <2>1. tk[r] \in Tasks
    OBVIOUS
  <2>2. CASE tk[r].token = NoToken
    BY <2>2 DEF TaskOK
  <2>3. CASE tk[r].token # NoToken
    <3>1. tk[r].token \in Tokens
      BY <2>1, <2>3 DEF Tasks
    <3>2. session'[tk[r].token] = ss[tk[r].token]
      BY <3>1 DEF Locally
    <3> QED
      BY <3>2 DEF TaskOK
  <2> QED
    BY <2>2, <2>3
<1> QED
  BY <1>1, <1>2, <1>3, <1>4 DEF LocalTypes, SessionsOK

\* Sessions change only as the step says.
LEMMA SessionsLemma ==
    ASSUME NEW st, NEW ss, NEW tk, Locally(st, ss, tk)
    PROVE  \A t \in Tokens : session'[t] \in Sessions => session'[t] = ss[t]
  BY NoSessionAssumption DEF Locally, NoSessionAssumption

\* ss is the sessions with nothing changed but what they remember of the Owner
Keeps(ss) ==
    \A t \in Tokens : session[t] \in Sessions =>
        /\ ss[t] \in Sessions
        /\ ss[t].controller = session[t].controller /\ ss[t].epoch = session[t].epoch

\* Bootstrap, Data, the Hub and what phones were told
OthersOK ==
    /\ epoch \in 0..MaxEpoch /\ holders \subseteq Controllers
    /\ workspace \in Inputs \cup {Absent}
    /\ standing \in [Controllers -> {"none", "recorded", "renewed", "withdrawn"}]
    /\ ready \subseteq Inputs /\ SetupIsExclusive

\* The parts of the invariant.
LEMMA InvParts ==
    Inv <=> LocalTypes /\ SessionsOK /\ OthersOK /\ RemovalEndsStanding /\ ScopeOK
  BY DEF Inv, TypeOK, LocalTypes, OthersOK, SessionMaps

\* Others' requests keep what they know.
LEMMA TasksKeep ==
    ASSUME Inv, NEW ss, Keeps(ss), NEW q \in Requests
    PROVE  TaskOK(task[q], ss)
<1>1. task[q] \in Tasks /\ TaskOK(task[q], session)
  BY DEF Inv, TypeOK, SessionsOK
<1>2. task[q].token # NoToken => task[q].token \in Tokens
  BY <1>1 DEF Tasks
<1> QED
  BY <1>1, <1>2 DEF TaskOK, Keeps

\* A request moves on and the store stays as it is.
LEMMA GoesLemma ==
    ASSUME Inv, NEW r \in Requests, NEW x \in Tasks, NEW ss \in SessionMaps, Keeps(ss),
           TaskOK(x, ss), Locally(store, ss, Goes(r, x))
    PROVE  /\ LocalTypes' /\ SessionsOK' /\ store' = store /\ task' = [task EXCEPT ![r] = x]
           /\ \A t \in Tokens : session'[t] \in Sessions => session'[t] = ss[t]
<1> DEFINE tk == Goes(r, x)
<1>1. /\ store \in Seq(Tokens) /\ Len(store) <= Capacity /\ task \in [Requests -> Tasks]
      /\ \A t \in Range(store) : session[t] \in Sessions
  BY DEF Inv, TypeOK, SessionsOK
<1>2. /\ tk \in [Requests -> Tasks] /\ tk = [task EXCEPT ![r] = x]
      /\ \A q \in Requests : tk[q] = IF q = r THEN x ELSE task[q]
  BY <1>1 DEF Goes
<1> HIDE DEF tk
<1>3. \A t \in Range(store) : ss[t] \in Sessions
  BY <1>1, InRange DEF Keeps
<1>4. \A q \in Requests : TaskOK(tk[q], ss)
  BY <1>2, TasksKeep
<1>5. Locally(store, ss, tk)
  BY DEF tk
<1>6. LocalTypes' /\ SessionsOK' /\ store' = store /\ task' = tk
  BY <1>1, <1>2, <1>3, <1>4, <1>5, LocallyLemma
<1> QED
  BY <1>2, <1>5, <1>6, SessionsLemma

\* The Hub does not come to admit devices for a phone whose removal is with Bootstrap,
\* except by renewing.
StaysEnded ==
    \A q \in Requests : task[q].at = "revoke" => standing'[task[q].target] # "recorded"

\* While there is no Workspace the Hub learns nothing, and ss remembers no Owner.
StaysUnscoped(ss) ==
    workspace' = Absent => workspace = Absent /\ standing' = standing /\ NoOwner(ss)

\* A request moves on, whatever its call did elsewhere.
LEMMA StepLemma ==
    ASSUME Inv, NEW r \in Requests, NEW x \in Tasks, NEW ss \in SessionMaps, Keeps(ss),
           TaskOK(x, ss), Locally(store, ss, Goes(r, x)), OthersOK',
           StaysEnded, StaysUnscoped(ss),
           x.at = "revoke" => standing'[x.target] # "recorded",
           workspace' = Absent => x.at \notin {"record", "withdraw"}
    PROVE  Inv' /\ store' = store
<1>1. /\ LocalTypes' /\ SessionsOK' /\ store' = store /\ task' = [task EXCEPT ![r] = x]
      /\ \A t \in Tokens : session'[t] \in Sessions => session'[t] = ss[t]
  BY GoesLemma
<1>2. /\ task'[r] = x
      /\ \A q \in Requests \ {r} : task'[q] = task[q]
  BY <1>1 DEF Inv, TypeOK
<1>3. RemovalEndsStanding'
  BY <1>2 DEF RemovalEndsStanding, StaysEnded
<1>4. ScopeOK'
  <2> SUFFICES ASSUME workspace' = Absent
               PROVE  /\ \A c \in Controllers : standing'[c] = "none"
                      /\ NoOwner(session')
                      /\ \A q \in Requests : task'[q].at \notin {"record", "withdraw"}
    BY DEF ScopeOK
  <2>1. workspace = Absent /\ standing' = standing /\ NoOwner(ss)
    BY DEF StaysUnscoped
  <2>2. NoOwner(session')
    BY <1>1, <2>1 DEF NoOwner
  <2> QED
    BY <1>2, <2>1, <2>2 DEF Inv, ScopeOK
<1> QED
  BY <1>1, <1>3, <1>4, InvParts DEF Inv, TypeOK, LocalTypes, OthersOK, SessionMaps

\* Requests end and sessions go, and nothing changes outside the process.
LEMMA QuietLemma ==
    ASSUME Inv, UNCHANGED <<workspace, standing>>,
           \A t \in Tokens : session'[t] \in Sessions =>
              session'[t].owner = "unresolved" \/ session'[t] = session[t],
           \A q \in Requests :
              \/ task'[q].at \notin {"record", "withdraw", "revoke"}
              \/ task'[q].at = task[q].at /\ task'[q].target = task[q].target
    PROVE  RemovalEndsStanding' /\ ScopeOK'
<1>1. RemovalEndsStanding'
  BY DEF Inv, RemovalEndsStanding
<1>2. ScopeOK'
  BY DEF Inv, ScopeOK, NoOwner
<1> QED
  BY <1>1, <1>2

\* A request that is over knows nothing.
LEMMA IdleLemma == Idle \in Tasks /\ \A ss : TaskOK(Idle, ss)
  BY BoundsAssumption DEF BoundsAssumption, Idle, Tasks, Waits, Kinds, TaskOK

\* The sessions as they are.
LEMMA SameSessions == Inv => session \in SessionMaps /\ Keeps(session)
  BY DEF Inv, TypeOK, SessionMaps, Keeps

\* A request is answered.
LEMMA AnswerLemma ==
    ASSUME Inv, NEW r \in Requests, Answer(r), OthersOK', StaysEnded, StaysUnscoped(session)
    PROVE  Inv'
<1>1. Locally(store, session, Goes(r, Idle))
  BY DEF Answer, Ended
<1>2. Idle.at = "idle"
  BY DEF Idle
<1> QED
  BY <1>1, <1>2, IdleLemma, SameSessions, StepLemma

\* A request waits for its next call.
LEMMA WaitingLemma ==
    ASSUME Inv, NEW r \in Requests, NEW w \in Waits \ {"prove", "issue"}, NEW ss, Keeps(ss),
           task[r].at # "idle",
           w \in {"validate", "ask", "sign"} => task[r].token # NoToken,
           w = "init" => task[r].kind = "setup",
           w \in {"withdraw", "revoke"} => task[r].kind = "revoke"
    PROVE  LET x == [task[r] EXCEPT !.at = w]
           IN  x \in Tasks /\ TaskOK(x, ss) /\ x.at = w /\ x.target = task[r].target
<1>1. task[r] \in Tasks /\ TaskOK(task[r], ss)
  BY TasksKeep DEF Inv, TypeOK
<1> DEFINE x == [task[r] EXCEPT !.at = w]
<1>2. /\ x \in Tasks /\ x.at = w /\ x.kind = task[r].kind /\ x.by = task[r].by
      /\ x.epoch = task[r].epoch /\ x.token = task[r].token /\ x.target = task[r].target
      /\ x.input = task[r].input
  BY <1>1 DEF Tasks
<1> HIDE DEF x
<1>3. TaskOK(x, ss)
  BY <1>1, <1>2 DEF TaskOK
<1> QED
  BY <1>2, <1>3 DEF x

\* The request waits, its sessions are ss and the call changed nothing elsewhere.
LEMMA WaitsLemma ==
    ASSUME Inv, NEW r \in Requests, NEW w \in Waits \ {"prove", "issue"},
           NEW ss \in SessionMaps, Keeps(ss),
           task[r].at # "idle",
           w \in {"validate", "ask", "sign"} => task[r].token # NoToken,
           w = "init" => task[r].kind = "setup",
           w \in {"withdraw", "revoke"} => task[r].kind = "revoke",
           Locally(store, ss, Waiting(r, w)), OthersOK', StaysEnded, StaysUnscoped(ss),
           w = "revoke" => standing'[task[r].target] # "recorded",
           workspace' = Absent => w \notin {"record", "withdraw"}
    PROVE  Inv'
<1> DEFINE x == [task[r] EXCEPT !.at = w]
<1>1. x \in Tasks /\ TaskOK(x, ss) /\ x.at = w /\ x.target = task[r].target
  BY WaitingLemma
<1>2. Locally(store, ss, Goes(r, x))
  BY DEF Waiting
<1> HIDE DEF x
<1> QED
  BY <1>1, <1>2, StepLemma

\* Nothing changes outside the process.
LEMMA OthersStay ==
    ASSUME Inv, UNCHANGED <<authority, workspace, standing, ready>>
    PROVE  OthersOK' /\ StaysEnded /\ StaysUnscoped(session)
<1>1. OthersOK'
  BY DEF Inv, TypeOK, OthersOK, SetupIsExclusive, authority
<1>2. StaysEnded /\ StaysUnscoped(session)
  BY DEF Inv, RemovalEndsStanding, StaysEnded, ScopeOK, StaysUnscoped
<1> QED
  BY <1>1, <1>2

-----------------------------------------------------------------------------
(* One lemma per action.                                                    *)

\* A phone asks for a challenge, or a session makes a request.
LEMMA BeginInv ==
    ASSUME Inv, NEW r \in Requests,
           Ask(r) \/ \E c \in Controllers : ControllerChallenge(r, c)
    PROVE  Inv'
<1>1. ASSUME NEW c \in Controllers, ControllerChallenge(r, c) PROVE Inv'
  <2> DEFINE x == [Idle EXCEPT !.at = "prove", !.kind = "login", !.by = c]
  <2>0. Idle.token = NoToken
    BY DEF Idle
  <2>1. /\ x \in Tasks /\ x.at = "prove" /\ x.kind = "login" /\ x.by = c
        /\ x.token = NoToken
    BY <2>0, IdleLemma DEF Tasks, Waits, Kinds
  <2>2. Locally(store, session, Goes(r, x))
    BY <1>1 DEF ControllerChallenge
  <2>3. UNCHANGED <<authority, workspace, standing, ready>>
    BY <1>1 DEF ControllerChallenge
  <2> HIDE DEF x
  <2>4. TaskOK(x, session)
    BY <2>1 DEF TaskOK
  <2> QED
    BY <2>1, <2>2, <2>3, <2>4, OthersStay, SameSessions, StepLemma
<1>2. ASSUME NEW t \in Tokens, NEW kind \in Kinds, NEW target \in Controllers \cup {Nobody},
             NEW input \in Inputs \cup {Absent}, Begin(r, t, kind, target, input),
             kind = "setup" => input \in Inputs, kind = "revoke" => target \in Controllers
      PROVE  Inv'
  <2> DEFINE x == [Idle EXCEPT !.at = "validate", !.kind = kind, !.token = t,
                               !.by = session[t].controller, !.epoch = session[t].epoch,
                               !.target = target, !.input = input]
  <2>1. session[t] \in Sessions
    BY <1>2 DEF Begin, Inv, SessionsOK
  <2>2. session[t].controller \in Controllers /\ session[t].epoch \in 0..MaxEpoch
    BY <2>1 DEF Sessions
  <2>3. /\ x \in Tasks /\ x.at = "validate" /\ x.kind = kind /\ x.token = t
        /\ x.by = session[t].controller /\ x.epoch = session[t].epoch
        /\ x.target = target /\ x.input = input
    BY <2>2, IdleLemma DEF Tasks, Waits
  <2>4. /\ Locally(store, session, Goes(r, x))
        /\ UNCHANGED <<authority, workspace, standing, ready>>
    BY <1>2 DEF Begin
  <2> HIDE DEF x
  <2>5. TaskOK(x, session)
    BY <1>2, <2>1, <2>2, <2>3, NamesAssumption DEF NamesAssumption, TaskOK
  <2> QED
    BY <2>3, <2>4, <2>5, OthersStay, SameSessions, StepLemma
<1> QED
  BY <1>1, <1>2 DEF Ask, GetWorkspace, SetUp, IssueCommissioningVoucher,
                    DeleteController, Kinds

\* Bootstrap answers the proof of a challenge.
LEMMA AuthenticateInv ==
    ASSUME Inv, NEW r \in Requests, AuthenticateController(r)
    PROVE  Inv'
<1>0. task[r].at = "prove" /\ UNCHANGED <<authority, workspace, standing, ready>>
  BY DEF AuthenticateController
<1> DEFINE x == [task[r] EXCEPT !.at = "issue", !.epoch = epoch]
<1>1. CASE Locally(store, session, Goes(r, x))
  <2>1. task[r] \in Tasks /\ TaskOK(task[r], session) /\ epoch \in 0..MaxEpoch
    BY DEF Inv, TypeOK, SessionsOK
  <2>2. /\ x \in Tasks /\ x.at = "issue" /\ x.kind = task[r].kind /\ x.by = task[r].by
        /\ x.token = task[r].token /\ x.target = task[r].target /\ x.input = task[r].input
    BY <2>1 DEF Tasks, Waits
  <2>3. task[r].token = NoToken
    BY <1>0 DEF Inv, SessionsOK, TaskOK
  <2> HIDE DEF x
  <2>4. TaskOK(x, session)
    BY <1>0, <2>1, <2>2, <2>3 DEF TaskOK
  <2> QED
    BY <1>0, <1>1, <2>2, <2>4, OthersStay, SameSessions, StepLemma
<1>2. CASE Answer(r)
  BY <1>0, <1>2, OthersStay, AnswerLemma
<1> QED
  BY <1>1, <1>2 DEF AuthenticateController

\* A session is issued; the one that would expire first makes room.
LEMMA IssueInv ==
    ASSUME Inv, NEW r \in Requests, Issue(r)
    PROVE  Inv'
<1>0. task[r].at = "issue" /\ UNCHANGED <<authority, workspace, standing, ready>>
  BY DEF Issue
<1>1. PICK t \in Tokens :
        /\ t \notin Range(Kept(store))
        /\ \A q \in Requests : task[q].token # t
        /\ Locally(Append(Kept(store), t),
                   [session EXCEPT ![t] = [controller |-> task[r].by,
                                           epoch |-> task[r].epoch,
                                           owner |-> "unresolved"]],
                   Ended(r))
  BY Zenon DEF Issue
<1> DEFINE new == [controller |-> task[r].by, epoch |-> task[r].epoch,
                   owner |-> "unresolved"]
           ss == [session EXCEPT ![t] = new]
           st == Append(Kept(store), t)
           tk == Ended(r)
<1>2. task[r] \in Tasks /\ task[r].by \in Controllers /\ task[r].epoch \in 0..MaxEpoch
  <2>1. task[r] \in Tasks /\ TaskOK(task[r], session)
    BY DEF Inv, TypeOK, SessionsOK
  <2> QED
    BY <1>0, <2>1 DEF Tasks, TaskOK
<1>3. new \in Sessions
  BY <1>2 DEF Sessions
<1>4. /\ session \in SessionMaps /\ store \in Seq(Tokens) /\ Len(store) <= Capacity
      /\ task \in [Requests -> Tasks]
  BY DEF Inv, TypeOK, SessionMaps
<1> HIDE DEF new
<1>5. /\ ss \in SessionMaps /\ ss[t] = new
      /\ \A u \in Tokens \ {t} : ss[u] = session[u]
  BY <1>3, <1>4 DEF SessionMaps
<1>6. /\ tk \in [Requests -> Tasks] /\ tk = [task EXCEPT ![r] = Idle]
      /\ \A q \in Requests : tk[q] = IF q = r THEN Idle ELSE task[q]
  BY <1>4, IdleLemma DEF Ended, Goes
<1>7. /\ st \in Seq(Tokens) /\ Len(st) <= Capacity /\ Range(st) = Range(Kept(store)) \cup {t}
      /\ Range(Kept(store)) \subseteq Range(store)
  BY <1>4, IssueLemma
<1>8. Locally(st, ss, tk)
  BY <1>1 DEF new
<1> HIDE DEF ss, st, tk
<1>9. \A u \in Range(st) : ss[u] \in Sessions
  <2>1. \A u \in Range(store) : u \in Tokens /\ session[u] \in Sessions
    BY <1>4, InRange DEF Inv, SessionsOK
  <2> QED
    BY <1>1, <1>3, <1>5, <1>7, <2>1
<1>10. ASSUME NEW q \in Requests PROVE TaskOK(tk[q], ss)
  <2>1. CASE q = r
    BY <1>6, <2>1, IdleLemma
  <2>2. CASE q # r
    <3>1. tk[q] = task[q] /\ task[q] \in Tasks /\ TaskOK(task[q], session)
      BY <1>6, <2>2 DEF Inv, TypeOK, SessionsOK
    <3>2. task[q].token # NoToken => ss[task[q].token] = session[task[q].token]
      BY <1>1, <1>5, <3>1 DEF Tasks
    <3> QED
      BY <3>1, <3>2 DEF TaskOK
  <2> QED
    BY <2>1, <2>2
<1>a. \A u \in Tokens : session'[u] \in Sessions => session'[u] = ss[u]
  BY <1>8, SessionsLemma
<1>11. LocalTypes' /\ SessionsOK' /\ task' = tk
  BY <1>5, <1>6, <1>7, <1>8, <1>9, <1>10, LocallyLemma
<1>12. RemovalEndsStanding' /\ ScopeOK'
  <2>1. Idle.at = "idle" /\ new.owner = "unresolved"
    BY DEF Idle, new
  <2>2. \A u \in Tokens : session'[u] \in Sessions =>
          session'[u].owner = "unresolved" \/ session'[u] = session[u]
    BY <1>5, <1>a, <2>1
  <2>3. \A q \in Requests :
          \/ task'[q].at \notin {"record", "withdraw", "revoke"}
          \/ task'[q].at = task[q].at /\ task'[q].target = task[q].target
    BY <1>6, <1>11, <2>1
  <2> QED
    BY <1>0, <2>2, <2>3, QuietLemma
<1> QED
  BY <1>0, <1>11, <1>12, OthersStay
     DEF Inv, TypeOK, LocalTypes, OthersOK, SessionMaps

\* A session leaves the store: what requests know of it stays with them.
LEMMA LeavesLemma ==
    ASSUME Inv, NEW st \in Seq(Tokens), Len(st) <= Capacity, Range(st) \subseteq Range(store),
           NEW tk \in [Requests -> Tasks], Locally(st, session, tk),
           \A q \in Requests : tk[q] \in {task[q], Idle},
           UNCHANGED <<authority, workspace, standing, ready>>
    PROVE  Inv'
<1>1. \A t \in Range(st) : session[t] \in Sessions
  BY DEF Inv, SessionsOK
<1>2. \A q \in Requests : TaskOK(tk[q], session)
  BY IdleLemma DEF Inv, SessionsOK
<1>a. \A t \in Tokens : session'[t] \in Sessions => session'[t] = session[t]
  BY SessionsLemma
<1>3. LocalTypes' /\ SessionsOK' /\ task' = tk
  BY <1>1, <1>2, SameSessions, LocallyLemma
<1>4. RemovalEndsStanding' /\ ScopeOK'
  <2>1. Idle.at = "idle"
    BY DEF Idle
  <2>2. \A q \in Requests :
          \/ task'[q].at \notin {"record", "withdraw", "revoke"}
          \/ task'[q].at = task[q].at /\ task'[q].target = task[q].target
    BY <1>3, <2>1
  <2> QED
    BY <1>a, <2>2, QuietLemma
<1> QED
  BY <1>3, <1>4, OthersStay DEF Inv, TypeOK, LocalTypes, OthersOK, SessionMaps

\* The clock reaches the expiry of the oldest session.
LEMMA ExpireInv ==
    ASSUME Inv, Expire
    PROVE  Inv'
<1>1. /\ store \in Seq(Tokens) /\ store # <<>> /\ Len(store) <= Capacity
      /\ task \in [Requests -> Tasks] /\ Locally(Tail(store), session, task)
      /\ UNCHANGED <<authority, workspace, standing, ready>>
  BY DEF Expire, Inv, TypeOK
<1>2. /\ Tail(store) \in Seq(Tokens) /\ Len(Tail(store)) <= Capacity
      /\ Range(Tail(store)) \subseteq Range(store)
  BY <1>1, TailLemma, BoundsAssumption DEF BoundsAssumption
<1> QED
  BY <1>1, <1>2, LeavesLemma

\* Bootstrap validates the session of a request.
LEMMA ValidateInv ==
    ASSUME Inv, NEW r \in Requests, ValidateController(r)
    PROVE  Inv'
<1>0. /\ task[r].at = "validate" /\ UNCHANGED <<authority, workspace, standing, ready>>
      /\ task[r].token # NoToken
  BY DEF ValidateController, Inv, SessionsOK, TaskOK
<1>1. ASSUME NEW w \in {"ask", "record"}, Locally(store, session, Waiting(r, w)),
             w = "record" => workspace # Absent
      PROVE  Inv'
  <2>1. w \in Waits \ {"prove", "issue"} /\ w \notin {"init", "withdraw", "sign", "revoke"}
    BY DEF Waits
  <2> QED
    BY <1>0, <1>1, <2>1, OthersStay, SameSessions, WaitsLemma
<1>2. CASE Answer(r)
  BY <1>0, <1>2, OthersStay, AnswerLemma
<1>3. CASE Locally(store, session, AfterMemo(r))
  <2>1. task[r] \in Tasks /\ TaskOK(task[r], session)
    BY DEF Inv, TypeOK, SessionsOK
  <2>2. task[r].token \in Tokens /\ session[task[r].token] \in Sessions
    BY <1>0, <2>1 DEF Tasks, TaskOK
  <2>3. Memo(r) = "owner" => workspace # Absent
    BY <2>2 DEF Memo, Inv, ScopeOK, NoOwner
  <2> QED
    BY <1>1, <1>2, <1>3, <2>3 DEF AfterMemo, Answer
<1>4. CASE Locally(Revoked(store, task[r].token), session, Ended(r))
  <2> DEFINE st == Revoked(store, task[r].token)
             tk == Ended(r)
  <2>1. store \in Seq(Tokens) /\ Len(store) <= Capacity /\ task \in [Requests -> Tasks]
    BY DEF Inv, TypeOK
  <2>2. st \in Seq(Tokens) /\ Len(st) <= Len(store) /\ Range(st) \subseteq Range(store)
    BY <2>1, RevokedLemma
  <2>3. tk \in [Requests -> Tasks] /\ \A q \in Requests : tk[q] \in {task[q], Idle}
    BY <2>1, IdleLemma DEF Ended, Goes
  <2>4. Locally(st, session, tk)
    BY <1>4
  <2> HIDE DEF st, tk
  <2>5. Len(st) <= Capacity
    BY <2>1, <2>2, BoundsAssumption DEF BoundsAssumption
  <2> QED
    BY <1>0, <2>2, <2>3, <2>4, <2>5, LeavesLemma
<1> QED
  BY <1>2, <1>3, <1>4 DEF ValidateController

\* The session remembers the Owner and nothing else.
LEMMA RemembersLemma ==
    ASSUME Inv, NEW r \in Requests, task[r].token # NoToken,
           NEW memo \in {"absent", "owner"}
    PROVE  LET ss == [session EXCEPT ![task[r].token].owner = memo]
           IN  /\ ss \in SessionMaps /\ Keeps(ss)
               /\ memo = "absent" /\ NoOwner(session) => NoOwner(ss)
<1> DEFINE t == task[r].token
           ss == [session EXCEPT ![t].owner = memo]
<1>1. t \in Tokens /\ session \in SessionMaps /\ session[t] \in Sessions
  <2>1. task[r] \in Tasks /\ TaskOK(task[r], session)
    BY DEF Inv, TypeOK, SessionsOK
  <2> QED
    BY <2>1 DEF Tasks, TaskOK, Inv, TypeOK, SessionMaps
<1>2. ss[t] = [session[t] EXCEPT !.owner = memo] /\ \A u \in Tokens \ {t} : ss[u] = session[u]
  BY <1>1 DEF SessionMaps
<1>3. /\ ss[t] \in Sessions /\ ss[t].controller = session[t].controller
      /\ ss[t].epoch = session[t].epoch /\ ss[t].owner = memo
  BY <1>1, <1>2 DEF Sessions
<1>4. ss \in SessionMaps
  BY <1>1, <1>3 DEF SessionMaps
<1>5. Keeps(ss)
  BY <1>2, <1>3, Zenon DEF Keeps
<1>6. memo = "absent" /\ NoOwner(session) => NoOwner(ss)
  <2> HIDE DEF ss, t
  <2> QED
    BY <1>2, <1>3 DEF NoOwner
<1> QED
  BY <1>4, <1>5, <1>6

\* A phone is told that its Host is set up: its input is the Workspace's.
LEMMA ReadyLemma ==
    ASSUME Inv, NEW r \in Requests, task[r].token # NoToken, task[r].kind = "setup",
           Ready(r), workspace' = task[r].input, workspace \in {Absent, task[r].input},
           UNCHANGED <<authority, standing>>
    PROVE  Inv'
<1> DEFINE ss == [session EXCEPT ![task[r].token].owner = "owner"]
<1>1. ss \in SessionMaps /\ Keeps(ss)
  BY RemembersLemma
<1>2. Locally(store, ss, Goes(r, Idle)) /\ ready' = ready \cup {task[r].input}
  BY DEF Ready, Ended
<1>3. task[r].input \in Inputs
  BY DEF Inv, SessionsOK, TaskOK
<1>4. OthersOK'
  <2>1. ready \subseteq Inputs /\ ready \subseteq {workspace} /\ Absent \notin Inputs
    BY NamesAssumption DEF NamesAssumption, Inv, TypeOK, SetupIsExclusive
  <2>2. SetupIsExclusive' /\ ready' \subseteq Inputs
    BY <1>2, <1>3, <2>1 DEF SetupIsExclusive
  <2> QED
    BY <1>3, <2>2 DEF Inv, TypeOK, OthersOK, authority
<1>5. Idle.at = "idle" /\ workspace' # Absent
  BY <1>3, NamesAssumption DEF NamesAssumption, Idle
<1>6. StaysEnded /\ StaysUnscoped(ss)
  BY <1>5 DEF Inv, RemovalEndsStanding, StaysEnded, StaysUnscoped
<1> HIDE DEF ss
<1> QED
  BY <1>1, <1>2, <1>4, <1>5, <1>6, IdleLemma, StepLemma

\* Data says what it has.
LEMMA ReadWorkspaceInv ==
    ASSUME Inv, NEW r \in Requests, ReadWorkspace(r)
    PROVE  Inv'
<1>0. /\ task[r].at = "ask" /\ UNCHANGED <<authority, workspace, standing>>
      /\ task[r].token # NoToken
  BY DEF ReadWorkspace, Inv, SessionsOK, TaskOK
<1>1. ASSUME Answer(r), UNCHANGED ready PROVE Inv'
  BY <1>0, <1>1, OthersStay, AnswerLemma
<1>2. ASSUME NEW w \in {"init", "revoke", "withdraw"}, Locally(store, session, Waiting(r, w)),
             w = "init" => task[r].kind = "setup", w # "init" => task[r].kind = "revoke",
             w = "revoke" => workspace = Absent, w = "withdraw" => workspace # Absent,
             UNCHANGED ready
      PROVE  Inv'
  <2>1. w \in Waits \ {"prove", "issue"} /\ w \notin {"validate", "ask", "sign", "record"}
    BY DEF Waits
  <2>2. w = "revoke" => standing'[task[r].target] # "recorded"
    <3> SUFFICES ASSUME w = "revoke" PROVE standing'[task[r].target] # "recorded"
      OBVIOUS
    <3>1. task[r].target \in Controllers
      BY <1>2 DEF Inv, SessionsOK, TaskOK
    <3> QED
      BY <1>0, <1>2, <3>1 DEF Inv, ScopeOK
  <2> QED
    BY <1>0, <1>2, <2>1, <2>2, OthersStay, SameSessions, WaitsLemma
<1>3. CASE ScopeResolved(r)
  <2> DEFINE memo == IF workspace = Absent THEN "absent" ELSE "owner"
  <2>0. Remembered(r) = [session EXCEPT ![task[r].token].owner = memo] /\ UNCHANGED ready
    BY <1>3 DEF Remembered, ScopeResolved
  <2>a. memo \in {"absent", "owner"} /\ (workspace = Absent => memo = "absent")
    OBVIOUS
  <2> HIDE DEF memo
  <2>1. /\ Remembered(r) \in SessionMaps /\ Keeps(Remembered(r))
        /\ memo = "absent" /\ NoOwner(session) => NoOwner(Remembered(r))
    BY <1>0, <2>0, <2>a, RemembersLemma
  <2>b. OthersOK' /\ StaysEnded /\ StaysUnscoped(Remembered(r))
    BY <1>0, <2>0, <2>a, <2>1, OthersStay DEF StaysUnscoped
  <2>2. CASE workspace # Absent /\ Locally(store, Remembered(r), Waiting(r, "record"))
    <3>1. "record" \in Waits \ {"prove", "issue"}
      BY DEF Waits
    <3> QED
      BY <1>0, <2>1, <2>2, <2>b, <3>1, WaitsLemma
  <2>3. CASE Locally(store, Remembered(r), Ended(r))
    <3>1. Idle.at = "idle"
      BY DEF Idle
    <3> QED
      BY <1>0, <2>1, <2>3, <2>b, <3>1, IdleLemma, StepLemma DEF Ended
  <2> QED
    BY <1>3, <2>2, <2>3 DEF ScopeResolved
<1>4. CASE SetupResolved(r)
  BY <1>0, <1>1, <1>2, <1>4, ReadyLemma DEF SetupResolved
<1>5. CASE RemovalResolved(r)
  BY <1>2, <1>5 DEF RemovalResolved
<1> QED
  BY <1>0, <1>1, <1>3, <1>4, <1>5 DEF ReadWorkspace

\* Data makes the Workspace, or finds the one that was made from this input.
LEMMA InitializeInv ==
    ASSUME Inv, NEW r \in Requests, InitializeWorkspace(r)
    PROVE  Inv'
<1>0. /\ task[r].at = "init" /\ task[r].kind = "setup" /\ task[r].input \in Inputs
      /\ workspace \in {Absent, task[r].input} /\ workspace' = task[r].input
      /\ UNCHANGED <<authority, standing>>
  BY DEF InitializeWorkspace, Inv, SessionsOK, TaskOK
<1>1. CASE Answer(r) /\ UNCHANGED ready
  <2>1. ready \subseteq Inputs /\ ready \subseteq {workspace} /\ Absent \notin Inputs
    BY NamesAssumption DEF NamesAssumption, Inv, TypeOK, SetupIsExclusive
  <2>2. SetupIsExclusive' /\ ready' \subseteq Inputs
    BY <1>0, <1>1, <2>1 DEF SetupIsExclusive
  <2>3. OthersOK'
    BY <1>0, <2>2 DEF Inv, TypeOK, OthersOK, authority
  <2>4. StaysEnded /\ StaysUnscoped(session)
    BY <1>0, <2>1 DEF Inv, RemovalEndsStanding, StaysEnded, StaysUnscoped
  <2> QED
    BY <1>0, <1>1, <2>3, <2>4, AnswerLemma
<1>2. CASE Alive(r) /\ Ready(r)
  BY <1>0, <1>2, ReadyLemma DEF Alive
<1> QED
  BY <1>1, <1>2 DEF InitializeWorkspace

\* The Hub's word on one phone changes; it is not a fresh record while the phone is
\* past its withdrawal.
LEMMA StandingLemma ==
    ASSUME Inv, NEW c \in Controllers, NEW v \in {"recorded", "renewed", "withdrawn"},
           v = "recorded" => ~PastWithdrawal(c), workspace # Absent,
           standing' = [standing EXCEPT ![c] = v], UNCHANGED <<authority, workspace, ready>>
    PROVE  OthersOK' /\ StaysEnded /\ StaysUnscoped(session) /\ standing'[c] = v
<1>1. standing \in [Controllers -> {"none", "recorded", "renewed", "withdrawn"}]
  BY DEF Inv, TypeOK
<1>2. OthersOK' /\ standing'[c] = v
  BY <1>1 DEF Inv, TypeOK, OthersOK, SetupIsExclusive, authority
<1>3. StaysEnded
  <2> SUFFICES ASSUME NEW q \in Requests, task[q].at = "revoke"
               PROVE  standing'[task[q].target] # "recorded"
    BY DEF StaysEnded
  <2>1. task[q].target \in Controllers
    BY DEF Inv, SessionsOK, TaskOK
  <2>2. CASE task[q].target = c
    BY <1>2, <2>2 DEF PastWithdrawal
  <2>3. CASE task[q].target # c
    BY <1>1, <2>1, <2>3 DEF Inv, RemovalEndsStanding
  <2> QED
    BY <2>2, <2>3
<1> QED
  BY <1>2, <1>3 DEF StaysUnscoped

\* The Hub is asked to record, or to withdraw, the standing of a phone.
LEMMA StandingInv ==
    ASSUME Inv, NEW r \in Requests, RecordStanding(r) \/ WithdrawController(r)
    PROVE  Inv'
<1>0. TaskOK(task[r], session) /\ workspace # Absent
  <2>1. task[r].at \in {"record", "withdraw"}
    BY DEF RecordStanding, WithdrawController
  <2> QED
    BY <2>1 DEF Inv, SessionsOK, ScopeOK
<1>1. CASE RecordStanding(r)
  <2>0. /\ task[r].at = "record" /\ task[r].by \in Controllers
        /\ UNCHANGED <<authority, workspace, ready>>
    BY <1>0, <1>1 DEF RecordStanding, TaskOK
  <2> DEFINE v == IF PastWithdrawal(task[r].by) THEN "renewed" ELSE "recorded"
  <2>1. standing' = standing \/ standing' = [standing EXCEPT ![task[r].by] = v]
    BY <1>1 DEF RecordStanding, HubAnswers
  <2>2. v \in {"recorded", "renewed", "withdrawn"} /\ (v = "recorded" => ~PastWithdrawal(task[r].by))
    OBVIOUS
  <2> HIDE DEF v
  <2>3. OthersOK' /\ StaysEnded /\ StaysUnscoped(session)
    BY <1>0, <2>0, <2>1, <2>2, StandingLemma, OthersStay
  <2>4. "sign" \in Waits \ {"prove", "issue"}
    BY DEF Waits
  <2>5. CASE Answer(r)
    BY <2>3, <2>5, AnswerLemma
  <2>6. CASE Alive(r) /\ Locally(store, session, Waiting(r, "sign"))
    BY <2>0, <2>3, <2>4, <2>6, SameSessions, WaitsLemma DEF Alive
  <2> QED
    BY <1>1, <2>5, <2>6 DEF RecordStanding
<1>2. CASE WithdrawController(r)
  <2>0. /\ task[r].at = "withdraw" /\ task[r].kind = "revoke" /\ task[r].target \in Controllers
        /\ UNCHANGED <<authority, workspace, ready>>
        /\ standing' = [standing EXCEPT ![task[r].target] = "withdrawn"]
    BY <1>0, <1>2 DEF WithdrawController, TaskOK
  <2>1. /\ OthersOK' /\ StaysEnded /\ StaysUnscoped(session)
        /\ standing'[task[r].target] = "withdrawn"
    BY <1>0, <2>0, StandingLemma
  <2>2. "revoke" \in Waits \ {"prove", "issue"}
    BY DEF Waits
  <2>3. CASE Answer(r)
    BY <2>1, <2>3, AnswerLemma
  <2>4. CASE Alive(r) /\ Locally(store, session, Waiting(r, "revoke"))
    BY <2>0, <2>1, <2>2, <2>4, SameSessions, WaitsLemma
  <2> QED
    BY <1>2, <2>3, <2>4 DEF WithdrawController
<1> QED
  BY <1>1, <1>2

\* A voucher is signed, a call fails, or Bootstrap removes a phone.
LEMMA EndsInv ==
    ASSUME Inv, NEW r \in Requests, SignVoucher(r) \/ CallFails(r) \/ RevokeController(r)
    PROVE  Inv'
<1>1. CASE SignVoucher(r) \/ CallFails(r)
  BY <1>1, OthersStay, AnswerLemma DEF SignVoucher, CallFails
<1>2. CASE RevokeController(r)
  <2>1. /\ Answer(r) /\ UNCHANGED <<workspace, standing, ready>>
        /\ holders' \subseteq holders /\ epoch' = epoch
    BY <1>2 DEF RevokeController, Grants!Revoke
  <2>2. OthersOK'
    BY <2>1 DEF Inv, TypeOK, OthersOK, SetupIsExclusive
  <2>3. StaysEnded /\ StaysUnscoped(session)
    BY <2>1 DEF Inv, RemovalEndsStanding, StaysEnded, ScopeOK, StaysUnscoped
  <2> QED
    BY <2>1, <2>2, <2>3, AnswerLemma
<1> QED
  BY <1>1, <1>2

\* A phone claims the Host, or the authority is reset.
LEMMA AuthorityInv ==
    ASSUME Inv, ClaimHost \/ ResetHost
    PROVE  Inv'
<1>1. UNCHANGED <<local, workspace, standing, ready>>
  BY DEF ClaimHost, ResetHost
<1>2. epoch' \in 0..MaxEpoch /\ holders' \subseteq Controllers
  <2>1. CASE ClaimHost
    BY <2>1 DEF ClaimHost, Grants!Grant, Inv, TypeOK
  <2>2. CASE ResetHost
    BY <2>2, BoundsAssumption DEF BoundsAssumption, ResetHost, Grants!Reset, Inv, TypeOK
  <2> QED
    BY <2>1, <2>2
<1>3. TypeOK'
  BY <1>1, <1>2 DEF Inv, TypeOK, local
<1>4. SessionsOK' /\ SetupIsExclusive' /\ RemovalEndsStanding' /\ ScopeOK'
  BY <1>1 DEF Inv, SessionsOK, SetupIsExclusive, RemovalEndsStanding, ScopeOK, NoOwner, local
<1> QED
  BY <1>3, <1>4 DEF Inv

\* The process restarts: calls under way lose their session, the rest is gone.
LEMMA RestartInv ==
    ASSUME Inv, Restart
    PROVE  Inv'
<1> DEFINE tk == [r \in Requests |-> IF task[r].at \in {"init", "record", "withdraw", "revoke"}
                                     THEN [task[r] EXCEPT !.token = NoToken] ELSE Idle]
<1>1. Locally(<<>>, session, tk) /\ UNCHANGED <<authority, workspace, standing, ready>>
  BY DEF Restart
<1>2. ASSUME NEW q \in Requests
      PROVE  /\ tk[q] \in Tasks /\ TaskOK(tk[q], session)
             /\ tk[q].at = "idle" \/ (tk[q].at = task[q].at /\ tk[q].target = task[q].target)
  <2>1. CASE task[q].at \in {"init", "record", "withdraw", "revoke"}
    <3> DEFINE x == [task[q] EXCEPT !.token = NoToken]
    <3>1. task[q] \in Tasks /\ TaskOK(task[q], session)
      BY DEF Inv, TypeOK, SessionsOK
    <3>2. /\ x \in Tasks /\ x.at = task[q].at /\ x.kind = task[q].kind
          /\ x.by = task[q].by /\ x.token = NoToken /\ x.target = task[q].target
          /\ x.input = task[q].input
      BY <3>1 DEF Tasks
    <3>3. tk[q] = x
      BY <2>1
    <3> HIDE DEF x, tk
    <3> QED
      BY <2>1, <3>1, <3>2, <3>3 DEF TaskOK
  <2>2. CASE task[q].at \notin {"init", "record", "withdraw", "revoke"}
    <3>1. tk[q] = Idle /\ Idle.at = "idle"
      BY <2>2 DEF Idle
    <3> QED
      BY <3>1, IdleLemma
  <2> QED
    BY <2>1, <2>2
<1>3. tk \in [Requests -> Tasks]
  BY <1>2
<1> HIDE DEF tk
<1>4. <<>> \in Seq(Tokens) /\ Len(<<>>) <= Capacity /\ Range(<<>>) = {}
  BY BoundsAssumption DEF BoundsAssumption, Range
<1>a. \A t \in Tokens : session'[t] \in Sessions => session'[t] = session[t]
  BY <1>1, SessionsLemma
<1>5. LocalTypes' /\ SessionsOK' /\ task' = tk
  BY <1>1, <1>2, <1>3, <1>4, SameSessions, LocallyLemma
<1>6. RemovalEndsStanding' /\ ScopeOK'
  <2>1. \A q \in Requests :
          \/ task'[q].at \notin {"record", "withdraw", "revoke"}
          \/ task'[q].at = task[q].at /\ task'[q].target = task[q].target
    BY <1>2, <1>5
  <2> QED
    BY <1>1, <1>a, <2>1, QuietLemma
<1> QED
  BY <1>1, <1>5, <1>6, OthersStay DEF Inv, TypeOK, LocalTypes, OthersOK, SessionMaps

-----------------------------------------------------------------------------
(* The whole.                                                               *)

\* The invariant holds in every reachable state.
THEOREM Invariance == Spec => []Inv
<1>1. ASSUME Inv, [Next]_vars PROVE Inv'
  <2>1. CASE UNCHANGED vars
    <3>1. TypeOK'
      BY <1>1, <2>1 DEF Inv, TypeOK, vars, authority, local
    <3>2. SessionsOK' /\ SetupIsExclusive' /\ RemovalEndsStanding' /\ ScopeOK'
      BY <1>1, <2>1
         DEF Inv, SessionsOK, SetupIsExclusive, RemovalEndsStanding, ScopeOK, NoOwner,
             vars, local
    <3> QED
      BY <3>1, <3>2 DEF Inv
  <2>2. ASSUME NEW r \in Requests, Step(r) PROVE Inv'
    BY <1>1, <2>2, AuthenticateInv, IssueInv, ValidateInv, ReadWorkspaceInv,
       InitializeInv, StandingInv, EndsInv DEF Step
  <2> QED
    BY <1>1, <2>1, <2>2, BeginInv, ExpireInv, AuthorityInv, RestartInv DEF Next
<1> QED
  BY <1>1, InitInv, PTL DEF Spec

\* The session store never exceeds its capacity, and every part of the state keeps
\* its shape.
THEOREM TypeCorrect == Spec => []TypeOK
  BY Invariance, PTL DEF Inv

\* No two inputs are answered as the set up Workspace, however many phones set the
\* Host up at once (resolve_workspace_setup).
THEOREM OneSetup == Spec => []SetupIsExclusive
  BY Invariance, PTL DEF Inv

\* A removal reaches Bootstrap only when the Hub admits no devices for the phone any
\* more, but for what the phone has recorded since the removal heard the Hub
\* (withdraw_standing_of, revoke_controller).
THEOREM StandingEndsFirst == Spec => []RemovalEndsStanding
  BY Invariance, PTL DEF Inv

\* What a step does to the session store.
LEMMA StoreStep ==
    ASSUME Inv, [Next]_vars
    PROVE  \/ store' = store
           \/ store # <<>> /\ store' = Tail(store) /\ task' = task
           \/ \E r \in Requests, t \in Tokens :
                /\ task[r].at = "issue" /\ store' = Append(Kept(store), t)
                /\ task' = Ended(r)
           \/ \E r \in Requests :
                /\ task[r].at = "validate" /\ ~Authorized(r)
                /\ store' = Revoked(store, task[r].token)
           \/ Restart
<1> USE DEF Locally, Answer
<1>1. CASE UNCHANGED vars
  BY <1>1 DEF vars, local
<1>2. ASSUME NEW r \in Requests,
             Ask(r) \/ \E c \in Controllers : ControllerChallenge(r, c)
      PROVE  store' = store
  BY <1>2 DEF Ask, GetWorkspace, SetUp, IssueCommissioningVoucher, DeleteController,
              Begin, ControllerChallenge
<1>3. ASSUME NEW r \in Requests,
             \/ AuthenticateController(r) \/ RecordStanding(r) \/ SignVoucher(r)
             \/ WithdrawController(r) \/ RevokeController(r) \/ CallFails(r)
      PROVE  store' = store
  BY <1>3 DEF AuthenticateController, RecordStanding, SignVoucher, WithdrawController,
              RevokeController, CallFails
<1>4. ASSUME NEW r \in Requests, ReadWorkspace(r) \/ InitializeWorkspace(r)
      PROVE  store' = store
  BY <1>4 DEF ReadWorkspace, InitializeWorkspace, ScopeResolved, SetupResolved,
              RemovalResolved, Ready
<1>5. ASSUME NEW r \in Requests, Issue(r)
      PROVE  /\ task[r].at = "issue" /\ task' = Ended(r)
             /\ \E t \in Tokens : store' = Append(Kept(store), t)
  BY <1>5, Zenon DEF Issue
<1>6. ASSUME NEW r \in Requests, ValidateController(r)
      PROVE  \/ store' = store
             \/ /\ task[r].at = "validate" /\ ~Authorized(r)
                /\ store' = Revoked(store, task[r].token)
  BY <1>6, Zenon DEF ValidateController
<1>7. CASE Expire
  BY <1>7 DEF Expire
<1>8. CASE ClaimHost \/ ResetHost
  BY <1>8 DEF ClaimHost, ResetHost, local
<1> QED
  BY <1>1, <1>2, <1>3, <1>4, <1>5, <1>6, <1>7, <1>8 DEF Next, Step

\* A session that is gone expired, made room, was refused by Bootstrap or went with
\* the process: an outage of Bootstrap costs nobody a session.
THEOREM SessionsAreKept == Spec => SessionsLeaveForAReason
<1>1. ASSUME Inv, [Next]_vars, NEW t \in Range(store) \ Range(store')
      PROVE  \/ t = Head(store) /\ task' = task
             \/ /\ t = Head(store) /\ Len(store) >= Capacity
                /\ \E r \in Requests : task[r].at = "issue" /\ task'[r] = Idle
             \/ session[t].controller \notin holders \/ session[t].epoch # epoch
             \/ \A r \in Requests : task'[r].token = NoToken
  <2>0. store \in Seq(Tokens) /\ Len(store) <= Capacity /\ task \in [Requests -> Tasks]
    BY <1>1 DEF Inv, TypeOK
  <2>1. CASE store # <<>> /\ store' = Tail(store) /\ task' = task
    BY <1>1, <2>0, <2>1, TailLemma
  <2>2. ASSUME NEW r \in Requests, NEW u \in Tokens, task[r].at = "issue",
               store' = Append(Kept(store), u), task' = Ended(r)
        PROVE  /\ t = Head(store) /\ Len(store) >= Capacity /\ task'[r] = Idle
    <3>1. task'[r] = Idle
      BY <2>0, <2>2 DEF Ended, Goes
    <3>2. /\ Range(store') = Range(Kept(store)) \cup {u}
          /\ Range(store) \ Range(Kept(store)) \subseteq {Head(store)}
          /\ Range(Kept(store)) # Range(store) => Len(store) >= Capacity
      BY <2>0, <2>2, IssueLemma
    <3>3. t \in Range(store) \ Range(Kept(store))
      BY <1>1, <3>2
    <3> QED
      BY <3>1, <3>2, <3>3
  <2>3. ASSUME NEW r \in Requests, task[r].at = "validate", ~Authorized(r),
               store' = Revoked(store, task[r].token)
        PROVE  session[t].controller \notin holders \/ session[t].epoch # epoch
    <3>1. t = task[r].token
      BY <1>1, <2>0, <2>3, RevokedLemma
    <3>2. session[t].controller = task[r].by /\ session[t].epoch = task[r].epoch
      BY <1>1, <2>3, <3>1 DEF Inv, SessionsOK, TaskOK
    <3> QED
      BY <2>3, <3>2 DEF Authorized
  <2>4. CASE Restart
    <3> SUFFICES ASSUME NEW r \in Requests PROVE task'[r].token = NoToken
      OBVIOUS
    <3>1. task'[r] \in {[task[r] EXCEPT !.token = NoToken], Idle}
      BY <2>4 DEF Restart, Locally
    <3>2. task[r] \in Tasks
      BY <2>0
    <3>3. [task[r] EXCEPT !.token = NoToken].token = NoToken /\ Idle.token = NoToken
      BY <3>2 DEF Tasks, Idle
    <3> QED
      BY <3>1, <3>3
  <2> QED
    BY <1>1, <2>1, <2>2, <2>3, <2>4, StoreStep
<1>2. Inv /\ [Next]_vars =>
        [\A t \in Range(store) \ Range(store') :
           \/ t = Head(store) /\ task' = task
           \/ /\ t = Head(store) /\ Len(store) >= Capacity
              /\ \E r \in Requests : task[r].at = "issue" /\ task'[r] = Idle
           \/ session[t].controller \notin holders \/ session[t].epoch # epoch
           \/ \A r \in Requests : task'[r].token = NoToken]_vars
  BY <1>1
<1> QED
  BY <1>2, Invariance, PTL DEF Spec, SessionsLeaveForAReason
=============================================================================
