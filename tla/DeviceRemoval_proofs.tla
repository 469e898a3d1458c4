------------------------ MODULE DeviceRemoval_proofs ------------------------
(***************************************************************************)
(* Proofs about DeviceRemoval, for any requests, devices, calls,           *)
(* generations and page size, with a clock that may be set back.           *)
(***************************************************************************)
EXTENDS DeviceRemoval, FiniteSetTheorems, TLAPS

Targets == Devices \X (1..MaxGeneration)
Answers == {"none", "done", "unfinished", "refused", "conflict", "invalid",
            "forbidden", "not_found", "unavailable"}
Awaits == {"unused", "claims", "ended"} \cup Working

\* a handler past its intent
Asked == {"revoke", "answered", "mount", "erase"}

\* whether no active mount belongs to the Claim r names, if one page lists them all
Cleared(r) ==
    OnOnePage(mount) => ~(mount[r[1]].active /\ mount[r[1]].generation = r[2])

\* Claims are numbered from 1 to the bound, and so is what handlers and rows name.
RefsOK ==
    /\ \A d \in Devices : claim[d].generation <= MaxGeneration
    /\ \A d \in Devices : claim[d].generation = 0 => claim[d] = Unclaimed
    /\ \A d \in Devices : mount[d].generation # 0 => claim[d].generation # 0
    /\ \A k \in Calls : at[k] \in Working => ref[k] \in Targets
    /\ \A r \in Requests : row[r] # NoRow => row[r] \in Rows /\ row[r].ref \in Targets

\* A handler past its intent, and a command on its way, name what the row names.
HandlersHaveRow ==
    \A k \in Calls : at[k] \in Asked \/ k \in pending =>
        /\ row[request[k]] # NoRow
        /\ row[request[k]].ref = ref[k]
        /\ at[k] \notin {"unused", "claims", "sent"}

\* The Hub has carried out commands of intents only, and their Claims are gone.
LogOK ==
    \A r \in Requests, t \in Refs : <<r, t>> \in log =>
        /\ row[r] # NoRow
        /\ row[r].ref = t
        /\ Gone(t)

\* A recorded result, a result in hand and a handler that observes stand for a
\* command carried out.
ResultOK ==
    /\ \A r \in Requests : row[r] # NoRow /\ row[r].result # "none"
                             => <<r, row[r].ref>> \in log
    /\ \A k \in Calls :
          \/ at[k] = "answered" /\ outcome[k] \in Results
          \/ at[k] \in {"mount", "erase"}
          => <<request[k], ref[k]>> \in log

\* A mount that was seen to be gone stays gone, and so does what was reported.
ObservedOK ==
    /\ \A k \in Calls : at[k] = "erase" /\ removed[k] => Cleared(ref[k])
    /\ \A k \in Calls : answer[k] = "done" =>
          at[k] = "ended" /\ Gone(ref[k]) /\ Cleared(ref[k])

Inv == TypeOK /\ RefsOK /\ HandlersHaveRow /\ LogOK /\ ResultOK /\ ObservedOK

-----------------------------------------------------------------------------

\* The initial state satisfies the invariant.
LEMMA InitInv == Init => Inv
<1> SUFFICES ASSUME Init PROVE Inv
  OBVIOUS
<1>0. 0 \in Nat /\ 1 \in Nat
  OBVIOUS
<1>1. /\ Unclaimed \in [generation : Nat, active : BOOLEAN]
      /\ [generation |-> 1, active |-> TRUE] \in [generation : Nat, active : BOOLEAN]
  BY <1>0 DEF Unclaimed
<1>2. /\ claim \in [Devices -> [generation : Nat, active : BOOLEAN]]
      /\ mount \in [Devices -> [generation : Nat, active : BOOLEAN]]
  BY <1>1, ZenonT(30) DEF Init
<1>3. TypeOK
<2>1. removed \in [Calls -> BOOLEAN]
  BY DEF Init
<2> QED
  BY <1>2, <2>1, SMTT(30) DEF Init, TypeOK, Refs, Rows, Working, Results
<1>4. RefsOK
<2>1. \A d \in Devices : claim[d] \in {Unclaimed, [generation |-> 1, active |-> TRUE]}
  BY DEF Init
<2>2. /\ Unclaimed.generation = 0
      /\ [generation |-> 1, active |-> TRUE].generation = 1
  BY DEF Unclaimed
<2>3. \A d \in Devices : /\ claim[d].generation <= MaxGeneration
                         /\ claim[d].generation = 0 => claim[d] = Unclaimed
  BY <2>1, <2>2, BoundsAssumption, SMTT(30) DEF BoundsAssumption
<2> QED
  BY <2>3 DEF Init, RefsOK, Working
<1>5. HandlersHaveRow /\ LogOK /\ ResultOK /\ ObservedOK
  BY DEF Init, HandlersHaveRow, LogOK, ResultOK, ObservedOK, Asked
<1> QED
  BY <1>3, <1>4, <1>5 DEF Inv

\* A handler that ends with any answer but done leaves nothing to keep.
LEMMA ReplyLemma ==
    ASSUME Inv, NEW k \in Calls, NEW result \in Answers \ {"done", "none"},
           at[k] # "unused", Reply(k, result), pending' \subseteq pending,
           k \in pending' => at[k] \in Asked \cup {"ended"},
           UNCHANGED <<hub, mount, row, request, ref, context, outcome, removed, now>>
    PROVE  Inv'
<1> USE DEF Inv, hub
<1>1. at' \in [Calls -> Awaits] /\ answer' \in [Calls -> Answers]
  BY DEF TypeOK, Reply, Awaits, Answers, Working
<1>2. TypeOK'
  BY <1>1 DEF TypeOK, Awaits, Answers
<1>3. /\ at'[k] = "ended"
      /\ \A j \in Calls : j # k => at'[j] = at[j] /\ answer'[j] = answer[j]
      /\ answer'[k] = "done" => answer[k] = "done"
  BY DEF TypeOK, Reply, Answers
<1>4. RefsOK'
  BY <1>3 DEF RefsOK, Working
<1>5. HandlersHaveRow'
  BY <1>3 DEF HandlersHaveRow, Asked
<1>6. LogOK' /\ ResultOK'
  <2>1. LogOK'
    BY <1>3 DEF LogOK, Gone
  <2>2. ResultOK'
    BY <1>3 DEF ResultOK
  <2> QED
    BY <2>1, <2>2
<1>7. ObservedOK'
  BY <1>3, SMTT(30) DEF ObservedOK, Gone, Cleared
<1> QED
  BY <1>2, <1>4, <1>5, <1>6, <1>7

\* A handler that moves on without touching rows, the Hub or its own answer.
LEMMA MoveLemma ==
    ASSUME Inv, NEW k \in Calls, NEW await \in Awaits \ {"sent"},
           at' = [at EXCEPT ![k] = await], answer[k] # "done",
           await \in Asked => /\ row'[request[k]] # NoRow
                              /\ row'[request[k]].ref = ref[k]
                              /\ ref[k] \in Targets,
           k \in pending' => await \in Asked,
           \A j \in pending' : j = k \/ j \in pending,
           pending' \subseteq Calls,
           \A r \in Requests : row[r] # NoRow =>
               row'[r] # NoRow /\ row'[r].ref = row[r].ref,
           UNCHANGED <<claim, mount, request, ref, answer>>
    PROVE  /\ at' \in [Calls -> Awaits]
           /\ HandlersHaveRow'
           /\ \A j \in Calls : at'[j] \in Working => ref'[j] \in Targets
           /\ \A j \in Calls : answer'[j] = "done" =>
                 at'[j] = "ended" /\ Gone(ref[j])' /\ Cleared(ref[j])'
<1> USE DEF Inv
<1>1. /\ at' \in [Calls -> Awaits]
      /\ at'[k] = await
      /\ \A j \in Calls : j # k => at'[j] = at[j]
  BY DEF TypeOK, Awaits
<1>2. \A j \in Calls : request[j] \in Requests
  BY DEF TypeOK
<1>3. HandlersHaveRow'
  BY <1>1, <1>2 DEF HandlersHaveRow, Asked
<1>4. \A j \in Calls : at'[j] \in Working => ref'[j] \in Targets
  BY <1>1 DEF RefsOK, Working, Asked
<1>5. \A j \in Calls : answer'[j] = "done" =>
         at'[j] = "ended" /\ Gone(ref[j])' /\ Cleared(ref[j])'
  BY <1>1 DEF ObservedOK, Gone, Cleared
<1> QED
  BY <1>1, <1>3, <1>4, <1>5

\* A call begins.
LEMMA RemoveDeviceInv == ASSUME Inv, NEW k \in Calls, RemoveDevice(k) PROVE Inv'
<1> USE DEF Inv, hub
<1>1. at' \in [Calls -> Awaits]
  BY DEF RemoveDevice, TypeOK, Awaits
<1>2. TypeOK'
  BY <1>1 DEF RemoveDevice, TypeOK, Awaits
<1>3. /\ at[k] = "unused" /\ at'[k] = "claims" /\ k \notin pending
      /\ \A j \in Calls : j # k => at'[j] = at[j]
  BY DEF RemoveDevice, TypeOK, HandlersHaveRow
<1>4. RefsOK'
  BY <1>3 DEF RemoveDevice, RefsOK, Working
<1>5. HandlersHaveRow'
  BY <1>3 DEF RemoveDevice, HandlersHaveRow, Asked
<1>6. LogOK' /\ ResultOK'
  <2>1. LogOK'
    BY <1>3 DEF RemoveDevice, LogOK, Gone
  <2>2. ResultOK'
    BY <1>3 DEF RemoveDevice, ResultOK
  <2> QED
    BY <2>1, <2>2
<1>7. ObservedOK'
  BY <1>3 DEF RemoveDevice, ObservedOK, Gone, Cleared
<1> QED
  BY <1>2, <1>4, <1>5, <1>6, <1>7

\* The delegation names a generation of the Claim, and nobody has named it yet.
LEMMA SendDelegationInv == ASSUME Inv, NEW k \in Calls, SendDelegation(k) PROVE Inv'
<1> USE DEF Inv, hub
<1>1. CASE Reply(k, "not_found") /\ UNCHANGED <<ref, context, now>>
  BY <1>1, ReplyLemma DEF SendDelegation, Answers, HandlersHaveRow
<1>2. CASE Reply(k, "unavailable") /\ UNCHANGED <<ref, context, now>>
  BY <1>2, ReplyLemma DEF SendDelegation, Answers, HandlersHaveRow
<1>3. CASE /\ claim[ref[k][1]] # Unclaimed
           /\ \E t \in 1..MaxInstant : now' = t /\ context' = [context EXCEPT ![k] = t]
           /\ ref' = [ref EXCEPT ![k] = <<ref[k][1], claim[ref[k][1]].generation>>]
           /\ at' = [at EXCEPT ![k] = "sent"]
           /\ UNCHANGED answer
  <2>0. /\ at[k] = "claims" /\ k \notin pending /\ answer[k] # "done"
        /\ UNCHANGED <<hub, mount, row, request, outcome, removed, pending>>
    BY DEF SendDelegation, HandlersHaveRow, ObservedOK
  <2>1. ref[k][1] \in Devices
    BY DEF TypeOK, Refs
  <2>2. <<ref[k][1], claim[ref[k][1]].generation>> \in Targets
    BY <1>3, <2>1, BoundsAssumption, SMTT(30) DEF BoundsAssumption, RefsOK, Targets, TypeOK
  <2>3. Targets \subseteq Refs
    BY BoundsAssumption, SMTT(30) DEF BoundsAssumption, Targets, Refs
  <2>4. /\ at'[k] = "sent" /\ ref'[k] \in Targets
        /\ \A j \in Calls : j # k => at'[j] = at[j] /\ ref'[j] = ref[j]
    BY <1>3, <2>2 DEF TypeOK
  <2>5. /\ at' \in [Calls -> Awaits] /\ ref' \in [Calls -> Refs]
        /\ context' \in [Calls -> Nat] /\ now' \in Nat
    BY <1>3, <2>2, <2>3, SMTT(30) DEF TypeOK, Awaits, Working
  <2>6. TypeOK'
    BY <1>3, <2>0, <2>5 DEF TypeOK, Awaits
  <2>7. RefsOK'
    BY <2>0, <2>4 DEF RefsOK
  <2>8. HandlersHaveRow'
    BY <2>0, <2>4 DEF HandlersHaveRow, Asked
  <2>9. LogOK' /\ ResultOK'
    <3>1. LogOK'
      BY <2>0, <2>4 DEF LogOK, Gone
    <3>2. ResultOK'
      BY <2>0, <2>4 DEF ResultOK
    <3> QED
      BY <3>1, <3>2
  <2>10. ObservedOK'
    <3>1. \A j \in Calls : at'[j] = "erase" => at[j] = "erase" /\ ref'[j] = ref[j]
      BY <2>4
    <3>2. \A j \in Calls : answer[j] = "done" => at'[j] = at[j] /\ ref'[j] = ref[j]
      BY <2>0, <2>4
    <3>3. ASSUME NEW j \in Calls, at'[j] = "erase", removed'[j]
          PROVE  Cleared(ref[j])'
      <4>1. Cleared(ref[j]) /\ ref'[j] = ref[j] /\ mount' = mount
        BY <2>0, <3>1, <3>3 DEF ObservedOK
      <4> QED
        BY <4>1 DEF Cleared
    <3>4. ASSUME NEW j \in Calls, answer'[j] = "done"
          PROVE  at'[j] = "ended" /\ Gone(ref[j])' /\ Cleared(ref[j])'
      <4>1. /\ at'[j] = "ended" /\ Gone(ref[j]) /\ Cleared(ref[j])
            /\ ref'[j] = ref[j] /\ mount' = mount /\ claim' = claim
        BY <1>3, <2>0, <3>2, <3>4 DEF ObservedOK
      <4> QED
        BY <4>1 DEF Gone, Cleared
    <3> QED
      BY <3>3, <3>4 DEF ObservedOK
  <2> QED
    BY <2>6, <2>7, <2>8, <2>9, <2>10
<1> QED
  BY <1>1, <1>2, <1>3 DEF SendDelegation

\* Giving up changes what the phone hears only.
LEMMA GiveUpInv == ASSUME Inv, NEW k \in Calls, GiveUp(k) PROVE Inv'
<1> USE DEF Inv, hub, handler
<1>1. answer' \in [Calls -> Answers]
  BY DEF GiveUp, TypeOK, Answers
<1>2. TypeOK'
  BY <1>1 DEF GiveUp, TypeOK, Answers
<1>3. \A j \in Calls : answer'[j] = "done" => answer[j] = "done"
  BY DEF GiveUp, TypeOK
<1>4. RefsOK' /\ HandlersHaveRow' /\ LogOK' /\ ResultOK'
  BY DEF GiveUp, RefsOK, HandlersHaveRow, LogOK, ResultOK, Gone
<1>5. ObservedOK'
  BY <1>3 DEF GiveUp, ObservedOK, Gone, Cleared
<1> QED
  BY <1>2, <1>4, <1>5

\* A new row names the caller's DeviceRef; an existing one is used only if it
\* does.
LEMMA AcceptInv == ASSUME Inv, NEW k \in Calls, Accept(k) PROVE Inv'
<1> USE DEF Inv, hub
<1> DEFINE r == request[k]
           new == [ref |-> ref[k], context |-> context[k], result |-> "none"]
<1>0. /\ at[k] = "sent" /\ k \notin pending /\ answer[k] # "done"
      /\ ref[k] \in Targets /\ r \in Requests
      /\ UNCHANGED <<hub, mount, request, ref, context, removed, now>>
  BY DEF Accept, HandlersHaveRow, ObservedOK, RefsOK, Working, TypeOK
<1>1. CASE row[r] # NoRow /\ Reply(k, "conflict") /\ UNCHANGED <<row, outcome, pending>>
  BY <1>0, <1>1, ReplyLemma DEF Answers
<1>2. CASE /\ row[r] = NoRow
           /\ row' = [row EXCEPT ![r] = new]
           /\ at' = [at EXCEPT ![k] = "revoke"]
           /\ pending' = pending \cup {k}
           /\ UNCHANGED <<outcome, answer>>
  <2>1. new \in Rows /\ new # NoRow
    <3>1. new \in Rows
      BY DEF TypeOK, Rows
    <3> QED
      BY <3>1, NamesAssumption DEF NamesAssumption
  <2>2. /\ row' \in [Requests -> Rows \cup {NoRow}]
        /\ row'[r] = new
        /\ \A q \in Requests : q # r => row'[q] = row[q]
    BY <1>0, <1>2, <2>1 DEF TypeOK
  <2>3. /\ at' \in [Calls -> Awaits]
        /\ HandlersHaveRow'
        /\ \A j \in Calls : at'[j] \in Working => ref'[j] \in Targets
        /\ \A j \in Calls : answer'[j] = "done" =>
              at'[j] = "ended" /\ Gone(ref[j])' /\ Cleared(ref[j])'
    <3>1. row'[r] # NoRow /\ row'[r].ref = ref[k]
      BY <2>1, <2>2, SMTT(30)
    <3>2. \A q \in Requests : row[q] # NoRow => row'[q] # NoRow /\ row'[q].ref = row[q].ref
      BY <1>2, <2>2
    <3>3. pending' \subseteq Calls /\ \A j \in pending' : j = k \/ j \in pending
      BY <1>2 DEF TypeOK
    <3> QED
      BY <1>0, <1>2, <3>1, <3>2, <3>3, MoveLemma, ZenonT(30) DEF Asked, Awaits, Working
  <2>4. TypeOK'
    BY <1>0, <1>2, <2>2, <2>3 DEF TypeOK, Awaits
  <2>5. RefsOK'
    <3>1. \A p \in Requests : row'[p] # NoRow => row'[p] \in Rows /\ row'[p].ref \in Targets
      <4>1. row'[r] \in Rows /\ row'[r].ref = ref[k]
        BY <2>1, <2>2
      <4>2. \A p \in Requests : row[p] # NoRow => row[p] \in Rows /\ row[p].ref \in Targets
        BY DEF RefsOK
      <4> QED
        BY <1>0, <2>2, <4>1, <4>2
    <3> QED
      BY <1>0, <2>3, <3>1 DEF RefsOK
  <2>6. LogOK' /\ ResultOK'
    <3>1. \A t \in Refs : <<r, t>> \notin log
      BY <1>0, <1>2 DEF LogOK
    <3>2. at'[k] = "revoke" /\ \A j \in Calls : j # k => at'[j] = at[j]
      BY <1>2 DEF TypeOK
    <3>3. LogOK'
      <4> SUFFICES ASSUME NEW p \in Requests, NEW t \in Refs, <<p, t>> \in log
                   PROVE  row'[p] # NoRow /\ row'[p].ref = t /\ Gone(t)'
        BY <1>0 DEF LogOK
      <4>1. row[p] # NoRow /\ row[p].ref = t /\ Gone(t) /\ p # r
        BY <3>1 DEF LogOK
      <4>2. row'[p] = row[p]
        BY <2>2, <4>1
      <4>3. Gone(t)'
        BY <1>0, <4>1 DEF Gone
      <4> QED
        BY <4>1, <4>2, <4>3
    <3>4. ResultOK'
      BY <1>0, <1>2, <2>2, <3>2 DEF ResultOK
    <3> QED
      BY <3>3, <3>4
  <2>7. ObservedOK'
    <3>1. at'[k] = "revoke" /\ \A j \in Calls : j # k => at'[j] = at[j]
      BY <1>2 DEF TypeOK
    <3> QED
      BY <1>0, <2>3, <3>1 DEF ObservedOK, Cleared
  <2> QED
    BY <2>3, <2>4, <2>5, <2>6, <2>7
<1>3. CASE /\ row[r] # NoRow /\ SameContent(k)
           /\ \/ /\ at' = [at EXCEPT ![k] = "revoke"]
                 /\ pending' = pending \cup {k}
                 /\ UNCHANGED <<row, outcome, answer>>
              \/ /\ row[r].result # "none"
                 /\ outcome' = [outcome EXCEPT ![k] = row[r].result]
                 /\ at' = [at EXCEPT ![k] = "mount"]
                 /\ UNCHANGED <<row, pending, answer>>
  <2>1. row[r].ref = ref[k]
    BY <1>3 DEF SameContent
  <2>2. PICK await \in {"revoke", "mount"} : /\ at' = [at EXCEPT ![k] = await]
                                             /\ await = "mount" => row[r].result # "none"
    BY <1>3
  <2>3. /\ at' \in [Calls -> Awaits]
        /\ HandlersHaveRow'
        /\ \A j \in Calls : at'[j] \in Working => ref'[j] \in Targets
        /\ \A j \in Calls : answer'[j] = "done" =>
              at'[j] = "ended" /\ Gone(ref[j])' /\ Cleared(ref[j])'
    <3>1. pending' \subseteq pending \cup {k} /\ UNCHANGED <<row, answer>>
      BY <1>3
    <3> QED
      BY <1>0, <1>3, <2>1, <2>2, <3>1, MoveLemma, ZenonT(30) DEF Asked, Awaits, Working, TypeOK
  <2>4. outcome' \in [Calls -> {"none", "refused"} \cup Results]
    BY <1>0, <1>3 DEF TypeOK, RefsOK, Rows
  <2>5. TypeOK'
    BY <1>0, <1>3, <2>3, <2>4 DEF TypeOK, Awaits
  <2>6. RefsOK'
    BY <1>0, <1>3, <2>3 DEF RefsOK
  <2>7. /\ at'[k] = await /\ \A j \in Calls : j # k => at'[j] = at[j]
        /\ \A j \in Calls : j # k => outcome'[j] = outcome[j]
    BY <1>3, <2>2 DEF TypeOK
  <2>8. LogOK'
    BY <1>0, <1>3, SMTT(30) DEF LogOK, Gone
  <2>9. ResultOK'
    BY <1>0, <1>3, <2>1, <2>2, <2>7 DEF ResultOK
  <2>10. ObservedOK'
    <3>1. \A j \in Calls : at'[j] = "erase" => at[j] = "erase"
      BY <2>2, <2>7
    <3> QED
      BY <1>0, <2>3, <3>1 DEF ObservedOK, Cleared
  <2> QED
    BY <2>3, <2>5, <2>6, <2>8, <2>9, <2>10
<1> QED
  BY <1>1, <1>2, <1>3 DEF Accept

\* A refused delegation.
LEMMA RefuseInv == ASSUME Inv, NEW k \in Calls, Refuse(k) PROVE Inv'
<1>1. PICK result \in {"forbidden", "unavailable"} : Reply(k, result)
  BY DEF Refuse
<1> QED
  BY <1>1, ReplyLemma DEF Refuse, Answers, Inv, HandlersHaveRow

\* A revocation that fails leaves its row as it was and answers the phone.
LEMMA RevokeFailsInv == ASSUME Inv, NEW k \in Calls, RevokeFails(k) PROVE Inv'
  BY ReplyLemma DEF RevokeFails, Answers, Asked

\* The Hub's result is recorded for a command the Hub has carried out.
LEMMA RevokeAnsweredInv == ASSUME Inv, NEW k \in Calls, RevokeAnswered(k) PROVE Inv'
<1> USE DEF Inv, hub
<1>0. /\ at[k] = "answered" /\ answer[k] # "done" /\ request[k] \in Requests
      /\ row[request[k]] # NoRow /\ row[request[k]] \in Rows
      /\ row[request[k]].ref = ref[k] /\ ref[k] \in Targets
      /\ UNCHANGED <<hub, mount, request, ref, context, outcome, removed, pending, now>>
  BY DEF RevokeAnswered, HandlersHaveRow, Asked, ObservedOK, RefsOK, Working, TypeOK
<1>1. CASE UNCHANGED row /\ \E result \in {"refused", "invalid", "unavailable"} : Reply(k, result)
  BY <1>0, <1>1, ReplyLemma DEF Answers, Asked
<1>2. CASE /\ outcome[k] \in Results
           /\ MarkHubCommitted(k)
           /\ at' = [at EXCEPT ![k] = "mount"]
           /\ UNCHANGED answer
  <2> DEFINE q == request[k]
             marked == [row[q] EXCEPT !.result = outcome[k]]
  <2>1. marked \in Rows /\ marked # NoRow /\ marked.ref = ref[k]
    <3>1. marked \in Rows /\ marked.ref = ref[k]
      BY <1>0, <1>2 DEF Rows, Refs
    <3> QED
      BY <3>1, NamesAssumption DEF NamesAssumption
  <2>2. /\ row' = [row EXCEPT ![q] = marked]
        /\ row' \in [Requests -> Rows \cup {NoRow}]
        /\ row'[q] = marked
        /\ \A r \in Requests : r # q => row'[r] = row[r]
    BY <1>0, <1>2, <2>1 DEF MarkHubCommitted, TypeOK
  <2>3. /\ at' \in [Calls -> Awaits]
        /\ HandlersHaveRow'
        /\ \A j \in Calls : at'[j] \in Working => ref'[j] \in Targets
        /\ \A j \in Calls : answer'[j] = "done" =>
              at'[j] = "ended" /\ Gone(ref[j])' /\ Cleared(ref[j])'
    BY <1>0, <1>2, <2>1, <2>2, MoveLemma, ZenonT(30) DEF Asked, Awaits, Working, TypeOK
  <2>4. TypeOK'
    BY <1>0, <1>2, <2>2, <2>3 DEF TypeOK, Awaits
  <2>5. RefsOK'
    BY <1>0, <2>1, <2>2, <2>3 DEF RefsOK
  <2>6. /\ at'[k] = "mount" /\ \A j \in Calls : j # k => at'[j] = at[j]
        /\ <<q, ref[k]>> \in log
    BY <1>0, <1>2 DEF TypeOK, ResultOK
  <2>7. LogOK'
    BY <1>0, <2>1, <2>2, SMTT(30) DEF LogOK, Gone
  <2>8. ResultOK'
    BY <1>0, <2>1, <2>2, <2>6, SMTT(30) DEF ResultOK
  <2>9. ObservedOK'
    BY <1>0, <2>3, <2>6 DEF ObservedOK, Cleared
  <2> QED
    BY <2>3, <2>4, <2>5, <2>7, <2>8, <2>9
<1> QED
  BY <1>1, <1>2 DEF RevokeAnswered

\* The Hub's log speaks of the Claims and of the Core's rows alone.
LEMMA LogFrame == ASSUME LogOK, UNCHANGED <<claim, log, row>> PROVE LogOK'
BY DEF LogOK, Gone

\* A removal names a generation that was bound, and the first is 1.
LEMMA TargetLemma == ASSUME NEW t \in Targets PROVE t[2] # 0
<1>1. t[2] \in 1..MaxGeneration
  BY DEF Targets
<1> QED
  BY <1>1, BoundsAssumption DEF BoundsAssumption

\* What was seen of the mount is kept for the answer.
LEMMA ObserveMountInv == ASSUME Inv, NEW k \in Calls, ObserveMount(k) PROVE Inv'
<1> USE DEF Inv, hub
<1>0. /\ at[k] = "mount" /\ answer[k] # "done" /\ request[k] \in Requests
      /\ row[request[k]] # NoRow /\ row[request[k]].ref = ref[k] /\ ref[k] \in Targets
      /\ UNCHANGED <<hub, mount, row, request, ref, context, outcome, pending, now>>
  BY DEF ObserveMount, HandlersHaveRow, Asked, ObservedOK, RefsOK, Working, TypeOK
<1>1. CASE Reply(k, "unfinished") /\ UNCHANGED removed
  BY <1>0, <1>1, ReplyLemma DEF Answers, Asked
<1>2. CASE /\ \E page \in MountPages :
                removed' = [removed EXCEPT ![k] = ref[k][1] \notin page \/ ~mount[ref[k][1]].active]
           /\ at' = [at EXCEPT ![k] = "erase"]
           /\ UNCHANGED answer
  <2>1. /\ at' \in [Calls -> Awaits]
        /\ HandlersHaveRow'
        /\ \A j \in Calls : at'[j] \in Working => ref'[j] \in Targets
        /\ \A j \in Calls : answer'[j] = "done" =>
              at'[j] = "ended" /\ Gone(ref[j])' /\ Cleared(ref[j])'
    BY <1>0, <1>2, MoveLemma, ZenonT(30) DEF Asked, Awaits, Working, TypeOK
  <2>0. PICK page \in MountPages :
          removed' = [removed EXCEPT ![k] = ref[k][1] \notin page \/ ~mount[ref[k][1]].active]
    BY <1>2
  <2> DEFINE seen == ref[k][1] \notin page \/ ~mount[ref[k][1]].active
  <2>a. seen \in BOOLEAN /\ (seen => Cleared(ref[k]))
    <3>1. seen \in BOOLEAN
      OBVIOUS
    <3>2. ASSUME seen, OnOnePage(mount)
          PROVE  ~(mount[ref[k][1]].active /\ mount[ref[k][1]].generation = ref[k][2])
      <4>1. page = Mounted(mount)
        BY <3>2 DEF MountPages
      <4>2. ref[k][1] \in Devices /\ ref[k][2] # 0
        BY <1>0, TargetLemma DEF Targets
      <4> QED
        BY <3>2, <4>1, <4>2 DEF Mounted
    <3> QED
      BY <3>1, <3>2 DEF Cleared
  <2>b. removed' = [removed EXCEPT ![k] = seen]
    BY <2>0
  <2> HIDE DEF seen
  <2>2. removed' \in [Calls -> BOOLEAN]
    <3>1. removed \in [Calls -> BOOLEAN]
      BY DEF TypeOK
    <3> QED
      BY <2>a, <2>b, <3>1
  <2>3. TypeOK'
    BY <1>0, <1>2, <2>1, <2>2 DEF TypeOK, Awaits
  <2>4. /\ at'[k] = "erase" /\ \A j \in Calls : j # k => at'[j] = at[j]
        /\ removed'[k] = seen
        /\ \A j \in Calls : j # k => removed'[j] = removed[j]
    BY <1>2, <2>b DEF TypeOK
  <2>5. RefsOK'
    BY <1>0, <2>1 DEF RefsOK
  <2>6. LogOK' /\ ResultOK'
    <3>1. LogOK'
      BY <1>0, LogFrame
    <3>2. ResultOK'
      BY <1>0, <2>4 DEF ResultOK
    <3> QED
      BY <3>1, <3>2
  <2>7. ObservedOK'
    BY <1>0, <2>1, <2>4, <2>a, ZenonT(30) DEF ObservedOK, Cleared
  <2> QED
    BY <2>1, <2>3, <2>5, <2>6, <2>7
<1> QED
  BY <1>1, <1>2 DEF ObserveMount

\* "done" is said only of a command carried out and a mount seen to be gone.
LEMMA ObserveEraseInv == ASSUME Inv, NEW k \in Calls, ObserveErase(k) PROVE Inv'
<1> USE DEF Inv, hub
<1>0. /\ at[k] = "erase"
      /\ UNCHANGED <<hub, mount, row, request, ref, context, outcome, removed, pending, now>>
  BY DEF ObserveErase
<1>1. CASE ~removed[k]
  <2>1. Reply(k, "unfinished")
    BY <1>1 DEF ObserveErase
  <2> QED
    BY <1>0, <2>1, ReplyLemma DEF Answers, Asked
<1>2. CASE removed[k]
  <2>1. Reply(k, "done")
    BY <1>2 DEF ObserveErase
  <2>2. Gone(ref[k]) /\ Cleared(ref[k])
    BY <1>0, <1>2, ZenonT(30) DEF ResultOK, ObservedOK, LogOK, TypeOK
  <2>3. at' \in [Calls -> Awaits] /\ answer' \in [Calls -> Answers]
    BY <2>1 DEF TypeOK, Reply, Awaits, Answers, Working
  <2>4. TypeOK'
    BY <1>0, <2>3 DEF TypeOK, Awaits, Answers
  <2>5. /\ at'[k] = "ended"
        /\ \A j \in Calls : j # k => at'[j] = at[j] /\ answer'[j] = answer[j]
    BY <2>1 DEF TypeOK, Reply
  <2>6. RefsOK' /\ HandlersHaveRow'
    BY <1>0, <2>5, ZenonT(30) DEF RefsOK, HandlersHaveRow, Working, Asked
  <2>7. LogOK' /\ ResultOK'
    <3>1. LogOK'
      BY <1>0, <2>5, ZenonT(30) DEF LogOK, Gone
    <3>2. ResultOK'
      BY <1>0, <2>5 DEF ResultOK
    <3> QED
      BY <3>1, <3>2
  <2>8. ObservedOK'
    BY <1>0, <2>2, <2>5, ZenonT(30) DEF ObservedOK, Gone, Cleared
  <2> QED
    BY <2>4, <2>6, <2>7, <2>8
<1> QED
  BY <1>1, <1>2

\* Handlers are lost, rows and commands on their way are not.
LEMMA RestartInv == ASSUME Inv, Restart PROVE Inv'
<1> USE DEF Inv, hub
<1>0. UNCHANGED <<hub, mount, row, request, ref, context, outcome, removed, pending, now>>
  BY DEF Restart
<1>1. at' \in [Calls -> Awaits] /\ answer' \in [Calls -> Answers]
  BY DEF Restart, TypeOK, Awaits, Answers
<1>2. TypeOK'
  BY <1>0, <1>1 DEF TypeOK, Awaits, Answers
<1>3. \A k \in Calls : /\ at'[k] \notin Working
                       /\ at'[k] = at[k] \/ (at[k] \in Working /\ at'[k] = "ended")
                       /\ answer'[k] = "done" => answer[k] = "done"
  BY DEF Restart, Working
<1>4. RefsOK'
  BY <1>0, <1>3 DEF RefsOK
<1>5. HandlersHaveRow'
  BY <1>0, <1>3 DEF HandlersHaveRow, Asked, Working
<1>6. LogOK' /\ ResultOK'
  <2>1. LogOK'
    BY <1>0, <1>3 DEF LogOK, Gone
  <2>2. ResultOK'
    BY <1>0, <1>3 DEF ResultOK, Working
  <2> QED
    BY <2>1, <2>2
<1>7. ObservedOK'
  BY <1>0, <1>3 DEF ObservedOK, Gone, Cleared, Working
<1> QED
  BY <1>2, <1>4, <1>5, <1>6, <1>7

\* A Claim that is gone stays gone, and a mount that is gone comes back in a
\* later generation only.
LEMMA ClaimLemma ==
    ASSUME Inv, NEW t \in Refs, Gone(t),
           \/ \E k \in Calls : HubRevokes(k)
           \/ \E d \in Devices : Enrol(d)
    PROVE  Gone(t)'
<1> USE DEF Inv, hub
<1>0. t[1] \in Devices /\ t[2] \in Nat
  BY DEF Refs
<1>1. CASE \E k \in Calls : HubRevokes(k)
  <2>1. PICK k \in Calls : HubRevokes(k)
    BY <1>1
  <2>2. \/ UNCHANGED claim
        \/ \E d : claim' = [claim EXCEPT ![d].active = FALSE]
    BY <2>1 DEF HubRevokes
  <2>3. claim'[t[1]].generation = claim[t[1]].generation
        /\ (claim'[t[1]].active => claim[t[1]].active)
    BY <1>0, <2>2, SMTT(30) DEF TypeOK
  <2> QED
    BY <2>3 DEF Gone
<1>2. CASE \E d \in Devices : Enrol(d)
  <2>1. PICK d \in Devices : Enrol(d)
    BY <1>2
  <2>2. CASE t[1] = d
    <3>1. claim'[d].generation = claim[d].generation + 1
      BY <2>1 DEF Enrol, TypeOK
    <3>2. claim[d].generation \in Nat
      BY DEF TypeOK
    <3> QED
      BY <1>0, <2>2, <3>1, <3>2, SMTT(30) DEF Gone
  <2>3. CASE t[1] # d
    <3>1. claim'[t[1]] = claim[t[1]]
      BY <1>0, <2>1, <2>3 DEF Enrol, TypeOK
    <3> QED
      BY <3>1 DEF Gone
  <2> QED
    BY <2>2, <2>3
<1> QED
  BY <1>1, <1>2

\* The Hub carries out what an intent names.
LEMMA HubRevokesInv == ASSUME Inv, NEW k \in Calls, HubRevokes(k) PROVE Inv'
<1> USE DEF Inv, hub
<1> DEFINE t == ref[k]
           q == request[k]
<1>0. /\ k \in pending /\ pending' = pending \ {k}
      /\ q \in Requests /\ row[q] # NoRow /\ row[q] \in Rows /\ row[q].ref = t
      /\ t \in Refs /\ t[1] \in Devices /\ t[2] \in Nat
      /\ Command(k) = <<q, t>>
      /\ UNCHANGED <<mount, row, request, ref, context, removed, answer, now>>
  BY DEF HubRevokes, Command, HandlersHaveRow, TypeOK, Refs, RefsOK
<1>1. PICK o \in HubOutcomes(<<q, t>>) :
        /\ \/ /\ o = "committed"
              /\ log' = log \cup {<<q, t>>}
              /\ claim' = [claim EXCEPT ![t[1]].active = FALSE]
           \/ o # "committed" /\ UNCHANGED hub
        /\ \/ /\ at[k] = "revoke"
              /\ at' = [at EXCEPT ![k] = "answered"]
              /\ outcome' = [outcome EXCEPT ![k] = o]
           \/ at[k] # "revoke" /\ UNCHANGED <<at, outcome>>
  BY <1>0, SMTT(30) DEF HubRevokes
<1>2. /\ o \in {"committed", "replayed", "refused"}
      /\ o = "replayed" => <<q, t>> \in log
      /\ o = "committed" => claim[t[1]].generation = t[2]
  BY <1>0 DEF HubOutcomes
<1>3. claim' \in [Devices -> [generation : Nat, active : BOOLEAN]]
  <2>1. claim \in [Devices -> [generation : Nat, active : BOOLEAN]]
    BY DEF TypeOK
  <2>2. FALSE \in BOOLEAN
    OBVIOUS
  <2>3. claim[t[1]] \in [generation : Nat, active : BOOLEAN]
    BY <1>0, <2>1
  <2>4. [claim[t[1]] EXCEPT !.active = FALSE] \in [generation : Nat, active : BOOLEAN]
    BY <2>2, <2>3, ZenonT(30)
  <2>5. \/ claim' = claim
        \/ claim' = [claim EXCEPT ![t[1]] = [claim[t[1]] EXCEPT !.active = FALSE]]
    BY <1>1
  <2> QED
    BY <1>0, <2>1, <2>4, <2>5
<1>4. \A d \in Devices : /\ claim'[d].generation = claim[d].generation
                         /\ claim'[d] = claim[d] \/ (d = t[1] /\ claim'[d].active = FALSE)
  <2> DEFINE revoked == [claim[t[1]] EXCEPT !.active = FALSE]
  <2>1. \/ claim' = claim
        \/ claim' = [claim EXCEPT ![t[1]] = revoked]
    BY <1>1
  <2>2. revoked.generation = claim[t[1]].generation /\ revoked.active = FALSE
    BY <1>0 DEF TypeOK
  <2>3. \A d \in Devices : claim'[d] = claim[d] \/ (d = t[1] /\ claim'[d] = revoked)
    BY <2>1 DEF TypeOK
  <2> HIDE DEF revoked
  <2> QED
    BY <2>2, <2>3
<1>5. /\ log \subseteq log' /\ log' \subseteq log \cup {<<q, t>>}
      /\ o \in Results => <<q, t>> \in log'
  BY <1>1, <1>2 DEF Results
<1>6. /\ at' \in [Calls -> Awaits]
      /\ outcome' \in [Calls -> {"none", "refused"} \cup Results]
      /\ \A j \in Calls : j # k => at'[j] = at[j] /\ outcome'[j] = outcome[j]
      /\ \/ at'[k] = at[k] /\ outcome'[k] = outcome[k]
         \/ at[k] = "revoke" /\ at'[k] = "answered" /\ outcome'[k] = o
  <2>1. /\ at \in [Calls -> Awaits] /\ "answered" \in Awaits
        /\ outcome \in [Calls -> {"none", "refused"} \cup Results]
        /\ o \in {"none", "refused"} \cup Results
    BY <1>2 DEF TypeOK, Awaits, Working, Results
  <2>2. CASE UNCHANGED <<at, outcome>>
    BY <2>1, <2>2
  <2>3. CASE /\ at[k] = "revoke"
             /\ at' = [at EXCEPT ![k] = "answered"]
             /\ outcome' = [outcome EXCEPT ![k] = o]
    BY <2>1, <2>3
  <2> QED
    BY <1>1, <2>2, <2>3
<1>7. \A s \in Refs : Gone(s) => Gone(s)'
  BY ClaimLemma
<1>8. TypeOK'
  <2>1. log' \subseteq Requests \X Refs /\ pending' \subseteq Calls
    <3>1. <<q, t>> \in Requests \X Refs
      BY <1>0
    <3>2. log \subseteq Requests \X Refs /\ pending \subseteq Calls
      BY DEF TypeOK
    <3>3. pending' \subseteq pending
      BY <1>0
    <3> HIDE DEF q, t
    <3> QED
      BY <1>5, <3>1, <3>2, <3>3, Zenon
  <2> QED
    BY <1>0, <1>3, <1>6, <2>1 DEF TypeOK, Awaits
<1>9. RefsOK'
  <2>1. \A d \in Devices : claim'[d].generation = 0 => claim'[d] = Unclaimed
    <3>1. t[2] # 0
      <4>1. t \in Targets
        BY <1>0, ZenonT(30) DEF RefsOK
      <4> QED
        BY <4>1, TargetLemma
    <3>2. \A d \in Devices : claim'[d] = claim[d] \/ claim[d].generation # 0
      BY <1>0, <1>1, <1>2, <3>1 DEF TypeOK
    <3> QED
      BY <1>4, <3>2, ZenonT(30) DEF RefsOK
  <2> QED
    BY <1>0, <1>4, <1>6, <2>1, ZenonT(30) DEF RefsOK, Working
<1>10. HandlersHaveRow'
  BY <1>0, <1>6 DEF HandlersHaveRow, Asked
<1>11. LogOK'
  <2>1. o = "committed" => Gone(t)'
    BY <1>0, <1>1, <1>2, <1>4, <1>7, SMTT(30) DEF Gone, TypeOK, LogOK
  <2>2. <<q, t>> \in log' => <<q, t>> \in log \/ Gone(t)'
    BY <1>1, <2>1
  <2> QED
    BY <1>0, <1>5, <1>7, <2>2 DEF LogOK
<1>12. ResultOK'
  <2>1. ASSUME NEW r \in Requests, row'[r] # NoRow, row'[r].result # "none"
        PROVE  <<r, row'[r].ref>> \in log'
    BY <1>0, <1>5, <2>1 DEF ResultOK
  <2>2. ASSUME NEW j \in Calls,
               \/ at'[j] = "answered" /\ outcome'[j] \in Results
               \/ at'[j] \in {"mount", "erase"}
        PROVE  <<request'[j], ref'[j]>> \in log'
    <3>1. CASE at'[j] = at[j] /\ outcome'[j] = outcome[j]
      <4>1. <<request[j], ref[j]>> \in log
        BY <2>2, <3>1 DEF ResultOK
      <4> QED
        BY <1>0, <1>5, <4>1
    <3>2. CASE j = k /\ at'[k] = "answered" /\ outcome'[k] = o
      <4>1. o \in Results
        BY <2>2, <3>2
      <4> QED
        BY <1>0, <1>5, <3>2, <4>1
    <3> QED
      BY <1>6, <3>1, <3>2
  <2> QED
    BY <2>1, <2>2 DEF ResultOK
<1>13. ObservedOK'
  <2>1. \A j \in Calls : at'[j] = "erase" => at[j] = "erase"
    BY <1>6
  <2>2. \A j \in Calls : at[j] = "ended" => at'[j] = "ended"
    BY <1>6
  <2>3. \A j \in Calls : Gone(ref[j]) => Gone(ref[j])'
    <3>1. \A j \in Calls : ref[j] \in Refs
      BY DEF TypeOK
    <3> QED
      BY <1>0, <1>7, <3>1 DEF Gone
  <2>4. \A j \in Calls : Cleared(ref[j])' = Cleared(ref[j])
    BY <1>0 DEF Cleared
  <2> QED
    BY <1>0, <2>1, <2>2, <2>3, <2>4 DEF ObservedOK
<1> QED
  BY <1>8, <1>9, <1>10, <1>11, <1>12, <1>13

\* A later Claim has a later generation.
LEMMA EnrolInv == ASSUME Inv, NEW d \in Devices, Enrol(d) PROVE Inv'
<1> USE DEF Inv, hub, handler
<1> DEFINE next == [generation |-> claim[d].generation + 1, active |-> TRUE]
<1>0. UNCHANGED <<log, mount, row, handler, pending, answer, now>>
  BY DEF Enrol
<1>1. claim \in [Devices -> [generation : Nat, active : BOOLEAN]]
  BY DEF TypeOK
<1>2. claim[d].generation \in Nat /\ claim[d].generation < MaxGeneration
  BY <1>1 DEF Enrol
<1>3. next \in [generation : Nat, active : BOOLEAN]
  <2>1. claim[d].generation + 1 \in Nat /\ TRUE \in BOOLEAN
    BY <1>2, SMTT(30)
  <2> QED
    BY <2>1
<1>4. /\ claim' \in [Devices -> [generation : Nat, active : BOOLEAN]]
      /\ claim'[d] = next
      /\ \A e \in Devices : e # d => claim'[e] = claim[e]
  BY <1>1, <1>3 DEF Enrol
<1>5. \A s \in Refs : Gone(s) => Gone(s)'
  BY ClaimLemma
<1>6. TypeOK'
  BY <1>0, <1>4 DEF TypeOK
<1>7. RefsOK'
  <2>1. next.generation <= MaxGeneration /\ next.generation # 0
    BY <1>2, BoundsAssumption, SMTT(30) DEF BoundsAssumption
  <2> QED
    BY <1>0, <1>4, <2>1 DEF RefsOK
<1>8. HandlersHaveRow' /\ ResultOK'
  BY <1>0, ZenonT(30) DEF HandlersHaveRow, ResultOK
<1>9. LogOK'
  BY <1>0, <1>5 DEF LogOK
<1>10. ObservedOK'
  BY <1>0, <1>5 DEF ObservedOK, Cleared, TypeOK
<1> QED
  BY <1>6, <1>7, <1>8, <1>9, <1>10

\* A mount follows the Claim, so it is never one of a Claim that is gone.
LEMMA KernelFollowsInv == ASSUME Inv, NEW d \in Devices, KernelFollows(d) PROVE Inv'
<1> USE DEF Inv, hub, handler
<1>0. UNCHANGED <<hub, row, handler, pending, answer, now>>
  BY ZenonT(30) DEF KernelFollows
<1>1. /\ mount' \in [Devices -> [generation : Nat, active : BOOLEAN]]
      /\ mount'[d] = claim[d]
      /\ \A e \in Devices : e # d => mount'[e] = mount[e]
  BY DEF KernelFollows, TypeOK
<1>a. OnOnePage(mount') => OnOnePage(mount)
  <2>1. Mounted(mount) \subseteq Mounted(mount') /\ Mounted(mount') \subseteq Devices
    BY <1>1 DEF Mounted, RefsOK
  <2>2. /\ Cardinality(Mounted(mount)) \in Nat /\ Cardinality(Mounted(mount')) \in Nat
        /\ Cardinality(Mounted(mount)) <= Cardinality(Mounted(mount'))
    <3>1. IsFiniteSet(Mounted(mount'))
      BY <2>1, BoundsAssumption, FS_Subset DEF BoundsAssumption
    <3>2. IsFiniteSet(Mounted(mount))
      BY <2>1, <3>1, FS_Subset
    <3> QED
      BY <2>1, <3>1, <3>2, FS_Subset, FS_CardinalityType
  <2> QED
    BY <2>2, BoundsAssumption DEF BoundsAssumption, OnOnePage
<1>2. \A s \in Refs : Gone(s) /\ Cleared(s) => Cleared(s)'
  <2> SUFFICES ASSUME NEW s \in Refs, Gone(s), Cleared(s), OnOnePage(mount')
               PROVE  ~(mount'[s[1]].active /\ mount'[s[1]].generation = s[2])
    BY DEF Cleared
  <2>1. s[1] \in Devices /\ s[2] \in Nat /\ claim[s[1]].generation \in Nat
    BY DEF Refs, TypeOK
  <2>2. CASE s[1] = d
    <3>1. mount'[s[1]] = claim[s[1]]
      BY <1>1, <2>2
    <3>2. ~(claim[s[1]].active /\ claim[s[1]].generation = s[2])
      BY <2>1 DEF Gone
    <3> QED
      BY <3>1, <3>2
  <2>3. CASE s[1] # d
    BY <1>1, <1>a, <2>1, <2>3 DEF Cleared
  <2> QED
    BY <2>2, <2>3
<1>3. TypeOK'
  BY <1>0, <1>1 DEF TypeOK
<1>4. RefsOK' /\ HandlersHaveRow' /\ ResultOK'
  BY <1>0, <1>1 DEF RefsOK, HandlersHaveRow, ResultOK
<1>5. LogOK'
  BY <1>0 DEF LogOK, Gone
<1>6. ObservedOK'
  <2>1. \A k \in Calls : at[k] = "erase" => Gone(ref[k])
    BY ZenonT(30) DEF ResultOK, LogOK, TypeOK
  <2>2. \A k \in Calls : ref[k] \in Refs
    BY DEF TypeOK
  <2>3. \A k \in Calls : Gone(ref[k]) => Gone(ref[k])'
    BY <1>0 DEF Gone
  <2>4. \A k \in Calls : Gone(ref[k]) /\ Cleared(ref[k]) => Cleared(ref[k])'
    BY <1>0, <1>2, <2>2 DEF Cleared
  <2> QED
    BY <1>0, <2>1, <2>3, <2>4, ZenonT(30) DEF ObservedOK
<1> QED
  BY <1>3, <1>4, <1>5, <1>6

\* Every step keeps the invariant.
LEMMA NextInv == Inv /\ [Next]_vars => Inv'
<1> SUFFICES ASSUME Inv, [Next]_vars PROVE Inv'
  OBVIOUS
<1>1. CASE UNCHANGED vars
  <2> USE <1>1 DEF vars, hub, handler, Inv
  <2>1. TypeOK'
    BY DEF TypeOK
  <2>2. RefsOK'
    BY ZenonT(30) DEF RefsOK
  <2>3. HandlersHaveRow' /\ ResultOK'
    BY DEF HandlersHaveRow, ResultOK
  <2>4. LogOK' /\ ObservedOK'
    BY DEF LogOK, ObservedOK, Gone, Cleared
  <2> QED
    BY <2>1, <2>2, <2>3, <2>4
<1>2. CASE \E k \in Calls : RemoveDevice(k) \/ Handle(k) \/ GiveUp(k) \/ HubRevokes(k)
  BY <1>2, RemoveDeviceInv, GiveUpInv, HubRevokesInv, SendDelegationInv, AcceptInv,
     RefuseInv, RevokeFailsInv, RevokeAnsweredInv, ObserveMountInv, ObserveEraseInv
     DEF Handle
<1>3. CASE \E d \in Devices : Enrol(d) \/ KernelFollows(d)
  BY <1>3, EnrolInv, KernelFollowsInv
<1>4. CASE Restart
  BY <1>4, RestartInv
<1> QED
  BY <1>1, <1>2, <1>3, <1>4 DEF Next

\* The inductive invariant holds throughout.
THEOREM Invariance == Spec => []Inv
  BY InitInv, NextInv, PTL DEF Spec

\* The types, which rest on an outcome being recorded for an answered handler only.
THEOREM TypeCorrect == Spec => []TypeOK
<1>1. Inv => TypeOK
  BY DEF Inv
<1> QED
  BY <1>1, Invariance, PTL

\* A phone that was told done can rely on it: that Claim is gone and, as long as the
\* Kernel has no more mounts than it lists on one page, so is its mount, whatever
\* the other calls, the Kernel and later enrolments do.
THEOREM DoneHolds == Spec => []DoneIsTrue
<1>1. Inv => DoneIsTrue
  BY DEF Inv, ObservedOK, DoneIsTrue, Cleared, Unmounted
<1> QED
  BY <1>1, Invariance, PTL

-----------------------------------------------------------------------------
(* What a step does to the ledger and to the Hub.                           *)

\* the row an accepted delegation gets
NewRow(k) == [ref |-> ref[k], context |-> context[k], result |-> "none"]

\* A row appears with a delegation or gets the result of an answer.
LEMMA RowStep ==
    ASSUME Inv, [Next]_vars
    PROVE  \/ UNCHANGED row
           \/ \E k \in Calls :
                 /\ UNCHANGED log
                 /\ at[k] = "sent"
                 /\ row[request[k]] = NoRow
                 /\ row' = [row EXCEPT ![request[k]] = NewRow(k)]
           \/ \E k \in Calls :
                 /\ UNCHANGED log
                 /\ at[k] = "answered" /\ outcome[k] \in Results
                 /\ MarkHubCommitted(k)
<1> USE DEF hub, handler
<1>1. CASE UNCHANGED vars
  BY <1>1 DEF vars
<1>2. ASSUME NEW k \in Calls, Accept(k)
      PROVE  \/ UNCHANGED row
             \/ /\ UNCHANGED log /\ at[k] = "sent" /\ row[request[k]] = NoRow
                /\ row' = [row EXCEPT ![request[k]] = NewRow(k)]
  BY <1>2 DEF Accept, NewRow
<1>3. ASSUME NEW k \in Calls, RevokeAnswered(k)
      PROVE  \/ UNCHANGED row
             \/ /\ UNCHANGED log /\ at[k] = "answered" /\ outcome[k] \in Results
                /\ MarkHubCommitted(k)
  BY <1>3 DEF RevokeAnswered
<1>4. ASSUME NEW k \in Calls,
             \/ RemoveDevice(k) \/ GiveUp(k) \/ HubRevokes(k) \/ SendDelegation(k)
             \/ Refuse(k) \/ RevokeFails(k) \/ ObserveMount(k) \/ ObserveErase(k)
      PROVE  UNCHANGED row
  BY <1>4 DEF RemoveDevice, GiveUp, HubRevokes, SendDelegation, Refuse, RevokeFails,
              ObserveMount, ObserveErase
<1>5. ASSUME NEW d \in Devices, Enrol(d) \/ KernelFollows(d) PROVE UNCHANGED row
  BY <1>5 DEF Enrol, KernelFollows
<1>6. CASE Restart
  BY <1>6 DEF Restart
<1> QED
  BY <1>1, <1>2, <1>3, <1>4, <1>5, <1>6, ZenonT(30) DEF Next, Handle

\* The Hub changes with an enrolment, or revokes the Claim a command names.
LEMMA HubStep ==
    ASSUME Inv, [Next]_vars
    PROVE  \/ UNCHANGED hub
           \/ UNCHANGED <<log, row>> /\ \E d \in Devices : Enrol(d)
           \/ \E k \in Calls :
                 /\ UNCHANGED row
                 /\ k \in pending
                 /\ log' = log \cup {<<request[k], ref[k]>>}
                 /\ claim' = [claim EXCEPT ![ref[k][1]].active = FALSE]
                 /\ claim[ref[k][1]].generation = ref[k][2]
<1> USE DEF hub, handler
<1>1. CASE UNCHANGED vars
  BY <1>1 DEF vars
<1>2. ASSUME NEW k \in Calls, HubRevokes(k)
      PROVE  \/ UNCHANGED hub
             \/ /\ UNCHANGED row
                /\ k \in pending
                /\ log' = log \cup {<<request[k], ref[k]>>}
                /\ claim' = [claim EXCEPT ![ref[k][1]].active = FALSE]
                /\ claim[ref[k][1]].generation = ref[k][2]
  <2>1. Command(k) = <<request[k], ref[k]>> /\ k \in pending /\ UNCHANGED row
    BY <1>2 DEF HubRevokes, Command, Inv, HandlersHaveRow
  <2>2. "committed" \in HubOutcomes(<<request[k], ref[k]>>)
          => claim[ref[k][1]].generation = ref[k][2]
    BY DEF HubOutcomes
  <2> QED
    BY <1>2, <2>1, <2>2, SMTT(30) DEF HubRevokes
<1>3. ASSUME NEW k \in Calls,
             \/ RemoveDevice(k) \/ GiveUp(k) \/ Accept(k) \/ SendDelegation(k) \/ Refuse(k)
             \/ RevokeFails(k) \/ RevokeAnswered(k) \/ ObserveMount(k) \/ ObserveErase(k)
      PROVE  UNCHANGED hub
  BY <1>3 DEF RemoveDevice, GiveUp, Accept, SendDelegation, Refuse, RevokeFails,
              RevokeAnswered, ObserveMount, ObserveErase
<1>4. ASSUME NEW d \in Devices, KernelFollows(d) PROVE UNCHANGED hub
  BY <1>4, ZenonT(30) DEF KernelFollows
<1>5. ASSUME NEW d \in Devices, Enrol(d) PROVE UNCHANGED <<log, row>>
  BY <1>5 DEF Enrol
<1>6. CASE Restart
  BY <1>6 DEF Restart
<1> QED
  BY <1>1, <1>2, <1>3, <1>4, <1>5, <1>6, ZenonT(30) DEF Next, Handle

\* A Claim is revoked only in the generation an intent names: a command that
\* arrives after the device was added again does not touch the new Claim.
THEOREM AuthorizedRevocation == Spec => OnlyAuthorizedIsRevoked
<1>1. ASSUME Inv, [Next]_vars, NEW d \in Devices, claim[d].active, ~claim'[d].active
      PROVE  \E r \in Requests : row[r] # NoRow /\ row[r].ref = <<d, claim[d].generation>>
  <2>1. CASE UNCHANGED hub
    <3>1. claim' = claim
      BY <2>1 DEF hub
    <3> QED
      BY <1>1, <3>1
  <2>2. CASE \E e \in Devices : Enrol(e)
    BY <1>1, <2>2 DEF Enrol, Inv, TypeOK
  <2>3. ASSUME NEW k \in Calls, k \in pending,
               claim' = [claim EXCEPT ![ref[k][1]].active = FALSE],
               claim[ref[k][1]].generation = ref[k][2]
        PROVE  \E r \in Requests : row[r] # NoRow /\ row[r].ref = <<d, claim[d].generation>>
    <3>1. ref[k][1] = d /\ ref[k] = <<d, claim[d].generation>>
      BY <1>1, <2>3, SMTT(30) DEF Inv, TypeOK, Refs
    <3>2. /\ request[k] \in Requests
          /\ row[request[k]] # NoRow /\ row[request[k]].ref = ref[k]
      BY <1>1, <2>3 DEF Inv, HandlersHaveRow, TypeOK
    <3> QED
      BY <3>1, <3>2
  <2> QED
    BY <1>1, <2>1, <2>2, <2>3, HubStep, ZenonT(30)
<1>2. Inv /\ [Next]_vars =>
        [\A d \in Devices : claim[d].active /\ ~claim'[d].active =>
           \E r \in Requests : row[r] # NoRow /\ row[r].ref = <<d, claim[d].generation>>]_vars
  BY <1>1, ZenonT(30)
<1> QED
  BY <1>2, Invariance, PTL DEF Spec, OnlyAuthorizedIsRevoked

\* An intent's content and its first result are never changed.
THEOREM RowsAreKept == Spec => RowIsKept
<1>1. ASSUME Inv, [Next]_vars, NEW r \in Requests, row[r] # NoRow
      PROVE  /\ row'[r] # NoRow
             /\ row'[r].ref = row[r].ref /\ row'[r].context = row[r].context
             /\ row[r].result # "none" => row'[r].result = row[r].result
  <2>1. CASE UNCHANGED row
    BY <1>1, <2>1
  <2>2. ASSUME NEW k \in Calls, row[request[k]] = NoRow,
               row' = [row EXCEPT ![request[k]] = NewRow(k)]
        PROVE  row'[r] = row[r]
    BY <1>1, <2>2 DEF Inv, TypeOK
  <2>3. ASSUME NEW k \in Calls, outcome[k] \in Results, MarkHubCommitted(k)
        PROVE  /\ row'[r] # NoRow
               /\ row'[r].ref = row[r].ref /\ row'[r].context = row[r].context
               /\ row[r].result # "none" => row'[r].result = row[r].result
    <3>1. CASE r = request[k]
      <4>1. row[r] \in Rows
        BY <1>1 DEF Inv, RefsOK
      <4>2. row'[r] = [row[r] EXCEPT !.result = outcome[k]]
        BY <1>1, <2>3, <3>1 DEF MarkHubCommitted, Inv, TypeOK
      <4>3. row'[r] \in Rows
        BY <2>3, <4>1, <4>2 DEF Rows
      <4>4. row'[r] # NoRow
        BY <4>3, NamesAssumption DEF NamesAssumption
      <4> QED
        BY <2>3, <3>1, <4>1, <4>2, <4>4, SMTT(30) DEF MarkHubCommitted, Rows
    <3>2. CASE r # request[k]
      BY <1>1, <2>3, <3>2 DEF MarkHubCommitted, Inv, TypeOK
    <3> QED
      BY <3>1, <3>2
  <2> QED
    BY <1>1, <2>1, <2>2, <2>3, RowStep
<1>2. Inv /\ [Next]_vars =>
        [\A r \in Requests : row[r] # NoRow =>
           /\ row'[r] # NoRow
           /\ row'[r].ref = row[r].ref /\ row'[r].context = row[r].context
           /\ row[r].result # "none" => row'[r].result = row[r].result]_vars
  BY <1>1
<1> QED
  BY <1>2, Invariance, PTL DEF Spec, RowIsKept

-----------------------------------------------------------------------------
(* The refinement.  The abstract target and record of a request.            *)

TargetOf == [r \in Requests |-> IF row[r] = NoRow THEN NoTarget ELSE row[r].ref]
Recorded == {r \in Requests : row[r] # NoRow /\ row[r].result # "none"}

\* An unchanged ledger has the same abstract state.
LEMMA SameLedger ==
    ASSUME UNCHANGED row
    PROVE  UNCHANGED <<TargetOf, Recorded>>
  BY DEF TargetOf, Recorded

\* A new row is an Intend.
LEMMA NewRowIsIntend ==
    ASSUME Inv, NEW k \in Calls, UNCHANGED log, at[k] = "sent",
           row[request[k]] = NoRow, row' = [row EXCEPT ![request[k]] = NewRow(k)]
    PROVE  \E r \in Requests : Abstract!Intend(r)
<1> DEFINE q == request[k]
<1>1. q \in Requests /\ ref[k] \in Targets
  BY DEF Inv, TypeOK, RefsOK, Working
<1>2. NewRow(k) # NoRow
  <2>1. NewRow(k) \in Rows
    BY DEF NewRow, Rows, Inv, TypeOK
  <2> QED
    BY <2>1, NamesAssumption DEF NamesAssumption
<1>3. row'[q] = NewRow(k) /\ \A r \in Requests : r # q => row'[r] = row[r]
  BY <1>1 DEF Inv, TypeOK
<1>4. TargetOf' = [TargetOf EXCEPT ![q] = ref[k]]
  <2>1. TargetOf' = [r \in Requests |-> IF row'[r] = NoRow THEN NoTarget ELSE row'[r].ref]
    BY DEF TargetOf
  <2>2. NewRow(k).ref = ref[k]
    BY DEF NewRow
  <2>3. \A r \in Requests : TargetOf'[r] = IF r = q THEN ref[k] ELSE TargetOf[r]
    BY <1>2, <1>3, <2>1, <2>2, SMTT(30) DEF TargetOf
  <2>4. [TargetOf EXCEPT ![q] = ref[k]]
          = [r \in Requests |-> IF r = q THEN ref[k] ELSE TargetOf[r]]
    BY <1>1, ZenonT(30) DEF TargetOf
  <2>5. TargetOf' = [r \in Requests |-> TargetOf'[r]]
    BY <2>1, SMTT(30)
  <2>6. TargetOf' = [r \in Requests |-> IF r = q THEN ref[k] ELSE TargetOf[r]]
    BY <2>3, <2>5
  <2> QED
    BY <2>4, <2>6
<1>5. Recorded' = Recorded
  <2>1. NewRow(k).result = "none"
    BY DEF NewRow
  <2> QED
    BY <1>1, <1>3, <2>1 DEF Recorded
<1>6. TargetOf[q] = NoTarget
  BY <1>1 DEF TargetOf
<1>7. TargetOf'[q] = ref[k]
  BY <1>1, <1>4 DEF TargetOf
<1>8. TargetOf' = [TargetOf EXCEPT ![q] = TargetOf'[q]]
  BY <1>4, <1>7
<1>9. Abstract!Intend(q)
  BY <1>1, <1>5, <1>6, <1>7, <1>8 DEF Abstract!Intend, TargetOf, Recorded, Targets
<1> QED
  BY <1>1, <1>9, ZenonT(30) DEF Abstract!Intend

\* A result that is written down is a Record.
LEMMA MarkIsRecord ==
    ASSUME Inv, NEW k \in Calls, UNCHANGED log, at[k] = "answered",
           outcome[k] \in Results, MarkHubCommitted(k)
    PROVE  \E r \in Requests : Abstract!Record(r)
<1> DEFINE q == request[k]
<1>1. /\ q \in Requests /\ row[q] # NoRow /\ row[q].ref = ref[k] /\ row[q] \in Rows
      /\ <<q, ref[k]>> \in log
  BY DEF Inv, TypeOK, HandlersHaveRow, Asked, ResultOK, RefsOK
<1>2. /\ row'[q] = [row[q] EXCEPT !.result = outcome[k]]
      /\ \A r \in Requests : r # q => row'[r] = row[r]
  BY <1>1 DEF MarkHubCommitted, Inv, TypeOK
<1>3. row'[q].ref = row[q].ref /\ row'[q].result = outcome[k] /\ row'[q] \in Rows
  BY <1>1, <1>2 DEF Rows
<1>4. row'[q] # NoRow
  BY <1>3, NamesAssumption DEF NamesAssumption
<1>5. TargetOf' = TargetOf
  BY <1>1, <1>2, <1>3, <1>4, ZenonT(30) DEF TargetOf
<1>6. Recorded' = Recorded \cup {q}
  BY <1>1, <1>2, <1>3, <1>4, ZenonT(30) DEF Recorded, Results
<1>7. TargetOf[q] = ref[k]
  BY <1>1 DEF TargetOf
<1>8. Abstract!Record(q)
  BY <1>1, <1>5, <1>6, <1>7 DEF Abstract!Record, TargetOf, Recorded
<1> QED
  BY <1>1, <1>8, ZenonT(30) DEF Abstract!Record

\* A command the Hub carries out is a CarryOut.
LEMMA RevocationIsCarryOut ==
    ASSUME Inv, NEW k \in Calls, UNCHANGED row, k \in pending,
           log' = log \cup {<<request[k], ref[k]>>}
    PROVE  \E r \in Requests : Abstract!CarryOut(r)
<1> DEFINE q == request[k]
<1>1. q \in Requests /\ row[q] # NoRow /\ row[q].ref = ref[k] /\ ref[k] \in Refs
  BY DEF Inv, TypeOK, HandlersHaveRow
<1>2. TargetOf[q] = ref[k] /\ ref[k] # NoTarget
  BY <1>1, NamesAssumption DEF NamesAssumption, TargetOf
<1>3. Abstract!CarryOut(q)
  BY <1>2, SameLedger DEF Abstract!CarryOut, TargetOf, Recorded
<1> QED
  BY <1>1, <1>3

\* The ledger and the Hub's log implement a durable intent: every step writes a
\* target down, carries one out, records a result, or leaves all three alone.
THEOREM Refinement == Spec => IntentIsDurable
<1>1. Init => Abstract!Init
  BY SMTT(30) DEF Init, Abstract!Init
<1>2. ASSUME Inv, [Next]_vars
      PROVE  Abstract!Next \/ UNCHANGED <<TargetOf, log, Recorded>>
  <2>1. CASE UNCHANGED row /\ UNCHANGED log
    BY <2>1, SameLedger
  <2>2. CASE ~UNCHANGED row
    BY <1>2, <2>2, RowStep, NewRowIsIntend, MarkIsRecord DEF Abstract!Next, Targets
  <2>3. CASE UNCHANGED row /\ ~UNCHANGED log
    BY <1>2, <2>3, HubStep, RevocationIsCarryOut, ZenonT(30) DEF Abstract!Next, hub
  <2> QED
    BY <2>1, <2>2, <2>3
<1>3. Inv /\ [Next]_vars => [Abstract!Next]_<<TargetOf, log, Recorded>>
  BY <1>2
<1> QED
  BY <1>1, <1>3, Invariance, PTL DEF Spec, IntentIsDurable, Abstract!Spec, TargetOf, Recorded
=============================================================================
