---------------------------- MODULE DurableIntent ----------------------------
(***************************************************************************)
(* What a workflow with a durable intent promises, whatever is lost on the *)
(* way: a request's target is written down once, before the authority is   *)
(* asked; the authority carries out that target and no other for it; and a *)
(* result is written down only for what the authority has carried out.     *)
(***************************************************************************)
CONSTANTS Requests, Targets, NoTarget

VARIABLES
    target,     \* of each request: its target, or NoTarget
    effects,    \* pairs of a request and a target carried out
    recorded    \* requests with a result

Init ==
    /\ target = [r \in Requests |-> NoTarget]
    /\ effects = {}
    /\ recorded = {}

Intend(r) ==
    /\ target[r] = NoTarget
    /\ target'[r] \in Targets
    /\ target' = [target EXCEPT ![r] = target'[r]]
    /\ UNCHANGED <<effects, recorded>>

CarryOut(r) ==
    /\ target[r] # NoTarget
    /\ effects' = effects \cup {<<r, target[r]>>}
    /\ UNCHANGED <<target, recorded>>

Record(r) ==
    /\ <<r, target[r]>> \in effects
    /\ recorded' = recorded \cup {r}
    /\ UNCHANGED <<target, effects>>

Next ==
    \E r \in Requests :
        \/ Intend(r)
        \/ CarryOut(r)
        \/ Record(r)

Spec == Init /\ [][Next]_<<target, effects, recorded>>
=============================================================================
