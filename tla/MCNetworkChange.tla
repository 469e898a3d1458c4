-------------------------- MODULE MCNetworkChange --------------------------
(* Model-checking instance of NetworkChange. *)
EXTENDS NetworkChange

\* One of the networks is only where the Host may start from.
Home == CHOOSE s \in Ssids : TRUE

\* The phone takes its operation ids in order: they are interchangeable, and none
\* becomes unused again, so every behaviour is like one of these.
First == CHOOSE o \in Ops : TRUE
InOrder == \A o \in Ops : op[o].state # "none" => op[First].state # "none"

\* A behaviour has an authority reset or a restart, not both, and changes to
\* the other network.  Counters only grow and a target stays, so what this
\* leaves out are whole behaviours.
OneUpset ==
    /\ resetEpoch + restarts <= 1
    /\ \A o \in Ops : op[o].target # Home
    /\ InOrder
=============================================================================
