------------------------ MODULE MCBootstrapAuthority ------------------------
(* Small instances of BootstrapAuthority for TLC.                           *)
EXTENDS BootstrapAuthority, TLC

\* Phones are interchangeable; session ids are ordered.
Symmetry == Permutations(Controllers)

\* the instant a text was written at
Instant(text) == IF text % PerSecond = 0 THEN text - PerSecond ELSE text

LastSetBack == 2

\* bound: the wall clock is set back once, after the first window was minted
SetBackEarly ==
    now' < now => /\ now <= LastSetBack
                  /\ Cardinality(Minted(session)) = 1
                  /\ \A s \in Minted(session) : Instant(session[s].createdAt) < now

(* bounds: a wrong code and an authenticated Controller, which change        *)
(* nothing else, are followed through the first instants.  Once the clock    *)
(* can no longer be set back the order of the ids says nothing, and one      *)
(* order stands for all.                                                     *)
Early ==
    now > LastSetBack =>
        /\ \A s \in SessionIds : session[s].failedAttempts = 0
        /\ \A l \in Links : link[l].controller = Nobody /\ link[l].challenge = Nobody
        /\ \A s, t \in SessionIds :
              s < t /\ session[t].state # "absent" =>
                  /\ session[s].state # "absent"
                  /\ Instant(session[s].createdAt) < Instant(session[t].createdAt)
=============================================================================
