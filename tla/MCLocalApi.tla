------------------------------ MODULE MCLocalApi ------------------------------
(* Model-checking instance of LocalApi. *)
EXTENDS LocalApi, TLC

\* Phones, tokens, requests and inputs are interchangeable.
Symmetry == Permutations(Controllers) \cup Permutations(Tokens)
            \cup Permutations(Requests) \cup Permutations(Inputs)

\* After a reset of the authority nobody sets a Workspace up (one that was set up
\* before stays), and at most one session of each epoch has a request under way.
FewAfterReset ==
    epoch > 0 => /\ \A r \in Requests : task[r].kind # "setup"
                 /\ \A r, q \in Requests :
                       task[r].token # NoToken /\ task[q].token # NoToken
                         /\ task[r].epoch = task[q].epoch => r = q
=============================================================================
