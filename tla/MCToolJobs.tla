----------------------------- MODULE MCToolJobs -----------------------------
(* A small workstation, for TLC.                                            *)
EXTENDS ToolJobs, TLC

Symmetry ==
    Permutations(Jobs) \cup Permutations(Boards) \cup Permutations(Sessions)
    \cup Permutations(Streams)

\* bound: a second stream is followed while no monitor and no probe is there,
\* which share no state with streams
Apart ==
    \/ Cardinality({q \in Streams : stream[q].at # "idle"}) <= 1
    \/ \A s \in Sessions : session[s].at = "idle"
=============================================================================
