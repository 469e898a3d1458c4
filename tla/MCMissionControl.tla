-------------------------- MODULE MCMissionControl --------------------------
(* Two bodies or a few turns and tasks, for TLC.                            *)
EXTENDS MissionControl, TLC

Symmetry == Permutations(Companions)

\* No lane reads both, so a behaviour moves the bodies or the log, each with the
\* sources that are read from it; every source fails while neither has moved.
OneOfBoth ==
    LET claimed == \E b \in Bodies : claim[b].generation # 0
        Only(sources) == reading.step \in {"composed", "map"} => reading.faults \subseteq sources
    IN  /\ log # <<>> => ~claimed /\ Only({"agent.turns", "agent.long_tasks"} \cup Listless)
        /\ claimed => Only({"control-plane", "data.owners", "channel.presence",
                            "channel.presence of others"})
=============================================================================
