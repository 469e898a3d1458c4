---------------------------- MODULE MCManagement ----------------------------
(* Model-checking instance of Management. *)
EXTENDS Management, FiniteSetsExt, TLC

Symmetry == Permutations(Calls) \cup Permutations(Companions) \cup Permutations(Bodies)

\* Requests that meet in what they change.  One the Local API gave up on goes on
\* as any other does, so it is enough to look at it alone.  What a phone is told
\* matters to others only in whether it repeats the request: a refusal for good, a
\* request to try again and done stand for all.  A request that ended without an
\* effect leaves the world as if it had not been made, an archive excepted, which
\* may have released Bodies.  A change of lifecycle under a revision does nothing
\* that one without could not do.
Involved(c) ==
    /\ c.told = Unsaid \/ c.stage = "told"
    /\ c.told.kind \in {"unsaid", "done", "conflict", "not_running"}
    /\ c.op \in {"archive", "restore", "assign"}
    /\ c.on # Strange
    /\ c.stage = "told" /\ c.op # "archive" => c.reached
    /\ IF c.op = "assign" THEN c.body # NoBody ELSE c.rev = 0

AtRest ==
    /\ owner.revision = 1 /\ released = {}
    /\ \A c \in Companions : companion[c].revision <= 1
    /\ \A b \in Bodies : body[b].revision = 1

\* Every other request is made alone, in an initial world.
Apart ==
    \A k \in Calls : call[k] # Idle /\ ~Involved(call[k]) =>
        AtRest /\ \A j \in Calls \ {k} : call[j] = Idle

\* Who answers for the Owner changes at most once, Companions and Bodies change
\* twice together, and the third change is looked at.
FewChanges ==
    /\ owner.revision <= 2
    /\ MapThenSumSet(LAMBDA c : companion[c].revision, Companions)
       + MapThenSumSet(LAMBDA b : body[b].revision, Bodies)
         <= Cardinality(Companions) + Cardinality(Bodies) + 2

\* A step that neither reads nor writes what requests share is taken at once;
\* the request may then stay before its next one for as long as it likes, so
\* no interleaving is lost.  Of the requests that meet, none reads a Body's
\* Companion from the inventory.
Silent == {k \in Calls : call[k].stage \in {"told", "sent", "scope", "endpoints", "claims",
                                              "outputs", "held", "admin"}}
SilentGoesFirst == Silent # {} => \E k \in Silent : call'[k] # call[k]
=============================================================================
