------------------------------ MODULE MCEventCache ------------------------------
(***************************************************************************)
(* The event caches, with a note of the accounts whose fetches have been   *)
(* under way two at a time since their cache was empty.                    *)
(***************************************************************************)
EXTENDS EventCache

VARIABLE crossed

crossing ==
    {a \in Accounts : \E c, d \in Calls :
        /\ c # d
        /\ Under(c) /\ calls[c].account = a
        /\ Under(d) /\ calls[d].account = a}

MCInit == EventCacheInit /\ crossed = {}

MCNext ==
    /\ EventCacheNext
    /\ crossed' = {a \in crossed : caches'[a] # NoCache} \cup crossing'

MCSpec == MCInit /\ [][MCNext]_<<vars, crossed>> /\ EventCacheFairness

\* An account whose fetches follow one another has each of its events once, in
\* the order of the chain, and no other, whatever failed or was switched between
\* them: the ranges of blocks that are searched neither overlap nor leave a gap.
SearchedOnce ==
    \A a \in Accounts \ crossed : caches[a].events = Found(a, 0, caches[a].end)
===============================================================================
