----------------------------- MODULE FieldFollowers -----------------------------
(***************************************************************************)
(* The Field followed by the subgraph and by the interface of each         *)
(* account, which rebuilds the account's plots from the account's events.  *)
(***************************************************************************)
EXTENDS Subgraph

CONSTANT NaN    \* of the program that processes events

VARIABLE rebuilt    \* the plots that the interface of each account has

EP == INSTANCE EventProcessor

fieldFollowerVars == <<subgraphVars, rebuilt>>

FollowField(events) ==
    /\ Mirror(events)
    /\ rebuilt' = [a \in Accounts |-> EP!ProcessField(a, rebuilt[a], EP!FieldEventsOf(a, events))]

FieldFollowersInit ==
    /\ SubgraphInit
    /\ rebuilt = [a \in Accounts |-> EP!NoPlots]

FieldFollowersNext ==
    \/ SunriseCall(FollowField)
    \/ \E c \in Accounts :
          \/ FieldEvents(c, FollowField)
          \/ ListingEvents(c, FollowField)
          \/ OrderEvents(c, FollowField)

FieldFollowersSpec == FieldFollowersInit /\ [][FieldFollowersNext]_fieldFollowerVars
(***************************************************************************)
(* Properties                                                              *)
(***************************************************************************)
ReadyOf(a, i) == Greater(0, Lesser(plots[a][i], harvestable - i))

\* From the events of an account alone, in which a transfer does not say out
\* of which plot, and a harvest not what it took of which, the interface
\* rebuilds the account's plots, and splits its Pods where the line does.
\* As for PlotsMirrored, no transfer begins inside the last plot of the line
\* (InsideLast).
PlotsRebuilt ==
    \A a \in Accounts :
        LET owned  == {i \in Index : plots[a][i] > 0}
            parsed == EP!ParsePlots(rebuilt[a], harvestable)
        IN  /\ rebuilt[a] = [i \in owned |-> plots[a][i]]
            /\ parsed.harvestablePods = Sum([i \in owned |-> ReadyOf(a, i)])
            /\ parsed.pods = Sum([i \in owned |-> plots[a][i] - ReadyOf(a, i)])
            /\ \A p \in DOMAIN parsed.harvestablePlots : ReadyOf(a, p) > 0
===============================================================================
