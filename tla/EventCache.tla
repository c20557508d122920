------------------------------- MODULE EventCache -------------------------------
(***************************************************************************)
(* How the interface keeps the events of the accounts that connect to it   *)
(* and shows the Field of the connected one: state/cosmomage/events2 and   *)
(* state/cosmomage/field.                                                  *)
(*                                                                         *)
(* A fetch is a chain of promises.  It reads its account and its cache     *)
(* when the page renders it, and everything may move while it waits: the   *)
(* chain, the connected account, the cache, what another fetch shows.      *)
(*                                                                         *)
(* An event of an account is the number of the block that holds it (at     *)
(* most one per block).  The wallet stays on one chain, which is not       *)
(* reorganised: caches are of an account on a chain, and the effect also   *)
(* runs when the chain is changed.                                         *)
(***************************************************************************)
EXTENDS Integers, Sequences

CONSTANTS Accounts,     \* the accounts of the wallet
          Active,       \* bound: those of them that have events
          Nobody,       \* no account is connected, or nothing is shown
          Calls,        \* the fetches that may be under way at a time
          MaxBlocks     \* bound: the blocks that are mined

ASSUME EventCacheAssumption ==
    /\ Active \subseteq Accounts
    /\ Nobody \notin Accounts
    /\ MaxBlocks \in Nat

VARIABLES
    log,            \* block -> the accounts that have an event in it
    account,        \* useAccount()
    initialized,    \* harvestableIndex has been read
    caches,         \* account -> events2[account]: the events, endBlockNumber
    calls,          \* call -> how far a fetch is, and what it captured
    shown,          \* whose events the shown Field was made of, and which
    failed          \* the accounts a request failed for since it was cleared

vars == <<log, account, initialized, caches, calls, shown, failed>>

Latest == Len(log)

NoCache == [events |-> <<>>, end |-> 0]
Cleared == [of |-> Nobody, events |-> <<>>]
Idle    == [stage |-> "idle"]

\* The events of account a in blocks from to to, in their order.
Found(a, from, to) ==
    LET found[b \in 0..to] ==
            IF b = 0 THEN <<>>
            ELSE IF b >= from /\ a \in log[b] THEN Append(found[b - 1], b)
            ELSE found[b - 1]
    IN  found[to]

\* A mutant of StartBlock: the last block searched is searched again.
StartAtEnd(a) == caches[a].end

\* The block behind those already searched; 0, the genesis, when none were.
StartBlock(a) == IF caches[a].end = 0 THEN 0 ELSE caches[a].end + 1

\* What a fetch of account a captures when it is rendered.
Captured(a, stage) ==
    [stage |-> stage, account |-> a, existing |-> caches[a].events,
     start |-> StartBlock(a), end |-> 0]

Under(c) == calls[c] # Idle

EventCacheInit ==
    /\ log = <<>>
    /\ account = Nobody
    /\ initialized = FALSE
    /\ caches = [a \in Accounts |-> NoCache]
    /\ calls = [c \in Calls |-> Idle]
    /\ shown = Cleared
    /\ failed = {}

\* The effect of the updater, when the account or initialized have changed.
Refresh(a, ready) ==
    /\ shown' = Cleared
    /\ failed' = {}
    /\ IF a # Nobody /\ ready
       THEN \E c \in Calls :
               /\ ~Under(c)
               /\ calls' = [calls EXCEPT ![c] = Captured(a, "asking")]
       ELSE UNCHANGED calls

\* The wallet connects another account, or none.
Connect(a) ==
    /\ a # account
    /\ account' = a
    /\ Refresh(a, initialized)
    /\ UNCHANGED <<log, initialized, caches>>

\* A mutant of ReadIndex: the effect does not depend on initialized.
ReadIndexOnly ==
    /\ ~initialized
    /\ initialized' = TRUE
    /\ UNCHANGED <<log, account, caches, calls, shown, failed>>

\* The updater of the protocol's Field reads harvestableIndex.
ReadIndex ==
    /\ ~initialized
    /\ initialized' = TRUE
    /\ Refresh(account, TRUE)
    /\ UNCHANGED <<log, account, caches>>

\* A form sends a transaction; the fetch it makes after the receipt was
\* rendered with the form.
Submit(c) ==
    /\ account \in Active
    /\ initialized
    /\ ~Under(c)
    /\ calls' = [calls EXCEPT ![c] = Captured(account, "signed")]
    /\ UNCHANGED <<log, account, initialized, caches, shown, failed>>

\* The wallet refuses the transaction, or it reverts: the form fetches nothing.
Reject(c) ==
    /\ calls[c].stage = "signed"
    /\ calls' = [calls EXCEPT ![c] = Idle]
    /\ UNCHANGED <<log, account, initialized, caches, shown, failed>>

\* A block with the transactions of the calls in sent, and events of others.
Mine(others, sent) ==
    /\ Latest < MaxBlocks
    /\ \A c \in sent : calls[c].stage = "signed"
    /\ log' = Append(log, others \cup {calls[c].account : c \in sent})
    /\ calls' = [c \in Calls |->
            IF c \in sent THEN [calls[c] EXCEPT !.stage = "asking"] ELSE calls[c]]
    /\ UNCHANGED <<account, initialized, caches, shown, failed>>
-----------------------------------------------------------------------------
\* getBlockNumber answers that the call's blocks were all searched.
NothingNew(c) ==
    /\ calls[c].stage = "asking"
    /\ calls[c].start > Latest
    /\ shown' = [of |-> calls[c].account, events |-> calls[c].existing]
    /\ calls' = [calls EXCEPT ![c] = Idle]
    /\ UNCHANGED <<log, account, initialized, caches, failed>>

\* getBlockNumber answers: the queries end at the latest block.
Query(c) ==
    /\ calls[c].stage = "asking"
    /\ calls[c].start <= Latest
    /\ calls' = [calls EXCEPT ![c].stage = "querying", ![c].end = Latest]
    /\ UNCHANGED <<log, account, initialized, caches, shown, failed>>

\* A mutant of Ingested: the events found replace those of the cache.
Replaced(cache, found, end) == [events |-> found, end |-> end]

\* The reducer of ingestEvents.
Ingested(cache, found, end) == [events |-> cache.events \o found, end |-> end]

\* The queries answer: the cache takes the events, and the Field is shown
\* that they give behind the events that the call had captured.
Ingest(c) ==
    /\ calls[c].stage = "querying"
    /\ LET a     == calls[c].account
           found == Found(a, calls[c].start, calls[c].end)
       IN  /\ caches' = [caches EXCEPT ![a] = Ingested(@, found, calls[c].end)]
           /\ shown' = [of |-> a, events |-> calls[c].existing \o found]
    /\ calls' = [calls EXCEPT ![c] = Idle]
    /\ UNCHANGED <<log, account, initialized, failed>>

\* A request fails: nobody catches it, and nothing tries again.
Fail(c) ==
    /\ calls[c].stage \in {"asking", "querying"}
    /\ calls' = [calls EXCEPT ![c] = Idle]
    /\ failed' = failed \cup {calls[c].account}
    /\ UNCHANGED <<log, account, initialized, caches, shown>>

\* The page is loaded anew; no state of it was kept.
Reload ==
    /\ account' = Nobody
    /\ initialized' = FALSE
    /\ caches' = [a \in Accounts |-> NoCache]
    /\ calls' = [c \in Calls |-> Idle]
    /\ shown' = Cleared
    /\ failed' = {}
    /\ UNCHANGED log

Answer(c) == NothingNew(c) \/ Query(c) \/ Ingest(c) \/ Fail(c)

EventCacheNext ==
    \/ \E a \in Accounts \cup {Nobody} : Connect(a)
    \/ ReadIndex
    \/ \E c \in Calls : Submit(c) \/ Reject(c) \/ Answer(c)
    \/ \E others \in SUBSET Active, sent \in SUBSET Calls : Mine(others, sent)
    \/ Reload

\* Every request is answered, or fails.
EventCacheFairness == \A c \in Calls : WF_vars(Answer(c))

EventCacheSpec == EventCacheInit /\ [][EventCacheNext]_vars /\ EventCacheFairness
(***************************************************************************)
(* Properties                                                              *)
(***************************************************************************)
\* The blocks up to h with an event of account a, and the events of a sequence.
BlocksOf(a, h)  == {b \in 1..Latest : b <= h /\ a \in log[b]}
EventsIn(found) == {found[i] : i \in DOMAIN found}

\* The cache of an account misses no event of the blocks up to its
\* endBlockNumber and holds none that is not the account's, although fetches
\* overlap, answer late and take endBlockNumber back, fail, and outlive the
\* connection of their account.
CacheComplete ==
    \A a \in Accounts :
        /\ BlocksOf(a, caches[a].end) \subseteq EventsIn(caches[a].events)
        /\ EventsIn(caches[a].events) \subseteq BlocksOf(a, Latest)

ShowsAll(a, h) == shown.of = a /\ BlocksOf(a, h) \subseteq EventsIn(shown.events)

Waiting(a) ==
    /\ account = a /\ initialized /\ shown = Cleared
    /\ \A c \in Calls : calls[c] # Idle /\ calls[c].account = a => calls[c].stage # "querying"

\* An account that is connected when its Field can be read, and sees nothing
\* yet, in the end sees a Field made of all its events of the blocks there were
\* when nothing was queried yet, unless it leaves, the page is reloaded, or a
\* request of it failed.
FieldIsShown ==
    \A a \in Accounts, h \in 0..MaxBlocks :
        (Waiting(a) /\ Latest = h)
            ~> (ShowsAll(a, h) \/ a \in failed \/ account # a)

\* The Pods that are shown are those of the account that is connected.
ShownIsConnected == shown.events = <<>> \/ shown.of = account
===============================================================================
