---------------------------- MODULE MCDeliveries ----------------------------
(***************************************************************************)
(* The queue of deliveries, two things deliveries change that it has no    *)
(* part in, who is asked to review and the App's installations; and what   *)
(* reaches the bot from Discord without a delivery, the words of a logged  *)
(* thread.  A behaviour chooses one of the four, and the others stay as    *)
(* they were.                                                              *)
(***************************************************************************)
EXTENDS DeliveryQueue, TLC

CONSTANTS
    w1, w2,
    Syncs, MaxCalls, MaxTroubles,
    Callers, MaxChanges, MaxBreaks,
    Commands, MaxOrders, Messages, MaxRestarts

VARIABLES
    part,
    party, second, asked, letters, unread, row, mark, applied, item, doing, payload,
    fetches, troubles, asks, rung, unrung, excused,
    app, lastId, mail, entry, minted, call, discovery, minting, signup, changes, calls,
    breaks, learnt, spent, muddled,
    pointer, gone, gateway, open, live, notice, at, where, message, said, told, orders,
    restarts, crossed, late, astray

Requests == INSTANCE ReviewRequests
Tokens   == INSTANCE Installations
Logs     == INSTANCE Conversations

ASSUME DeliveriesAssumption ==
    /\ Requests!RequestsAssumption /\ Tokens!InstallationsAssumption
    /\ Logs!ConversationsAssumption

requestsAside ==
    <<party, second, asked, letters, unread, row, mark, applied, item, doing, payload,
      fetches, troubles, asks, rung, unrung, excused>>
tokensAside ==
    <<app, lastId, mail, entry, minted, call, discovery, minting, signup, changes, calls,
      breaks, learnt, spent, muddled>>
logsAside ==
    <<pointer, gone, gateway, open, live, notice, at, where, message, said, told, orders,
      restarts, crossed, late, astray>>
allVars == <<part, vars, requestsAside, tokensAside, logsAside>>

DeliveriesInit ==
    /\ part \in {"queue", "requests", "tokens", "logs"}
    /\ Init /\ Requests!Init /\ Tokens!Init /\ Logs!Init
    \* Those that may start in several ways do so where they are looked at.
    /\ part # "requests" => party = "person"
    /\ part # "tokens" => entry = app

RunTheQueue ==
    part = "queue" /\ Next /\ UNCHANGED <<part, requestsAside, tokensAside, logsAside>>
RequestReviews ==
    part = "requests" /\ Requests!Next /\ UNCHANGED <<part, vars, tokensAside, logsAside>>
MintTokens ==
    part = "tokens" /\ Tokens!Next /\ UNCHANGED <<part, vars, requestsAside, logsAside>>
LogThreads ==
    part = "logs" /\ Logs!Next /\ UNCHANGED <<part, vars, requestsAside, tokensAside>>

DeliveriesNext == RunTheQueue \/ RequestReviews \/ MintTokens \/ LogThreads

DeliveriesSpec == DeliveriesInit /\ [][DeliveriesNext]_allVars

\* Replicas may change places.  Who syncs and who calls GitHub are given the same values: only
\* one of the parts is in use at a time.
Replicas == Permutations({w1, w2})

\* The other three keep their types.
OthersTypeOK == Requests!TypeOK /\ Tokens!TypeOK /\ Logs!TypeOK

\* Whoever is asked is pinged, once per ask.
PingedAsAsked == Requests!PingedAsAsked

\* A burst of callers mints once, and the map of installations ends where GitHub is.
TokensServe == Tokens!MintsOnce /\ Tokens!MapFollowsGitHub

\* Nobody is captured who was not told, and nobody was told who is not captured.
HeardAsTold == Logs!HeardAsTold
=============================================================================
