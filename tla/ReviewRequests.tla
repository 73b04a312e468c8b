--------------------------- MODULE ReviewRequests ---------------------------
(***************************************************************************)
(* Asking one party to review a pull request, and telling it.              *)
(*                                                                         *)
(*   db/stores/assignments.py, services/sync/notifications.py,             *)
(*   services/reviews.py, the people of services/sync/items.py             *)
(*                                                                         *)
(* GitHub keeps who is asked and says so in every delivery of the pull     *)
(* request; it drops who answers, and says so only in the delivery of a    *)
(* person's review.  The party's row in item_assignments keeps when GitHub *)
(* asked, whether the ping is spent, and when the review came.  A sync, by *)
(* its advisory lock alone with the item, writes the row and then pings if *)
(* a ping is owed; a review closes the row without that lock.  Parties     *)
(* meet in a post and nowhere else, so one is modelled.  It is an account: *)
(* the name the row carries is left out.                                   *)
(***************************************************************************)
EXTENDS Naturals, Sequences

CONSTANTS
    Syncs,       \* deliveries and commands that may be handled at once
    MaxCalls,    \* bound: deliveries GitHub sends, and /pr commands
    MaxTroubles, \* bound: failed posts, deaths, locks lost
    NULL

RequestsAssumption ==
    /\ NULL \notin Syncs \cup [told : BOOLEAN, since : Nat, answered : Nat]
    /\ {MaxCalls, MaxTroubles} \subseteq Nat

VARIABLES
    party,     \* "person" or "team"
    second,    \* GitHub's clock
    asked,     \* GitHub's list has the party
    letters,   \* the deliveries GitHub sent, in order
    unread,    \* which of them are not handled yet
    row,       \* the party's row in item_assignments, or NULL
    mark,      \* github_updated_at, 0 before the first
    applied,   \* last_delivery_id, 0 for null
    item,      \* the sync holding the item's advisory lock
    doing,     \* doing[s]: where the sync is
    payload,   \* payload[s]: what it was handed
    fetches,   \* how many commands there were
    troubles,  \* how many faults there were
    asks,      \* history: how often GitHub was told to ask
    rung,      \* history: pings posted, or spent unsaid, one for each ask at most
    unrung,    \* history: asked, and not pinged since
    excused    \* history: a trouble whose effect is accepted happened

hub          == <<second, asked, letters>>
table        == <<row, mark, applied>>
sync         == <<item, doing, payload>>
counts       == <<asks, rung, unrung>>
requestsVars == <<party, hub, unread, table, sync, fetches, troubles, counts, excused>>

NoLoad == [arrived |-> 0, stamp |-> 0, listed |-> FALSE, named |-> FALSE]

Init ==
    /\ party \in {"person", "team"}
    /\ second = 1 /\ asked = FALSE /\ letters = <<>> /\ unread = {}
    /\ row = NULL /\ mark = 0 /\ applied = 0
    /\ item = NULL
    /\ doing   = [s \in Syncs |-> "idle"]
    /\ payload = [s \in Syncs |-> NoLoad]
    /\ fetches = 0 /\ troubles = 0
    /\ asks = 0 /\ rung = 0 /\ unrung = FALSE /\ excused = FALSE

Trouble == troubles < MaxTroubles /\ troubles' = troubles + 1
Room == Len(letters) + fetches < MaxCalls

(***************************************************************************)
(* GitHub.  Its stamps are of one second, and do not go back.              *)
(***************************************************************************)

Later == second' \in {second, second + 1}

Send(review, named, now) ==
    /\ Room
    /\ Later
    /\ letters' = Append(letters, [review |-> review, named |-> named,
                                   listed |-> now \/ named, stamp |-> second'])
    /\ unread' = unread \cup {Len(letters) + 1}
    /\ asked' = now

\* Two seconds that are one: of an ask and something older about the party, or of
\* an event and what a command read.
TiedAsk == \E n \in DOMAIN letters : letters[n].stamp = second' /\ letters[n].listed
TiedRead == \E s \in Syncs : payload[s].arrived = 0 /\ payload[s].stamp = second' /\ payload[s].listed # asked'

\* review_requested names whom it is about at the top level.
Ask ==
    /\ ~asked
    /\ Send(FALSE, TRUE, TRUE)
    /\ asks' = asks + 1 /\ unrung' = TRUE
    /\ excused' = (excused \/ TiedAsk \/ TiedRead)
    /\ UNCHANGED <<party, table, sync, fetches, troubles, rung>>

\* review_request_removed, or any other event: it carries the list alone.
Withdraw(now) ==
    /\ now => asked
    /\ Send(FALSE, FALSE, now)
    /\ unrung' = (unrung /\ now)
    /\ excused' = (excused \/ TiedRead)
    /\ UNCHANGED <<party, table, sync, fetches, troubles, asks, rung>>

\* A person reviews, asked or not.
Review ==
    /\ party = "person"
    /\ Send(TRUE, TRUE, FALSE)
    /\ unrung' = FALSE
    /\ excused' = (excused \/ TiedRead)
    /\ UNCHANGED <<party, table, sync, fetches, troubles, asks, rung>>

\* A member reviews, and GitHub drops the team without a word.
TeamAnswered ==
    /\ party = "team" /\ asked
    /\ Later /\ asked' = FALSE /\ unrung' = FALSE
    /\ UNCHANGED <<party, letters, unread, table, sync, fetches, troubles, asks, rung, excused>>

(***************************************************************************)
(* The row.                                                                *)
(***************************************************************************)

Fresh(stamp) == [told |-> FALSE, since |-> stamp, answered |-> 0]

\* _already_told_and_newer()
ToldAndNewer(r, stamp) == r.told /\ r.since >= stamp

\* ItemAssignmentStore.replace()
Replaced(load) ==
    IF row = NULL THEN IF load.listed THEN Fresh(load.stamp) ELSE NULL
    ELSE IF load.listed \/ ToldAndNewer(row, load.stamp) THEN row ELSE NULL

\* Mutant: an older delivery handled late opens again what was answered since.
AnsweredAtAll(r, load) == load.listed /\ r.answered # 0

\* reopen_if_newer(), for whoever is on the list.
AnsweredBefore(r, load) == load.listed /\ r.answered # 0 /\ r.answered < load.stamp

\* reopen_request(), for the one the event is about.
ToldOfAnOlder(r, load) == load.named /\ r.told /\ r.since < load.stamp

Reopened(r, load) ==
    IF r # NULL /\ (AnsweredBefore(r, load) \/ ToldOfAnOlder(r, load)) THEN Fresh(load.stamp) ELSE r

(***************************************************************************)
(* A sync of the pull request.                                             *)
(***************************************************************************)

\* It is left, by returning or by raising, and the lock with it.
Leave(s) ==
    /\ doing'   = [doing EXCEPT ![s] = "idle"]
    /\ payload' = [payload EXCEPT ![s] = NoLoad]
    /\ item'    = IF item = s THEN NULL ELSE item

Handled(s) == Leave(s) /\ unread' = unread \ {payload[s].arrived}
Raise(s)   == Leave(s) /\ UNCHANGED unread
Goto(s, where) == doing' = [doing EXCEPT ![s] = where]

Deliver(s, n) ==
    /\ doing[s] = "idle" /\ n \in unread /\ ~letters[n].review
    /\ \A t \in Syncs : payload[t].arrived # n
    /\ Goto(s, "waiting")
    /\ payload' = [payload EXCEPT ![s] = [arrived |-> n, stamp |-> letters[n].stamp,
                                          listed |-> letters[n].listed, named |-> letters[n].named]]
    /\ UNCHANGED <<party, hub, unread, table, item, fetches, troubles, counts, excused>>

\* /pr: the pull request as GitHub has it, with no delivery to place it by.
Fetch(s) ==
    /\ doing[s] = "idle" /\ letters # <<>>
    /\ Room /\ fetches' = fetches + 1
    /\ Goto(s, "waiting")
    /\ payload' = [payload EXCEPT ![s] = [NoLoad EXCEPT !.stamp = second, !.listed = asked]]
    /\ UNCHANGED <<party, hub, unread, table, item, troubles, counts>>
    /\ excused' = \/ excused \/ TiedRead
                  \/ \E n \in unread : letters[n].stamp = second /\ letters[n].listed # asked

Superseded(load) ==
    \/ load.stamp < mark
    \/ load.stamp = mark /\ 0 \notin {load.arrived, applied} /\ load.arrived < applied

\* A delivery out of date about everything else may still reopen a request.
Record(s) ==
    LET load == payload[s] IN
    /\ doing[s] = "waiting" /\ item = NULL
    /\ IF Superseded(load)
       THEN /\ row' = Reopened(row, [load EXCEPT !.listed = FALSE])
            /\ Handled(s)
            /\ UNCHANGED <<mark, applied>>
       ELSE /\ row' = Reopened(Replaced(load), load)
            /\ mark' = load.stamp
            /\ applied' = IF load.arrived = 0 THEN applied ELSE load.arrived
            /\ item' = s
            /\ Goto(s, "claiming")
            /\ UNCHANGED <<unread, payload>>
    /\ UNCHANGED <<party, hub, fetches, troubles, counts, excused>>

OwedAPing == row # NULL /\ ~row.told /\ row.answered = 0

ClaimNone(s) ==
    /\ doing[s] = "claiming" /\ ~OwedAPing
    /\ Handled(s)
    /\ UNCHANGED <<party, hub, table, fetches, troubles, counts, excused>>

ClaimPing(s) ==
    /\ doing[s] = "claiming" /\ OwedAPing
    /\ row' = [row EXCEPT !.told = TRUE]
    /\ Goto(s, "pinging")
    /\ UNCHANGED <<party, hub, unread, mark, applied, item, payload, fetches, troubles, counts, excused>>

\* Said, or spent because the block or the thread's own choice stands for it.
Ping(s) ==
    /\ doing[s] = "pinging"
    /\ rung' = rung + 1 /\ unrung' = FALSE
    /\ Handled(s)
    /\ UNCHANGED <<party, hub, table, fetches, troubles, asks, excused>>

\* The post failed or was cancelled; after the line was there, it says it twice.
PingFails(s) ==
    /\ doing[s] = "pinging"
    /\ Trouble
    /\ unrung' \in {unrung, FALSE}
    /\ Goto(s, "giving_back")
    /\ UNCHANGED <<party, hub, unread, table, item, payload, fetches, asks, rung, excused>>

\* release_notifications(): by account, whoever claimed it since.
Released == IF row = NULL THEN NULL ELSE [row EXCEPT !.told = FALSE]

GiveBack(s) ==
    /\ doing[s] = "giving_back"
    /\ row' = Released
    /\ Raise(s)
    /\ UNCHANGED <<party, hub, mark, applied, fetches, troubles, counts, excused>>

\* suppress(Exception): what failed the post may fail this, and the first is raised.
GiveBackFails(s) ==
    /\ doing[s] = "giving_back"
    /\ excused' = TRUE
    /\ Raise(s)
    /\ UNCHANGED <<party, hub, table, fetches, troubles, counts>>

\* The process died, or a call beside these raised.
Abort(s) ==
    /\ doing[s] # "idle"
    /\ Trouble
    /\ excused' = (excused \/ doing[s] \in {"pinging", "giving_back"})
    /\ Raise(s)
    /\ UNCHANGED <<party, hub, table, fetches, counts>>

\* The connection under the lock died; the sync goes on.
LoseLock(s) ==
    /\ item = s
    /\ Trouble
    /\ item' = NULL
    /\ UNCHANGED <<party, hub, unread, table, doing, payload, fetches, counts, excused>>

(***************************************************************************)
(* ReviewRequestLedger.fulfilled()                                         *)
(***************************************************************************)

AskedByThen(r, stamp) == r # NULL /\ r.since <= stamp

\* A row not told of keeps the moment of its first ask, so a review of that one,
\* handled after the next was recorded, closes both until another event.
StillToTell == ~row.told \/ \E s \in Syncs : doing[s] \in {"pinging", "giving_back"}

\* The delivery goes on to post the review, and may be handled again after it.
Fulfil(n) ==
    /\ n \in unread /\ letters[n].review
    /\ row' = IF AskedByThen(row, letters[n].stamp) THEN [row EXCEPT !.answered = letters[n].stamp]
              ELSE row
    /\ excused' = \/ excused
                  \/ row' # row /\ StillToTell /\ row.since <= letters[n].stamp /\ letters[n].stamp < mark
    /\ \/ unread' = unread \ {n} /\ UNCHANGED troubles
       \/ Trouble /\ UNCHANGED unread
    /\ UNCHANGED <<party, hub, mark, applied, sync, fetches, counts>>

GitHub == Ask \/ Review \/ TeamAnswered \/ \E now \in BOOLEAN : Withdraw(now)

Sync(s) ==
    \/ \E n \in unread : Deliver(s, n)
    \/ Fetch(s) \/ Record(s) \/ ClaimNone(s) \/ ClaimPing(s) \/ Ping(s)
    \/ PingFails(s) \/ GiveBack(s) \/ GiveBackFails(s) \/ Abort(s) \/ LoseLock(s)

Next == GitHub \/ (\E n \in unread : Fulfil(n)) \/ \E s \in Syncs : Sync(s)

Spec == Init /\ [][Next]_requestsVars

(***************************************************************************)
(* Properties.                                                             *)
(***************************************************************************)

TypeOK ==
    /\ asked \in BOOLEAN /\ unread \subseteq DOMAIN letters
    /\ row = NULL \/ row \in [told : BOOLEAN, since : Nat \ {0}, answered : Nat]
    /\ mark \in Nat /\ applied \in 0 .. Len(letters)
    /\ item \in Syncs \cup {NULL}
    /\ \A s \in Syncs : doing[s] \in {"idle", "waiting", "claiming", "pinging", "giving_back"}
    /\ \A s \in Syncs : payload[s] = NoLoad <=> doing[s] = "idle"

\* Nobody is pinged more often than they were asked: not by a delivery handled
\* twice, out of order or beside another, nor by a review crossing an event.
RungOncePerAsk == excused \/ rung <= asks

\* Once every delivery is handled, whoever is asked was pinged since the ask or
\* the next event will, unless two things about them carry one second, a ping's
\* hand-back was lost, or the answer to an ask came through after the next one.
ToldOrOwed ==
    unread = {} /\ (\A s \in Syncs : doing[s] = "idle") => excused \/ ~unrung \/ OwedAPing

\* As often as asked, and no less: a ping is neither doubled nor lost.
PingedAsAsked == RungOncePerAsk /\ ToldOrOwed
=============================================================================
