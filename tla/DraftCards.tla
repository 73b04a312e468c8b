----------------------------- MODULE DraftCards -----------------------------
(***************************************************************************)
(* A draft card of the mirrored board and the thread that is its own.      *)
(*                                                                         *)
(*   the first half of services/projects.py, services/sync/draft_cards.py, *)
(*   the drafts of services/sync/refresh.py, db/stores/tracked_items.py    *)
(*                                                                         *)
(* One card, its row and its thread: the pass that polls the board, and a  *)
(* /refresh that mirrors what has no thread.  Nothing about a draft is an  *)
(* event, so whatever a pass leaves behind, only a later pass makes good.  *)
(* Which board a row belongs to and when a question is due are left out:   *)
(* a missing card may be asked about by any pass, or by none.              *)
(***************************************************************************)
EXTENDS Naturals

CONSTANTS
    Polling, Refreshing,  \* the two that mirror cards
    MaxVersions,          \* bound: versions of the card
    MaxMishaps,           \* bound: failures, deaths and things done by people
    NULL

Mirrors == {Polling, Refreshing}

\* What a card can be on GitHub.
Versions == 1 .. MaxVersions
AnyCard  == [kind : {"draft", "issue", "deleted"}, archived : BOOLEAN, version : Versions]

DraftCardsAssumption ==
    /\ Polling # Refreshing /\ NULL \notin Mirrors \cup AnyCard \cup {"deleted"}
    /\ MaxVersions \in Nat \ {0} /\ MaxMishaps \in Nat

VARIABLES
    card,       \* on GitHub: what it is, whether it is archived, its version
    access,     \* the board can be read
    cardState,  \* the row's github_state
    stamp,      \* the row's github_updated_at, as a version; 0 is none
    pointer,    \* the row's thread: "none", "live", or "dead" if it was deleted
    thread,     \* the live thread: "none", "open" or "locked"
    block,      \* the version it shows
    keeper,     \* who holds the item's lock
    goneOnce,   \* in memory: GitHub has said once it has no such card
    where,      \* where[m]: where the pass or the refresh is
    found,      \* found[m]: what it read
    mishaps,    \* how many there were
    unshown,    \* history: a reason a thread stays behind its row
    astray,     \* history: a reason the lock is not what the row says
    blinks      \* history: times GitHub denied a card it had

github   == <<card, access>>
theRow   == <<cardState, stamp, pointer>>
discord  == <<thread, block>>
notes    == <<unshown, astray, blinks>>
cardVars == <<github, theRow, discord, keeper, goneOnce, where, found, mishaps, notes>>

Nothing == [card |-> NULL, pointer |-> "none", state |-> NULL, stored |-> 0]

Init ==
    /\ card = [kind |-> "draft", archived |-> FALSE, version |-> 1] /\ access = TRUE
    /\ cardState = NULL /\ stamp = 0 /\ pointer = "none"
    /\ thread = "none" /\ block = 0
    /\ keeper = NULL /\ goneOnce = FALSE
    /\ where = [m \in Mirrors |-> "idle"]
    /\ found = [m \in Mirrors |-> Nothing]
    /\ mishaps = 0
    /\ unshown = FALSE /\ astray = FALSE /\ blinks = 0

Mishap == mishaps < MaxMishaps /\ mishaps' = mishaps + 1
Now(m, place) == where' = [where EXCEPT ![m] = place]
Finds(m, what) == found' = [found EXCEPT ![m] = what]
Ends(m) == Now(m, "idle") /\ Finds(m, Nothing)

(***************************************************************************)
(* GitHub and Discord.                                                     *)
(***************************************************************************)

Exists == card.kind # "deleted"

Edit ==
    /\ card.kind = "draft" /\ ~card.archived /\ card.version < MaxVersions
    /\ card' = [card EXCEPT !.version = @ + 1]
    /\ UNCHANGED <<access, theRow, discord, keeper, goneOnce, where, found, mishaps, notes>>

Change ==
    /\ Exists /\ Mishap
    /\ \/ card' = [card EXCEPT !.archived = ~@]
       \/ card.kind = "draft" /\ card' = [card EXCEPT !.kind = "issue"]
       \/ card' = [card EXCEPT !.kind = "deleted"]
    /\ UNCHANGED <<access, theRow, discord, keeper, goneOnce, where, found, notes>>

\* Whoever the board is read as loses it, and gets it back.
LoseAccess ==
    /\ access /\ Mishap /\ access' = FALSE
    /\ UNCHANGED <<card, theRow, discord, keeper, goneOnce, where, found, notes>>

RegainAccess ==
    /\ ~access /\ access' = TRUE
    /\ UNCHANGED <<card, theRow, discord, keeper, goneOnce, where, found, mishaps, notes>>

\* Somebody deletes the thread; the bot hears of it, or was not there to.
DeleteThread ==
    /\ thread # "none" /\ Mishap
    /\ thread' = "none" /\ block' = 0
    /\ pointer' \in {"none", "dead"}
    /\ found' = [m \in Mirrors |-> [found[m] EXCEPT !.pointer = IF @ = "live" THEN "dead" ELSE @]]
    /\ UNCHANGED <<github, cardState, stamp, keeper, goneOnce, where, notes>>

(***************************************************************************)
(* A pass: the listing, the rows beside it, and what became of the card.   *)
(***************************************************************************)

\* A page garbled, or a card dragged across the cursor, leaves it out unsaid.
List ==
    /\ where[Polling] = "idle" /\ access
    /\ Finds(Polling, [Nothing EXCEPT !.card = IF Exists THEN card ELSE NULL])
    /\ Now(Polling, "settling")
    /\ UNCHANGED <<github, theRow, discord, keeper, goneOnce, mishaps, notes>>

ListWithout ==
    /\ where[Polling] = "idle" /\ access /\ Exists /\ Mishap
    /\ Now(Polling, "settling")
    /\ UNCHANGED <<github, theRow, discord, keeper, goneOnce, found, notes>>

Listed(m) == found[m].card
Missing == Listed(Polling) = NULL

\* The card, judged against the row: where the pass goes next.
Fate(c, state) ==
    IF c.kind # "draft" \/ c.archived = (state = "archived") THEN "mirroring"
    ELSE IF c.archived THEN "shutting" ELSE "reopening"

\* No thread, no row to follow; a card that is listed answers for itself.
Settle ==
    /\ where[Polling] = "settling"
    /\ LET seen == [found[Polling] EXCEPT !.pointer = pointer, !.state = cardState] IN
       IF pointer = "none" THEN /\ Now(Polling, "mirroring")
                                /\ UNCHANGED <<goneOnce, found>>
       ELSE IF Missing     THEN /\ Now(Polling, "asking") /\ Finds(Polling, seen)
                                /\ UNCHANGED goneOnce
       ELSE /\ Now(Polling, Fate(Listed(Polling), cardState)) /\ Finds(Polling, seen)
            /\ goneOnce' = FALSE
    /\ UNCHANGED <<github, theRow, discord, keeper, mishaps, notes>>

\* The bot is not in the server: nothing is settled, and an archived row waits.
SettleNothing ==
    /\ where[Polling] = "settling" /\ Mishap
    /\ IF pointer # "none" /\ cardState = "archived" THEN Ends(Polling)
       ELSE Now(Polling, "mirroring") /\ UNCHANGED found
    /\ UNCHANGED <<github, theRow, discord, keeper, goneOnce, notes>>

\* The thread the row pointed at when it was read is there, or the row points
\* at it still.
Mine == found[Polling].pointer = "live"
StillPointsThere == found[Polling].pointer = pointer

\* _archive() and _restore(): Discord first and the row second, because here the
\* row is the retry.
Shutting == where[Polling] \in {"shutting", "reopening"}
WantedLock == IF where[Polling] = "shutting" THEN "locked" ELSE "open"
Wanted == IF where[Polling] = "shutting" THEN "archived" ELSE "open"

Shut ==
    /\ Shutting /\ Mine
    /\ thread' = WantedLock
    /\ Now(Polling, IF where[Polling] = "shutting" THEN "shut" ELSE "reopened")
    /\ UNCHANGED <<github, theRow, block, keeper, goneOnce, found, mishaps, notes>>

\* Gone: the row takes the card's state and lets the thread go.
ShutGone ==
    /\ Shutting /\ ~Mine
    /\ IF StillPointsThere THEN cardState' = Wanted /\ pointer' = "none"
       ELSE UNCHANGED <<cardState, pointer>>
    /\ astray' = (astray \/ keeper # NULL)
    /\ Now(Polling, "mirroring")
    /\ UNCHANGED <<github, stamp, discord, keeper, goneOnce, found, mishaps,
                   unshown, blinks>>

\* Mutant: the row is written although the thread was not shut.
WrittenFirst == Wanted
KeptBack == cardState

\* A bad moment writes nothing, and keeps the card out of this pass's syncs.
ShutLater ==
    /\ Shutting /\ Mishap
    /\ cardState' = KeptBack
    /\ Ends(Polling)
    /\ UNCHANGED <<github, stamp, pointer, discord, keeper, goneOnce, notes>>

ShutRefused ==
    /\ Shutting /\ Mine /\ Mishap
    /\ cardState' = IF StillPointsThere THEN Wanted ELSE cardState
    /\ astray' = TRUE
    /\ Now(Polling, "mirroring")
    /\ UNCHANGED <<github, stamp, pointer, discord, keeper, goneOnce, found,
                   unshown, blinks>>

\* _record(): only while the row still points at the thread this was about.
Record ==
    /\ where[Polling] \in {"shut", "reopened"}
    /\ cardState' = IF ~StillPointsThere THEN cardState
                    ELSE IF where[Polling] = "shut" THEN "archived" ELSE "open"
    /\ astray' = (astray \/ keeper # NULL)
    /\ Now(Polling, "mirroring")
    /\ UNCHANGED <<github, stamp, pointer, discord, keeper, goneOnce, found, mishaps,
                   unshown, blinks>>

\* One answer is not enough.
Believed == goneOnce

\* read_card(): "no such card" is believed the second time it is said, and what
\* else it says is followed at once.
Ask ==
    /\ where[Polling] = "asking" /\ Exists /\ access
    /\ goneOnce' = FALSE
    /\ LET next == Fate(card, found[Polling].state) IN
         IF next = "mirroring" THEN Ends(Polling)
         ELSE Now(Polling, next) /\ UNCHANGED found
    /\ UNCHANGED <<github, theRow, discord, keeper, mishaps, notes>>

NoSuchCard ==
    /\ where[Polling] = "asking" /\ ~(Exists /\ access)
    /\ blinks' = IF Exists THEN blinks + 1 ELSE blinks
    /\ IF ~Believed
       THEN /\ goneOnce' = TRUE
            /\ UNCHANGED <<cardState, pointer, discord>>
       ELSE /\ goneOnce' = FALSE
            /\ cardState' = IF pointer # "none" THEN "deleted" ELSE cardState
            /\ pointer' = "none"
            /\ IF pointer = "live" THEN thread' = "none" /\ block' = 0 ELSE UNCHANGED discord
    /\ Ends(Polling)
    /\ UNCHANGED <<github, stamp, keeper, mishaps, unshown, astray>>

AskNothing ==
    /\ where[Polling] = "asking"
    /\ Ends(Polling)
    /\ UNCHANGED <<github, theRow, discord, keeper, goneOnce, mishaps, notes>>

(***************************************************************************)
(* _mirror_drafts() and the sync.  What moved is recorded and then said, and *)
(* nothing waits for it: it is left out.                                   *)
(***************************************************************************)

HasMoved(c) == pointer = "none" \/ stamp = 0 \/ c.version > stamp

Mirror ==
    /\ where[Polling] = "mirroring"
    /\ LET c == Listed(Polling) IN
       IF c # NULL /\ c.kind = "draft" /\ ~c.archived /\ HasMoved(c)
       THEN /\ Finds(Polling, [found[Polling] EXCEPT !.stored = stamp, !.pointer = pointer])
            /\ Now(Polling, "syncing")
       ELSE /\ Now(Polling, "handing")
            /\ UNCHANGED found
    /\ UNCHANGED <<github, theRow, discord, keeper, goneOnce, mishaps, notes>>

\* /refresh mirrors the listed drafts that have no thread.
Refresh ==
    /\ where[Refreshing] = "idle" /\ access /\ Exists /\ Mishap
    /\ card.kind = "draft" /\ ~card.archived /\ pointer = "none"
    /\ Finds(Refreshing, [Nothing EXCEPT !.card = card])
    /\ Now(Refreshing, "syncing")
    /\ UNCHANGED <<github, theRow, discord, keeper, goneOnce, notes>>

\* Where a sync that ended leaves its caller.
After(m) == IF m = Polling THEN "handing" ELSE "done"

\* _record() of the sync, under the item's lock: an older card is turned away,
\* and any other writes `open`.
SyncRow(m) ==
    /\ where[m] = "syncing" /\ keeper = NULL
    /\ IF Listed(m).version < stamp
       THEN /\ Now(m, After(m))
            /\ UNCHANGED <<cardState, stamp, keeper, astray>>
       ELSE /\ cardState' = "open" /\ stamp' = Listed(m).version
            /\ astray' = (astray \/ cardState = "archived")
            /\ keeper' = m
            /\ Now(m, "showing")
    /\ UNCHANGED <<github, pointer, discord, goneOnce, found, mishaps, unshown, blinks>>

\* A thread that is gone is replaced, and the row points at it no longer.
Replaced == [found EXCEPT ![Polling].pointer = IF @ = "dead" THEN "former" ELSE @]

SyncThread(m) ==
    /\ where[m] = "showing"
    /\ pointer' = "live"
    /\ thread' = IF pointer = "live" THEN thread ELSE "open"
    /\ block' = Listed(m).version
    /\ keeper' = NULL
    /\ found' = Replaced
    /\ Now(m, After(m))
    /\ UNCHANGED <<github, cardState, stamp, goneOnce, mishaps, notes>>

\* Refused: nothing opened, or a thread opened and attached with nothing in it.
SyncRefused(m) ==
    /\ where[m] = "showing" /\ Mishap
    /\ \/ UNCHANGED <<pointer, discord, found>>
       \/ /\ pointer # "live" /\ pointer' = "live" /\ thread' = "open" /\ block' = 0
          /\ found' = Replaced
    /\ keeper' = NULL
    /\ Now(m, "forgetting")
    /\ UNCHANGED <<github, cardState, stamp, goneOnce, notes>>

\* forget_the_mirror(): back to what was stored, or to nothing after a refresh.
\* What was stored is the card as it is now where its thread alone was missing:
\* then the empty thread just opened is never looked at again.
Forgotten(m) == found[m].stored

Forget(m) ==
    /\ where[m] = "forgetting"
    /\ stamp' = Forgotten(m)
    /\ unshown' = (unshown \/ found[m].stored >= Listed(m).version)
    /\ Now(m, After(m))
    /\ UNCHANGED <<github, cardState, pointer, discord, keeper, goneOnce, found, mishaps, astray, blinks>>

(***************************************************************************)
(* _hand_over_converted(): let go of first, said second.                   *)
(***************************************************************************)

HandOver ==
    /\ where[Polling] = "handing"
    /\ IF Listed(Polling) # NULL /\ Listed(Polling).kind = "issue" /\ pointer # "none"
       THEN /\ pointer' = "none"
            /\ IF pointer = "live" THEN thread' = "none" /\ block' = 0 ELSE UNCHANGED discord
       ELSE UNCHANGED <<pointer, discord>>
    /\ Ends(Polling)
    /\ UNCHANGED <<github, cardState, stamp, keeper, goneOnce, mishaps, notes>>

RefreshEnds ==
    /\ where[Refreshing] = "done"
    /\ Ends(Refreshing)
    /\ UNCHANGED <<github, theRow, discord, keeper, goneOnce, mishaps, notes>>

\* The process stops.  Its memory goes, and a sync between the row and the
\* thread is not made good: neither a death nor a cancellation is caught.
Stop ==
    /\ \E m \in Mirrors : where[m] # "idle"
    /\ Mishap
    /\ where' = [m \in Mirrors |-> "idle"] /\ found' = [m \in Mirrors |-> Nothing]
    /\ keeper' = NULL /\ goneOnce' = FALSE
    /\ unshown' = (unshown \/ \E m \in Mirrors : where[m] \in {"showing", "forgetting"})
    /\ astray' = (astray \/ where[Polling] \in {"shut", "reopened"})
    /\ UNCHANGED <<github, theRow, discord, blinks>>

Sync(m) == SyncRow(m) \/ SyncThread(m) \/ SyncRefused(m) \/ Forget(m)

Pass ==
    \/ List \/ ListWithout \/ Settle \/ SettleNothing
    \/ Shut \/ ShutGone \/ ShutLater \/ ShutRefused \/ Record
    \/ Ask \/ NoSuchCard \/ AskNothing
    \/ Mirror \/ HandOver

Next ==
    \/ Edit \/ Change \/ LoseAccess \/ RegainAccess \/ DeleteThread
    \/ Pass \/ Refresh \/ RefreshEnds \/ Stop
    \/ \E m \in Mirrors : Sync(m)

Spec == Init /\ [][Next]_cardVars

(***************************************************************************)
(* Properties.                                                             *)
(***************************************************************************)

TypeOK ==
    /\ card \in AnyCard
    /\ cardState \in {NULL, "open", "archived", "deleted"}
    /\ stamp \in 0 .. MaxVersions /\ block \in 0 .. MaxVersions
    /\ pointer \in {"none", "live", "dead"} /\ thread \in {"none", "open", "locked"}
    /\ pointer = "live" <=> thread # "none"
    /\ \A m \in Mirrors : keeper = m <=> where[m] = "showing"

Idle == \A m \in Mirrors : where[m] = "idle"

\* "Nothing else rescues a draft": what the next pass would pass over is shown as
\* it is, unless a process stopped between the row and the thread, or a second
\* thread of an unchanged card was opened and refused its first message.
PassedOverIsShown ==
    Idle /\ card.kind = "draft" /\ ~card.archived /\ ~HasMoved(card) /\ pointer = "live" =>
        unshown \/ block = card.version

\* The thread of a card whose row agrees with the board is shut exactly while the
\* card is archived, unless Discord refused for good, the process stopped between
\* the thread and the row, or a refresh wrote over the row.
LockFollowsTheCard ==
    Idle /\ card.kind = "draft" /\ pointer = "live" /\ (card.archived <=> cardState = "archived") =>
        astray \/ (thread = "locked" <=> card.archived)

\* The thread of a draft ends as the board has its card, in text and in lock.
ShownAsItsCardIs == PassedOverIsShown /\ LockFollowsTheCard

\* A thread is let go of as deleted because the card was, or because GitHub
\* twice denied a card it had.
LetGoForAReason == cardState = "deleted" => ~Exists \/ blinks >= 2
=============================================================================
