------------------------------ MODULE MCParts ------------------------------
(***************************************************************************)
(* Parts of the bot that share nothing but the database server, each       *)
(* checked on a small instance of its own: a behaviour chooses a part, and *)
(* the others stay as they were at the start.                              *)
(***************************************************************************)
EXTENDS Reminders, TLC

CONSTANTS
    Board, ReadsAs, NotReviewed, Done, Commands, Poller, MaySetStatus, MaxEvents,
    Polling, Refreshing, MaxVersions, MaxMishaps,
    Home, Away, Us, Them, NewLogin, Linkers, MaxMoves, MaxOrders,
    People, Holds(_), FirstName(_), Names, Claimed, MaxLinks, RequireProved, MaxRenames,
    MaxCommands,
    AllCards, Places, PageSize, MaxPages, MaxEdits, MaxMisses,
    Issues, PerRun, MaxRuns, MaxTurns, MaxActs, MaxUpsets

VARIABLES
    part,
    column, label, merged, status, seen, paired, news, shut, holder, at, run, poll,
    events, apart, owed,
    card, access, cardState, stamp, pointer, thread, block, keeper, goneOnce, where,
    found, mishaps, unshown, astray, blinks,
    login, owned, said, link, grants, wraps, asking, letting, pass, moves, orders, meant,
    crossed,
    called, roles, pending, trip, proofs, claims, keys, act, renames, commands, everNamed,
    stray,
    place, version, kept, round, listing, cursor, shown, wait, cheap, edits, misses, still,
    whole, untrue, hurried,
    story, due, stored, noted, older, shows, sweep, runs, turns, acts, upsets, lively, excused,
    passed, skipped, half, counted

Cards    == INSTANCE CardMoves
Drafts   == INSTANCE DraftCards
Boards   == INSTANCE BoardLink
SignIn   == INSTANCE SignIns
Reading  == INSTANCE BoardReading
Redraw   == INSTANCE Redraws WITH
    said <- story, thread <- shows, run <- sweep, changes <- turns, MaxChanges <- MaxTurns

ASSUME PartsAssumption ==
    /\ Cards!CardMovesAssumption
    /\ Drafts!DraftCardsAssumption
    /\ Boards!BoardLinkAssumption
    /\ SignIn!SignInsAssumption
    /\ Reading!BoardReadingAssumption
    /\ Redraw!RedrawsAssumption

Parts == {"reminders", "cards", "drafts", "boards", "signins", "reading", "redraws"}

cardsAside ==
    <<column, label, merged, status, seen, paired, news, shut, holder, at, run, poll,
      events, apart, owed>>
draftsAside ==
    <<card, access, cardState, stamp, pointer, thread, block, keeper, goneOnce, where,
      found, mishaps, unshown, astray, blinks>>
boardsAside ==
    <<login, owned, said, link, grants, wraps, asking, letting, pass, moves, orders, meant,
      crossed>>
signInsAside ==
    <<called, roles, pending, trip, proofs, claims, keys, act, renames, commands, everNamed,
      stray>>
readingAside ==
    <<place, version, kept, round, listing, cursor, shown, wait, cheap, edits, misses, still,
      whole, untrue, hurried>>
redrawsAside ==
    <<story, due, stored, noted, older, shows, sweep, runs, turns, acts, upsets, lively,
      excused, passed, skipped, half, counted>>
allVars ==
    <<part, vars, cardsAside, draftsAside, boardsAside, signInsAside, readingAside,
      redrawsAside>>

PartsInit ==
    /\ part \in Parts
    /\ Init /\ Cards!Init /\ Drafts!Init /\ Boards!Init /\ SignIn!Init
    /\ Reading!Init /\ Redraw!Init
    \* Those that may start in several ways do so where they are looked at.
    /\ part # "cards" => column = Board[1]
    /\ part # "boards" => link[Home].id = Us
    /\ part # "signins" => roles = People
    /\ part # "reading" => \A c \in AllCards : place[c] = 0
    /\ part # "redraws" => lively = Issues

Remind ==
    /\ part = "reminders"
    /\ UNCHANGED <<part, cardsAside, draftsAside, boardsAside, signInsAside, readingAside,
                   redrawsAside>>
    /\ Next
MoveCards ==
    /\ part = "cards"
    /\ UNCHANGED <<part, vars, draftsAside, boardsAside, signInsAside, readingAside,
                   redrawsAside>>
    /\ Cards!Next
MirrorDrafts ==
    /\ part = "drafts"
    /\ UNCHANGED <<part, vars, cardsAside, boardsAside, signInsAside, readingAside,
                   redrawsAside>>
    /\ Drafts!Next
LinkBoards ==
    /\ part = "boards"
    /\ UNCHANGED <<part, vars, cardsAside, draftsAside, signInsAside, readingAside,
                   redrawsAside>>
    /\ Boards!Next
SignPeopleIn ==
    /\ part = "signins"
    /\ UNCHANGED <<part, vars, cardsAside, draftsAside, boardsAside, readingAside,
                   redrawsAside>>
    /\ SignIn!Next
ReadBoards ==
    /\ part = "reading"
    /\ UNCHANGED <<part, vars, cardsAside, draftsAside, boardsAside, signInsAside,
                   redrawsAside>>
    /\ Reading!Next
RedrawThreads ==
    /\ part = "redraws"
    /\ UNCHANGED <<part, vars, cardsAside, draftsAside, boardsAside, signInsAside,
                   readingAside>>
    /\ Redraw!Next

PartsNext ==
    \/ Remind \/ MoveCards \/ MirrorDrafts \/ LinkBoards \/ SignPeopleIn \/ ReadBoards
    \/ RedrawThreads

PartsSpec == PartsInit /\ [][PartsNext]_allVars

\* Two that fall due together, and one after them.
TwoTogether == <<1, 1, 2>>

\* A column nobody taught the bot, then one for a review under way, then Done.
ThreeColumns == <<"todo", "review", "done">>
AsTaught == [c \in {"todo", "review", "done"} |->
                CASE c = "todo" -> NULL [] c = "review" -> "in review" [] c = "done" -> "done"]

\* One member has two accounts, and the other a claim from before ids were kept, on a
\* name that is not theirs.
AccountsOf(p) == IF p = "ann" THEN {"ann1", "ann2"} ELSE {"bob1"}
AtFirst(a) == a
OldClaim == {[login |-> "ann1", id |-> NULL, member |-> "bob"]}

\* What is asked of a part is asked where it moves.  Every variable has its type.
PartsTypeOK ==
    CASE part = "reminders" -> TypeOK
      [] part = "cards"     -> Cards!TypeOK
      [] part = "drafts"    -> Drafts!TypeOK
      [] part = "boards"    -> Boards!TypeOK
      [] part = "signins"   -> SignIn!TypeOK
      [] part = "reading"   -> Reading!TypeOK
      [] part = "redraws"   -> Redraw!TypeOK

\* Row, card and lock end up saying one thing.
MovedWhenQuiet == part = "cards" => Cards!MovedWhenQuiet

\* A draft's thread shows its card, is shut exactly while the card is archived, and is let go
\* of for a reason.
DraftsAreAsTheirCards == part = "drafts" => Drafts!ShownAsItsCardIs /\ Drafts!LetGoForAReason

\* A board is read as, and by, what its linker chose, and the cards kept for a server are of
\* the board it mirrors and of no other server's.
BoardsAreAsChosen == part = "boards" => Boards!ReadAsChosen /\ Boards!CardsOfThisBoard

\* What is kept for a member is that member's own account, and a command puts on an item whom
\* it names.
EveryoneIsThemselves == part = "signins" => SignIn!NobodyElsesAccount /\ SignIn!PutsTheRightOneOn

\* What is read of a board is the board, and no more often than it costs; and a refresh
\* redraws what it listed, each in its turn, and leaves the threads as it found them.
ReadAndShownWhole ==
    /\ part = "reading" =>
          Reading!NothingHidden /\ Reading!ShownAfterAPass /\ Reading!NotHurried
    /\ part = "redraws" => Redraw!LeftAsFound /\ Redraw!EachInItsTurn /\ Redraw!ShownAsListed
=============================================================================
