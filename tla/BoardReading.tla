---------------------------- MODULE BoardReading ----------------------------
(***************************************************************************)
(* Reading a board every few seconds.                                      *)
(*                                                                         *)
(*   github/projects.py, github/client.py, github/paging.py,               *)
(*   services/projects.py, services/sync/draft_cards.py                    *)
(*                                                                         *)
(* A board is listed a page at a time, by a cursor, while people drag its  *)
(* cards around.  The first page is asked for on condition that it has     *)
(* changed, and a 304 stands for the whole listing kept from before, which *)
(* is what makes the fast interval cheap; a board for which no such answer *)
(* can be trusted is read on a slow clock.  What became of a card that is  *)
(* not listed is DraftCards.                                               *)
(***************************************************************************)
EXTENDS Naturals, FiniteSets, Sequences

CONSTANTS
    AllCards,
    Places,     \* bound: where a card may be on the board, first to last
    PageSize,   \* cards to a page
    MaxPages,   \* pages a listing is followed for
    MaxEdits,   \* bound: what people do to the board
    MaxMisses,  \* bound: requests and cards that fail, deaths of the process
    NULL

BoardReadingAssumption ==
    /\ NULL \notin Nat /\ {PageSize, MaxPages} \subseteq Nat \ {0}
    /\ IsFiniteSet(AllCards)
    /\ {MaxEdits, MaxMisses} \subseteq Nat /\ AllCards \subseteq Places /\ Places \subseteq Nat \ {0}

VARIABLES
    place,    \* GitHub: place[c]: where the card is on the board, or 0
    version,  \* GitHub: version[c]: how often it was edited
    kept,     \* _listed: the validator of the board, and the pages it stands for, or NULL
    round,    \* the pass of the poller
    listing,  \* the pages it has listed
    cursor,   \* the place its listing goes on after
    shown,    \* shown[c]: the version its thread shows, or NULL
    wait,     \* how long the poller waits before its next pass
    cheap,    \* _cheap_to_recheck
    edits, misses,
    still,    \* history: nothing changed or failed since the pass began
    whole,    \* history: the last pass read all of the board, and could not keep a validator
    untrue,   \* history: a 304 stood for a listing that is not the board
    hurried   \* history: a board was read whole again at the fast interval

readingVars ==
    <<place, version, kept, round, listing, cursor, shown, wait, cheap, edits, misses, still,
      whole, untrue, hurried>>

\* The passes read this board, and one more, a small one, before it or after it.
Orders == {<<"board", "other">>, <<"other", "board">>}
AtRest == [step |-> "waiting", todo |-> <<>>]

OnBoard == {c \in AllCards : place[c] # 0}

\* The cards after a place, how many of them come before a card, and those of one page.
After(p)   == {c \in OnBoard : place[c] > p}
Rank(c, p) == Cardinality({d \in After(p) : place[d] < place[c]})
OnPage(p)  == {c \in After(p) : Rank(c, p) < PageSize}

\* A page is its cards, each as it is and where it stands among them.
Row(c, p)  == [card |-> c, version |-> version[c], rank |-> Rank(c, p)]
Page(p)    == {Row(c, p) : c \in OnPage(p)}
HasMore(p) == Cardinality(After(p)) > PageSize
LastOf(p)  == place[CHOOSE c \in OnPage(p) : \A d \in OnPage(p) : place[d] <= place[c]]

\* The board, were it all on one page.
BoardNow == {Row(c, 0) : c \in OnBoard}

Init ==
    /\ version = [c \in AllCards |-> 0]
    /\ \E on \in SUBSET AllCards : place = [c \in AllCards |-> IF c \in on THEN c ELSE 0]
    /\ kept = NULL /\ round = AtRest /\ listing = <<>> /\ cursor = 0
    /\ shown = [c \in AllCards |-> NULL]
    /\ wait = "fast" /\ cheap = TRUE
    /\ edits = 0 /\ misses = 0
    /\ still = FALSE /\ whole = FALSE /\ untrue = FALSE /\ hurried = FALSE

(***************************************************************************)
(* GitHub.                                                                 *)
(***************************************************************************)

Edited ==
    /\ edits < MaxEdits /\ edits' = edits + 1 /\ still' = FALSE
    /\ UNCHANGED <<kept, round, listing, cursor, shown, wait, cheap, misses, whole, untrue, hurried>>

\* A card is added, or dragged to another place.
Drag(c) ==
    /\ Edited
    /\ \E p \in Places \ {place[d] : d \in AllCards} : place' = [place EXCEPT ![c] = p]
    /\ UNCHANGED version

Delete(c) ==
    /\ Edited /\ place[c] # 0
    /\ place' = [place EXCEPT ![c] = 0] /\ UNCHANGED version

Rewrite(c) ==
    /\ Edited /\ place[c] # 0
    /\ version' = [version EXCEPT ![c] = @ + 1] /\ UNCHANGED place

github == <<place, version, edits>>

(***************************************************************************)
(* The poller.                                                             *)
(***************************************************************************)

Miss == misses < MaxMisses /\ misses' = misses + 1

Goes(step) == round' = [round EXCEPT !.step = step]

\* run_once(): the boards of the moment.
Begin ==
    /\ round.step = "waiting"
    /\ \E order \in Orders : round' = [step |-> "choosing", todo |-> order]
    /\ cheap' = TRUE /\ still' = TRUE
    /\ UNCHANGED <<github, kept, listing, cursor, shown, wait, misses, whole, untrue, hurried>>

Reading == round.step = "choosing" /\ round.todo # <<>> /\ Head(round.todo) = "board"

\* If-None-Match, judged by the first page alone.
Unchanged == kept # NULL /\ kept.etag = Page(0)

\* get_pages_since(), answered with a 304: the listing is the one kept.
NotChanged ==
    /\ Reading /\ Unchanged
    /\ listing' = kept.listing
    /\ Goes("listed")
    /\ untrue' = (untrue \/ listing' # <<BoardNow>>)
    /\ UNCHANGED <<github, kept, cursor, shown, wait, cheap, misses, still, whole, hurried>>

\* Mutant: a validator is kept for every board that is one page, a full one too.
KeepsOfAPage(n, etag) == etag # NULL

\* Kept only for a board that provably arrived whole.
Keeps(n, etag) == etag # NULL /\ n < PageSize

\* The validator speaks for one page, so there is none for a board of several.
Listed(pages, etag) ==
    /\ kept' = IF Keeps(Cardinality(pages[1]), etag) THEN [etag |-> etag, listing |-> pages]
               ELSE NULL
    /\ listing' = pages
    /\ Goes("listed")

FirstPage ==
    /\ Reading /\ ~Unchanged
    /\ hurried' = (hurried \/ (whole /\ wait = "fast"))
    /\ IF HasMore(0) /\ MaxPages > 1
       THEN /\ listing' = <<Page(0)>> /\ cursor' = LastOf(0)
            /\ Goes("paging") /\ UNCHANGED kept
       ELSE /\ Listed(<<Page(0)>>, IF HasMore(0) THEN NULL ELSE Page(0))
            /\ UNCHANGED cursor
    /\ UNCHANGED <<github, shown, wait, cheap, misses, still, whole, untrue>>

\* The next page, of the board as it is by now.
NextPage ==
    LET pages == Append(listing, Page(cursor)) IN
    /\ round.step = "paging"
    /\ IF HasMore(cursor) /\ Len(pages) < MaxPages
       THEN /\ listing' = pages /\ cursor' = LastOf(cursor)
            /\ UNCHANGED <<kept, round>>
       ELSE Listed(pages, NULL) /\ cursor' = 0
    /\ UNCHANGED <<github, shown, wait, cheap, misses, still, whole, untrue, hurried>>

\* once_each(): a card on two pages counts as on the first.
Once(pages) ==
    UNION {{r \in pages[i] : \A j \in 1..(i - 1) : \A q \in pages[j] : q.card # r.card} :
           i \in DOMAIN pages}

CanRecheckCheaply == kept # NULL

CostsToo(b) == cheap /\ b

\* Every card that changed, each for itself: one that fails is logged, and is owed still.
Follow ==
    /\ round.step = "listed"
    /\ cheap' = CostsToo(CanRecheckCheaply)
    /\ whole' = (kept = NULL)
    /\ \E failing \in {r.card : r \in {s \in Once(listing) : shown[s.card] # s.version}} \cup {NULL} :
          /\ shown' = [c \in AllCards |->
                IF c = failing \/ ~(\E r \in Once(listing) : r.card = c) THEN shown[c]
                ELSE (CHOOSE r \in Once(listing) : r.card = c).version]
          /\ IF failing = NULL THEN UNCHANGED <<misses, still>> ELSE Miss /\ still' = FALSE
    /\ round' = [step |-> "choosing", todo |-> Tail(round.todo)]
    /\ listing' = <<>>
    /\ UNCHANGED <<github, kept, cursor, wait, untrue, hurried>>

\* The other board, which is small; or it will not open, and is passed over.
ReadOther ==
    /\ round.step = "choosing" /\ round.todo # <<>> /\ Head(round.todo) = "other"
    /\ round' = [round EXCEPT !.todo = Tail(@)]
    /\ \/ cheap' = CostsToo(TRUE) /\ UNCHANGED misses
       \/ Miss /\ UNCHANGED cheap
    /\ UNCHANGED <<github, kept, listing, cursor, shown, wait, still, whole, untrue, hurried>>

\* This board will not open.
WillNotOpen ==
    /\ Reading /\ Miss
    /\ round' = [round EXCEPT !.todo = Tail(@)]
    /\ still' = FALSE /\ whole' = FALSE
    /\ UNCHANGED <<github, kept, listing, cursor, shown, wait, cheap, untrue, hurried>>

Rest(w) ==
    /\ round' = AtRest /\ listing' = <<>> /\ cursor' = 0
    /\ wait' = w

End ==
    /\ round.step = "choosing" /\ round.todo = <<>>
    /\ Rest(IF cheap THEN "fast" ELSE "slow")
    /\ UNCHANGED <<github, kept, shown, cheap, misses, still, whole, untrue, hurried>>

\* No answer, or one that names a wait.
Refusals == {"fast", "told"}

\* GitHub does not answer, or says to wait: the pass is over, whatever it had still to read.
GivesUp ==
    /\ round.step \in {"choosing", "paging"} /\ round.todo # <<>> /\ Miss
    /\ \E w \in Refusals : Rest(w)
    /\ still' = FALSE /\ whole' = FALSE
    /\ UNCHANGED <<github, kept, shown, cheap, untrue, hurried>>

Restart ==
    /\ Miss
    /\ Rest("fast")
    /\ kept' = NULL /\ cheap' = TRUE
    /\ still' = FALSE /\ whole' = FALSE
    /\ UNCHANGED <<github, shown, untrue, hurried>>

Next ==
    \/ \E c \in AllCards : Drag(c) \/ Delete(c) \/ Rewrite(c)
    \/ Begin \/ NotChanged \/ FirstPage \/ NextPage \/ Follow \/ ReadOther \/ WillNotOpen
    \/ End \/ GivesUp \/ Restart

Spec == Init /\ [][Next]_readingVars

TypeOK ==
    /\ place \in [AllCards -> Places \cup {0}]
    /\ \A c, d \in OnBoard : c # d => place[c] # place[d]
    /\ version \in [AllCards -> 0..MaxEdits]
    /\ shown \in [AllCards -> (0..MaxEdits) \cup {NULL}]
    /\ \A c \in AllCards : shown[c] # NULL => shown[c] <= version[c]
    /\ kept # NULL => kept.listing = <<kept.etag>>
    /\ round.step \in {"waiting", "choosing", "paging", "listed"}
    /\ round.step \in {"waiting", "choosing"} => listing = <<>>
    /\ Len(listing) <= MaxPages
    /\ wait \in {"fast", "slow", "told"}

\* A 304 stands for the board as it is: no card is hidden behind a page that did not change.
NothingHidden == ~untrue

\* After a pass that nothing changed or failed under, every card the listing reaches is shown
\* as it is: what an earlier pass could not show is not lost with a 304.
ShownAfterAPass ==
    round.step = "waiting" /\ still /\ Cardinality(OnBoard) <= PageSize * MaxPages =>
        \A c \in OnBoard : shown[c] = version[c]

\* A board that cannot be checked for nothing is not read again at the fast interval, unless
\* the pass that read it failed.
NotHurried == ~hurried
=============================================================================
