----------------------------- MODULE CardMoves -----------------------------
(***************************************************************************)
(* A pull request with a card on the mirrored board: what /status does to  *)
(* it, and what the board poller does when somebody drags the card.        *)
(*                                                                         *)
(*   services/workflow.py, the second half of services/projects.py,        *)
(*   domain/board.py, github/labels.py                                     *)
(*                                                                         *)
(* One pull request, its card, its row and its thread.  Runs of /status    *)
(* and the one process that polls overlap; both end in set_status().       *)
(* Reading a payload into the row and the block in the thread are          *)
(* ItemSync's and are one step here; a thread that is gone is left out.    *)
(***************************************************************************)
EXTENDS Naturals, Sequences, FiniteSets

CONSTANTS
    Board,         \* the Status columns of the board, in order
    ReadsAs,       \* ReadsAs[c]: the status column c stands for, or NULL
    NotReviewed,   \* the status an item starts with
    Done,          \* the status that locks a thread
    Commands,      \* runs of /status by members who authorised the bot
    Poller,        \* the process that polls
    MaySetStatus,  \* SHANNON_BOARD_MAY_SET_STATUS
    MaxEvents,     \* bound: drags, closings, reopenings, failures and deaths
    NULL

Columns  == {Board[i] : i \in DOMAIN Board}
Statuses == ({ReadsAs[c] : c \in Columns} \union {NotReviewed, Done}) \ {NULL}
Blank    == ""
Workers  == Commands \union {Poller}

CardMovesAssumption ==
    /\ Board \in Seq(Columns) /\ ReadsAs \in [Columns -> Statuses \union {NULL}]
    /\ Blank \notin Columns /\ NULL \notin Columns \union {Blank}
    /\ Poller \notin Commands /\ NULL \notin Workers /\ NotReviewed \notin {NULL, Done}
    /\ MaySetStatus \in BOOLEAN
    /\ MaxEvents \in Nat

VARIABLES
    column,    \* the card's column on GitHub
    label,     \* the status labels the pull request carries on GitHub
    merged,    \* it is closed on GitHub
    status,    \* the row's status
    seen,      \* the row's project_column: NULL is never seen
    paired,    \* the row knows which card wraps it
    news,      \* a delivery saying it was closed or reopened is still to come
    shut,      \* its thread is locked
    holder,    \* who holds the item's lock
    at,        \* at[w]: where the worker is
    run,       \* run[w]: what it read and what it is to do
    poll,      \* what the poll read: the card's column, whether any card of the
               \*   board has one, and the row's status and column beside it
    events,    \* how many there were
    apart,     \* history: a reason the status and the column differ
    owed       \* history: a lock refused for now is "owed" to the next poll, and
               \*   "lost" once nothing will set it

github  == <<column, label, merged>>
row     == <<status, seen, paired, news>>
history == <<apart, owed>>
vars    == <<github, row, shut, holder, at, run, poll, events, history>>

Resting == [want |-> NULL, to |-> NULL, status |-> NULL, column |-> NULL,
            card |-> FALSE, labels |-> {}, closed |-> FALSE,
            previous |-> NULL, again |-> FALSE]
Unread  == [column |-> Blank, readable |-> FALSE, status |-> NULL, seen |-> NULL]

Init ==
    /\ column \in Columns /\ label = {} /\ merged = FALSE
    /\ status = NotReviewed /\ seen = NULL /\ paired = FALSE /\ news = FALSE
    /\ shut = FALSE /\ holder = NULL
    /\ at  = [w \in Workers |-> "idle"]
    /\ run = [w \in Workers |-> Resting]
    /\ poll = Unread /\ events = 0
    /\ apart = FALSE /\ owed = "no"

\* What was left for the next poll is not looked at again.
Forgets(ifSo) == owed' = IF ifSo /\ owed = "owed" THEN "lost" ELSE owed

Happens == events < MaxEvents /\ events' = events + 1

Goes(w, where) == at' = [at EXCEPT ![w] = where]

\* A command that ended stays ended; the poller starts its next pass.
Leaves(w) ==
    /\ Goes(w, IF w = Poller THEN "idle" ELSE "ended")
    /\ run'  = [run EXCEPT ![w] = Resting]
    /\ poll' = IF w = Poller THEN Unread ELSE poll

(***************************************************************************)
(* GitHub: people drag the card, close the pull request and reopen it, and *)
(* the delivery that follows is handled under the item's lock.             *)
(***************************************************************************)

Finished == status = Done \/ merged

\* Put back where a poll last saw it, it has not moved: what a poll half did
\* about the move before is not looked at again.
Drag ==
    /\ Happens
    /\ \E c \in (Columns \union {Blank}) \ {column} :
         /\ column' = c
         /\ apart' = (apart \/ (c = seen /\ c \in Columns /\ ReadsAs[c] \notin {NULL, status}))
         /\ Forgets(c = seen)
    /\ UNCHANGED <<label, merged, row, shut, holder, at, run, poll>>

Flip ==
    /\ Happens
    /\ merged' = ~merged /\ news' = TRUE
    /\ UNCHANGED <<column, label, status, seen, paired, shut, holder, at, run, poll, history>>

\* PullRequestPolicy.shut(): None leaves the lock of a Done one alone.
Deliver ==
    /\ news /\ holder = NULL
    /\ news' = FALSE
    /\ shut' = (merged \/ (status = Done /\ shut))
    /\ UNCHANGED <<github, status, seen, paired, holder, at, run, poll, events, history>>

(***************************************************************************)
(* must_pass_through(): forward one column at a time, back any number.     *)
(***************************************************************************)

Place(c) == CHOOSE i \in DOMAIN Board : Board[i] = c
Skips(from, to) ==
    /\ from \in Columns /\ to \in Columns
    /\ Place(to) > Place(from) + 1

\* The columns a status is written to, where the board has any.
ColumnsFor(s) == {c \in Columns : ReadsAs[c] = s}
LeavingColumn(s) == IF ColumnsFor(s) = {} THEN NULL ELSE CHOOSE c \in ColumnsFor(s) : TRUE

Forbidden(w) ==
    LET from == IF run[w].column \in Columns THEN run[w].column
                ELSE LeavingColumn(run[w].status)
    IN  w # Poller /\ run[w].card /\ Skips(from, run[w].to)

(***************************************************************************)
(* ItemWorkflow.set_status().                                              *)
(***************************************************************************)

\* locate(): the row as it is when the run starts.
Located(w, want, to) ==
    run' = [run EXCEPT ![w] = [Resting EXCEPT !.want = want, !.to = to,
                               !.status = status, !.column = seen, !.card = paired]]

\* /status, with the column the picker offered, if the board has one for it.
Ask(w) ==
    /\ w \in Commands /\ at[w] = "idle"
    /\ \E s \in Statuses :
         \E c \in IF ColumnsFor(s) = {} THEN {NULL} ELSE ColumnsFor(s) : Located(w, s, c)
    /\ Goes(w, "located")
    /\ UNCHANGED <<github, row, shut, holder, poll, events, history>>

\* A repeat has nothing to write, but a lock to see to.
Fetched(w) ==
    LET repeat == label = {run[w].want} /\ run[w].status = run[w].want IN
    /\ run' = [run EXCEPT ![w].labels = label, ![w].closed = merged, ![w].again = repeat,
                          ![w].status = NULL, ![w].column = NULL]
    /\ Goes(w, IF repeat THEN "waiting" ELSE "labels")

Fetch(w) ==
    /\ at[w] = "located" /\ ~Forbidden(w)
    /\ Fetched(w)
    /\ UNCHANGED <<github, row, shut, holder, poll, events, history>>

\* A board whose columns cannot be read forbids nothing.
FetchUnjudged(w) ==
    /\ at[w] = "located" /\ Forbidden(w) /\ Happens
    /\ Fetched(w)
    /\ UNCHANGED <<github, row, shut, holder, poll, history>>

Refuse(w) ==
    /\ at[w] = "located" /\ Forbidden(w)
    /\ Leaves(w)
    /\ UNCHANGED <<github, row, shut, holder, events, history>>

\* status_change(): with two labels, which of them GitHub lists first decides
\* whether the wanted one is put on again.
Stale(w) == run[w].labels \ {run[w].want}
Added(w) ==
    IF run[w].want \notin run[w].labels THEN {{run[w].want}}
    ELSE IF Stale(w) = {} THEN {{}} ELSE {{}, {run[w].want}}

Apply(w) ==
    /\ at[w] = "labels"
    /\ \E added \in Added(w) : label' = (label \ Stale(w)) \union added
    /\ run' = [run EXCEPT ![w].labels = {}]
    /\ Goes(w, "waiting")
    /\ UNCHANGED <<column, merged, row, shut, holder, poll, events, history>>

TakeLock(w) ==
    /\ at[w] = "waiting" /\ holder = NULL
    /\ holder' = w
    /\ Goes(w, IF run[w].again THEN "again" ELSE "storing")
    /\ UNCHANGED <<github, row, shut, run, poll, events, history>>

\* _store_status() answers the status it replaced, under the row's lock.
Store(w) ==
    /\ at[w] = "storing"
    /\ run' = [run EXCEPT ![w].previous = status]
    /\ status' = run[w].want
    /\ Goes(w, "rendering")
    /\ UNCHANGED <<github, seen, paired, news, shut, holder, poll, events, history>>

\* Where a change that landed goes on: to the card, if somebody asked for it.
Onward(w) == IF w = Poller THEN "remember" ELSE "card"

Touched(w) == Done \in {run[w].want, run[w].previous}

\* A lock an earlier run was refused is not set by one that moves between two
\* other statuses, or writes the same one again because the labels had changed.
Render(w) ==
    /\ at[w] = "rendering" /\ ~Touched(w)
    /\ holder' = NULL
    /\ Forgets(TRUE)
    /\ Goes(w, Onward(w))
    /\ UNCHANGED <<github, row, shut, run, poll, events, apart>>

RenderThenLock(w) ==
    /\ at[w] = "rendering" /\ Touched(w)
    /\ Goes(w, "locking")
    /\ UNCHANGED <<github, row, shut, holder, run, poll, events, history>>

\* A repeat acts on what the row says now, and raises ItemMovedError where that
\* is not what it was asked for.
StillThere(w) == status = run[w].want

Repeat(w) ==
    /\ at[w] = "again" /\ StillThere(w)
    /\ Goes(w, "locking")
    /\ UNCHANGED <<github, row, shut, holder, run, poll, events, history>>

ItemMoved(w) ==
    /\ at[w] = "again" /\ ~StillThere(w)
    /\ holder' = NULL
    /\ Leaves(w)
    /\ UNCHANGED <<github, row, shut, events, history>>

WantsLock(w) == run[w].want = Done \/ (run[w].again /\ run[w].closed)

\* What the write branch and a reading from before the wait get wrong is counted.
SetLock(w) ==
    /\ at[w] = "locking"
    /\ shut' = WantsLock(w)
    /\ owed' = IF WantsLock(w) = (run[w].want = Done \/ merged) THEN "no" ELSE "lost"
    /\ holder' = NULL
    /\ Goes(w, Onward(w))
    /\ UNCHANGED <<github, row, run, poll, events, apart>>

(***************************************************************************)
(* _move_the_card(): last, and its failure is logged and no more.          *)
(***************************************************************************)

HasCard(w) == run[w].card /\ run[w].to # NULL

MoveCard(w) ==
    /\ at[w] = "card" /\ HasCard(w)
    /\ column' = run[w].to
    /\ Goes(w, "noting")
    /\ UNCHANGED <<label, merged, row, shut, holder, run, poll, events, history>>

NoCard(w) ==
    /\ at[w] = "card" /\ ~HasCard(w)
    /\ apart' = TRUE
    /\ Leaves(w)
    /\ UNCHANGED <<github, row, shut, holder, events, owed>>

\* The card may by then say what the row no longer does: two moved it at once.
Note(w) ==
    /\ at[w] = "noting"
    /\ seen' = run[w].to
    /\ apart' = (apart \/ status # run[w].want)
    /\ Forgets(status # run[w].want)
    /\ Leaves(w)
    /\ UNCHANGED <<github, status, paired, news, shut, holder, events>>

(***************************************************************************)
(* The poll: one listing, the rows beside it, and a judgement per card.    *)
(***************************************************************************)

Listed(c, readable) ==
    /\ poll' = [Unread EXCEPT !.column = c, !.readable = readable]
    /\ Goes(Poller, "listed")
    /\ UNCHANGED <<github, row, shut, holder, run, history>>

ListBoard ==
    /\ at[Poller] = "idle"
    /\ \E readable \in IF column = Blank THEN BOOLEAN ELSE {TRUE} : Listed(column, readable)
    /\ UNCHANGED events

\* A Status field that cannot be read looks like a board of cards without one.
ListBlank ==
    /\ at[Poller] = "idle" /\ Happens
    /\ Listed(Blank, FALSE)

ReadRows ==
    /\ at[Poller] = "listed"
    /\ poll' = [poll EXCEPT !.status = status, !.seen = seen]
    /\ Goes(Poller, "judging")
    /\ UNCHANGED <<github, row, shut, holder, run, events, history>>

Wanted == IF poll.column \in Columns THEN ReadsAs[poll.column] ELSE NULL
FirstLook == poll.seen = NULL
SameColumn == poll.column = poll.seen \/ (poll.column = Blank /\ FirstLook)

\* What the poll only writes down: a column it was not taught, the first look
\* at a card that agrees or at an item somebody has decided, or any move where
\* the board may not decide.
OnlyNoted ==
    IF SameColumn THEN FirstLook
    ELSE \/ Wanted = NULL
         \/ FirstLook /\ (Wanted = poll.status \/ poll.status # NotReviewed)
         \/ ~MaySetStatus

\* _remember_cards() comes first on every branch.
Judged(where) ==
    /\ paired' = TRUE
    /\ Goes(Poller, where)
    /\ UNCHANGED <<github, status, seen, news, shut, holder, events>>

PassOver ==
    /\ at[Poller] = "judging" /\ SameColumn /\ ~FirstLook
    /\ Judged("idle")
    /\ poll' = Unread
    /\ UNCHANGED <<run, history>>

\* A lock owed by the move before is not looked at again either.
WriteDown ==
    /\ at[Poller] = "judging" /\ OnlyNoted
    /\ Judged("remember")
    /\ apart' = (apart \/ Wanted \notin {NULL, poll.status})
    /\ Forgets(TRUE)
    /\ UNCHANGED <<run, poll>>

Carry ==
    /\ at[Poller] = "judging" /\ ~SameColumn /\ ~OnlyNoted
    /\ Judged("located")
    /\ Located(Poller, Wanted, NULL)
    /\ UNCHANGED <<poll, history>>

\* A move left for the next poll is found again by its column, which a command
\* may have written down since the rows or the listing were read, or one that is
\* under way still may.
Overtaken(w) ==
    /\ w = Poller
    /\ \/ seen # poll.seen \/ (seen = column /\ column # poll.column)
       \/ \E c \in Commands : at[c] \notin {"idle", "ended"}

\* Where the board may not decide, a row that has moved and come back to the column it
\* was read with is not told from one that never moved.
LeftApart == ~MaySetStatus /\ Wanted \notin {NULL, status}

Disbelieved == poll.column = Blank /\ poll.seen \in Columns /\ ~poll.readable

Remember ==
    /\ at[Poller] = "remember"
    /\ seen' = IF Disbelieved THEN seen ELSE poll.column
    /\ apart' = (apart \/ Overtaken(Poller) \/ run[Poller].want \notin {NULL, status} \/ LeftApart)
    /\ Leaves(Poller)
    /\ UNCHANGED <<github, status, paired, news, shut, holder, events, owed>>

(***************************************************************************)
(* Failures.                                                               *)
(***************************************************************************)

\* A failure is worth another poll, unless it is one no waiting changes: then
\* the move is written off.  Nobody asks again for a command.
GivesUp(w, final) ==
    IF w = Poller /\ final
    THEN /\ Goes(w, "remember") /\ UNCHANGED <<run, poll>>
    ELSE Leaves(w)

Excused(w, final, for) ==
    LET writtenOff == w = Poller /\ final IN
    /\ apart' = (apart \/ writtenOff \/ for)
    /\ Forgets(writtenOff)

FetchFails(w) ==
    /\ at[w] = "located" /\ Happens
    /\ \E final \in BOOLEAN : GivesUp(w, final) /\ Excused(w, final, FALSE)
    /\ UNCHANGED <<github, row, shut, holder>>

\* Removals come first.
ApplyFails(w) ==
    /\ at[w] = "labels" /\ Happens
    /\ label' \in {label, label \ Stale(w)}
    /\ \E final \in BOOLEAN : GivesUp(w, final) /\ Excused(w, final, FALSE)
    /\ UNCHANGED <<column, merged, row, shut, holder>>

Busy(w) ==
    /\ at[w] = "waiting" /\ holder # NULL /\ Happens
    /\ Leaves(w)
    /\ UNCHANGED <<github, row, shut, holder, history>>

\* Mutant: the row keeps what nobody was shown.
KeptStatus(w) == status

\* _give_the_status_back()
GivenBack(w) == IF status = run[w].want THEN run[w].previous ELSE status

\* The thread could not be written.  A poll may have compared the card with the
\* status while it stood, and nothing compares them again.
Compared(w) ==
    \/ poll.status = run[w].want
    \/ seen \in Columns /\ ReadsAs[seen] = run[w].want

RenderFails(w) ==
    /\ at[w] = "rendering" /\ Happens
    /\ status' = GivenBack(w)
    /\ holder' = NULL
    /\ \E final \in BOOLEAN :
         /\ GivesUp(w, final)
         /\ Excused(w, final, Overtaken(w) \/ Compared(w))
    /\ UNCHANGED <<github, seen, paired, news, shut>>

\* Discord had a bad moment.  The poll comes round again; but where it had never
\* seen the card, what it then meets is a first look at one that agrees.
LockLater(w) ==
    /\ at[w] = "locking" /\ Happens
    /\ holder' = NULL
    /\ owed' = IF w # Poller \/ seen = NULL \/ Overtaken(w) THEN "lost" ELSE "owed"
    /\ apart' = (apart \/ Overtaken(w))
    /\ IF w = Poller THEN Leaves(w) ELSE Goes(w, "card") /\ UNCHANGED <<run, poll>>
    /\ UNCHANGED <<github, row, shut>>

\* The bot may not lock threads: said, and gone on from.
LockDenied(w) ==
    /\ at[w] = "locking" /\ Happens
    /\ holder' = NULL
    /\ owed' = "lost"
    /\ Goes(w, Onward(w))
    /\ UNCHANGED <<github, row, shut, run, poll, apart>>

CardFails(w) ==
    /\ at[w] = "card" /\ HasCard(w) /\ Happens
    /\ apart' = TRUE
    /\ Leaves(w)
    /\ UNCHANGED <<github, row, shut, holder, owed>>

\* The process dies, and the item's lock goes with its connection.
Halfway(w) == at[w] \in {"rendering", "locking", "card", "noting", "remember"}

Die ==
    /\ \E w \in Workers : at[w] \notin {"idle", "ended"}
    /\ Happens
    /\ at' = [w \in Workers |-> IF w = Poller \/ at[w] = "idle" THEN "idle" ELSE "ended"]
    /\ run' = [w \in Workers |-> Resting]
    /\ poll' = Unread /\ holder' = NULL
    /\ apart' = (apart \/ \E w \in Workers : Halfway(w))
    /\ owed' = IF \E w \in Workers : at[w] \in {"rendering", "locking"} THEN "lost" ELSE owed
    /\ UNCHANGED <<github, row, shut>>

SetStatus(w) ==
    \/ Ask(w) \/ Fetch(w) \/ FetchUnjudged(w) \/ Refuse(w) \/ Apply(w) \/ TakeLock(w)
    \/ Store(w) \/ Render(w) \/ RenderThenLock(w) \/ Repeat(w) \/ ItemMoved(w) \/ SetLock(w)
    \/ MoveCard(w) \/ NoCard(w) \/ Note(w)

Fails(w) ==
    \/ FetchFails(w) \/ ApplyFails(w) \/ Busy(w) \/ RenderFails(w)
    \/ LockLater(w) \/ LockDenied(w) \/ CardFails(w)

Poll == ListBoard \/ ListBlank \/ ReadRows \/ PassOver \/ WriteDown \/ Carry \/ Remember

Next ==
    \/ Drag \/ Flip \/ Deliver \/ Die
    \/ Poll
    \/ \E w \in Workers : SetStatus(w) \/ Fails(w)

Spec == Init /\ [][Next]_vars

(***************************************************************************)
(* Properties.                                                             *)
(***************************************************************************)

TypeOK ==
    /\ column \in Columns \union {Blank} /\ label \in SUBSET Statuses /\ merged \in BOOLEAN
    /\ status \in Statuses /\ seen \in Columns \union {NULL, Blank}
    /\ {paired, news, shut, apart} \subseteq BOOLEAN /\ owed \in {"no", "owed", "lost"}
    /\ holder \in Workers \union {NULL}
    /\ \A w \in Workers : holder = w <=> at[w] \in {"again", "storing", "rendering", "locking"}
    /\ \A w \in Workers : at[w] \in {"idle", "ended", "listed", "judging"} => run[w] = Resting
    /\ events \in 0 .. MaxEvents

\* Nothing is under way, and there is nothing left for a poll or a delivery to see.
Quiet ==
    /\ at[Poller] = "idle" /\ \A w \in Commands : at[w] \in {"idle", "ended"}
    /\ seen = column /\ ~news

\* A move is carried through, or somebody was told it was not: with nothing
\* under way and nothing left to see, the row has the status its card's column
\* stands for, unless the card could not be moved, the move was written off, it
\* was the first look at an item somebody had decided, a process died halfway,
\* or a command and the poll overtook each other.
AgreesWhenQuiet ==
    Quiet /\ column \in Columns => apart \/ ReadsAs[column] \in {NULL, status}

\* The thread of a finished pull request is locked and an open one at any other
\* status is not left shut, unless the lock was refused, was owed on a first
\* look, or was decided from what GitHub said before the wait.
LockFollows ==
    Quiet => owed = "lost" \/ shut = Finished

\* Whoever moved last, on the board or in Discord, everything says so in the end: row and
\* card agree, and the thread of a finished pull request is shut and no other is.
MovedWhenQuiet == AgreesWhenQuiet /\ LockFollows
=============================================================================
