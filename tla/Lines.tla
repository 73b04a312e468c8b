------------------------------- MODULE Lines -------------------------------
(***************************************************************************)
(* What a thread is told of a delivery beside the block: a label that went *)
(* on or came off, the draft switch, the commits of a push.                *)
(*                                                                         *)
(*   services/sync/label_lines.py, draft_lines.py, commit_lines.py and     *)
(*   announcements.py, services/tracking.py, db/stores/thread_pointers.py  *)
(*                                                                         *)
(* A line is said after the sync of its delivery and outside the item's    *)
(* lock, once for its key, and the delivery is handled again from the top  *)
(* until nothing fails.  What keeps a line from being said is read off the *)
(* row: the kinds the thread asked for, the labels a posted block showed,  *)
(* the newest delivery applied.                                            *)
(***************************************************************************)
EXTENDS Naturals, FiniteSets

CONSTANTS
    Announcers,   \* deliveries that may be handled at once
    Others,       \* the commits that are not the pusher's own work
    LastCommit,   \* bound: commits there may be
    PerPush,      \* COMMITS_PER_PUSH
    MaxEvents,    \* bound: what happens to the pull request after it was opened
    MaxUpsets,    \* bound: /track commands and threads deleted
    MaxSlips,     \* bound: posts refused, deaths, claims and notes not written
    NULL

Commits  == 1..LastCommit
Versions == 1..(MaxEvents + 2)

Halves == {"ready", "draft"}

\* What is delivered of an event, and what a line is claimed by.
Deliveries ==
    [v : Versions, what : {"edited", "labeled", "unlabeled", "pushed", "rewritten"} \cup Halves,
     on : BOOLEAN, fresh : SUBSET Commits]
LineKeys == ({"label", "commit", "commits-left", "force-push"} \cup Halves) \X Nat

LinesAssumption ==
    /\ {LastCommit, MaxEvents, MaxUpsets, MaxSlips} \subseteq Nat
    /\ PerPush \in Nat \ {0} /\ NULL \notin Nat \cup Deliveries \cup LineKeys

VARIABLES
    about,     \* "labels", "draft" or "commits": the kind of line looked at
    latest,    \* GitHub: updated_at, one step for each event
    tagged,    \* GitHub: the label is on
    branch,    \* GitHub: the commits on the branch
    queued,    \* deliveries to handle
    item,      \* the item's row: what was applied, its thread, whether a posted block showed
               \* the label, whether the thread asked for these lines
    newest,    \* the newest thread
    claimed,   \* the keys in mirrored_notes
    told,      \* told[k]: how often the line of k was posted
    counted,   \* counted[v]: the commits the footnote of v speaks of
    work,      \* work[t]: the delivery t is at, and what it has read
    chosen,    \* whether there was a /track command
    upsets, slips,
    ever,      \* history: what last became of the label since the block of the thread: "on",
               \* "off", or "nothing"
    mixed,     \* history: two moves of the label overlapped, or were handled out of order
    muffled,   \* history: a label went on again and was passed over as shown
    backward,  \* history: one half of the switch went out after a newer, and was not overtaken
    overtaken, \* history: the halves that were to be said already when a newer was synced
    due,       \* history: due[v]: the lines v is good for: of a switch when it is thrown, of
               \* a push once it was compared
    leaned,    \* history: the commits a push took for said while another was only saying them
    dropped    \* history: the keys of a claim that was lost

hub == <<latest, tagged, branch>>
choice == <<chosen, upsets>>
past == <<ever, mixed, muffled, backward, overtaken, due, leaned, dropped>>
linesVars == <<about, hub, queued, item, newest, claimed, told, counted, work, choice, slips, past>>

AtRest == [step |-> "idle", of |-> NULL, thread |-> 0, wants |-> FALSE, key |-> NULL,
           todo |-> {}, kept |-> 0, said |-> 0]

Delivery(v, what, on, fresh) == [v |-> v, what |-> what, on |-> on, fresh |-> fresh]

\* GitHub sends `opened`, and a `labeled` for a label it was opened with.
Init ==
    /\ about \in {"labels", "draft", "commits"}
    /\ latest = 2 /\ tagged = (about = "labels") /\ branch = {}
    /\ queued = {Delivery(IF tagged THEN 1 ELSE 2, "edited", tagged, {})}
                \cup (IF tagged THEN {Delivery(2, "labeled", TRUE, {})} ELSE {})
    \* DEFAULTS: on for the draft switch, off for the other two.
    /\ item = [version |-> 0, thread |-> 0, shown |-> FALSE, wants |-> about = "draft"]
    /\ newest = 0 /\ claimed = {} /\ told = <<>>
    /\ counted = [v \in Versions |-> 0]
    /\ work = [t \in Announcers |-> AtRest]
    /\ chosen = FALSE /\ upsets = 0 /\ slips = 0
    /\ ever = "nothing" /\ mixed = FALSE /\ muffled = FALSE /\ backward = FALSE /\ overtaken = {}
    /\ due = [v \in Versions |-> {}] /\ leaned = {} /\ dropped = {}

Upset == upsets < MaxUpsets /\ upsets' = upsets + 1
Slip == slips < MaxSlips /\ slips' = slips + 1

(***************************************************************************)
(* GitHub, and the thread.                                                 *)
(***************************************************************************)

Happens(what, on, fresh) ==
    /\ latest < Cardinality(Versions)
    /\ latest' = latest + 1
    /\ queued' = queued \cup {Delivery(latest + 1, what, on, fresh)}
    /\ due' = IF what \in Halves THEN [due EXCEPT ![latest + 1] = {<<what, latest + 1>>}] ELSE due
    /\ UNCHANGED <<about, item, newest, claimed, told, counted, work, choice, slips,
                   ever, mixed, muffled, backward, overtaken, leaned, dropped>>

MoveLabel ==
    /\ about = "labels" /\ tagged' = ~tagged
    /\ Happens(IF tagged THEN "unlabeled" ELSE "labeled", ~tagged, {})
    /\ UNCHANGED branch

Switch ==
    /\ about = "draft" /\ tagged' = ~tagged
    /\ Happens(IF tagged THEN "ready" ELSE "draft", ~tagged, {})
    /\ UNCHANGED branch

Edit == about = "draft" /\ Happens("edited", tagged, {}) /\ UNCHANGED <<tagged, branch>>

\* Commits land on the branch, or some were taken off it.
Push(after) ==
    /\ about = "commits" /\ after # branch
    /\ branch' = after
    /\ Happens(IF branch \subseteq after THEN "pushed" ELSE "rewritten", tagged, after \ branch)
    /\ UNCHANGED tagged

\* ThreadTracking.choose(), and it holds the row.
Choose ==
    /\ Upset /\ item.thread # 0
    /\ chosen' = TRUE
    /\ item' = [item EXCEPT !.wants = ~@]
    /\ UNCHANGED <<about, hub, queued, newest, claimed, told, counted, work, slips, past>>

\* Somebody deletes the thread, and the row lets go of it and of what its block showed.
Lose ==
    /\ Upset /\ item.thread # 0
    /\ item' = [item EXCEPT !.thread = 0, !.shown = FALSE]
    /\ ever' = "nothing"
    /\ UNCHANGED <<about, hub, queued, newest, claimed, told, counted, work, chosen, slips,
                   mixed, muffled, backward, overtaken, due, leaned, dropped>>

(***************************************************************************)
(* A delivery: its sync, then what there is to say.                        *)
(***************************************************************************)

Moves(d) == d.what \in {"labeled", "unlabeled"}

OutOfTurn(d) ==
    \/ \E e \in queued : Moves(e) /\ e.v < d.v
    \/ \E t \in Announcers : work[t].step # "idle"
    \/ d.v < item.version

\* The block of a new thread, from the payload however old; noted as shown unless the process
\* dies before.
Opens(d, noted) ==
    [item EXCEPT !.version = IF d.v > @ THEN d.v ELSE @, !.thread = newest + 1, !.shown = d.on /\ noted]
Updates(d) == [item EXCEPT !.version = IF d.v > @ THEN d.v ELSE @]

\* What was read of the row before the sync of d, and is said after it.
OvertakenBy(d) ==
    {work[s].key : s \in {s \in Announcers : /\ work[s].step \in {"claiming", "posting"}
                                           /\ {work[s].of.what, d.what} \subseteq Halves
                                           /\ work[s].of.v < d.v}}

Sync(t) ==
    /\ work[t].step = "idle"
    /\ \E d \in queued :
          /\ queued' = queued \ {d}
          /\ IF item.thread = 0
             THEN item' = Opens(d, TRUE) /\ newest' = newest + 1 /\ ever' = IF d.on THEN "on" ELSE "nothing"
             ELSE item' = Updates(d) /\ UNCHANGED <<newest, ever>>
          /\ work' = [work EXCEPT ![t].step = "judging", ![t].of = d,
                                  ![t].thread = item'.thread, ![t].wants = item.wants]
          /\ mixed' = (mixed \/ (about = "labels" /\ OutOfTurn(d)))
          /\ overtaken' = overtaken \cup OvertakenBy(d)
    /\ UNCHANGED <<about, hub, claimed, told, counted, choice, slips, muffled, backward, due, leaned, dropped>>

DiesOpening ==
    /\ Slip /\ item.thread = 0
    /\ \E d \in queued :
          /\ item' = Opens(d, FALSE) /\ ever' = IF d.on THEN "on" ELSE "nothing"
          /\ mixed' = (mixed \/ (about = "labels" /\ OutOfTurn(d)))
    /\ newest' = newest + 1
    /\ UNCHANGED <<about, hub, queued, claimed, told, counted, work, choice, muffled, backward, overtaken, due, leaned, dropped>>

Rests(t)    == [work EXCEPT ![t] = AtRest]
Says(t, k)  == [work EXCEPT ![t].step = "claiming", ![t].key = k]
ToNote(t)    == [work EXCEPT ![t].step = "noting"]

\* Mutant: what is not said is not noted.
UnsaidAndUnnoted(t) == Rests(t)

\* LabelLine.say(): a label that came off unsaid leaves the shown set all the same.
Unsaid(t) == IF work[t].of.what = "unlabeled" THEN ToNote(t) ELSE Rests(t)

AlreadyShown(t) == work[t].of.what = "labeled" /\ item.shown

JudgeLabel(t) ==
    LET passes == work[t].wants /\ AlreadyShown(t) IN
    /\ work[t].step = "judging" /\ Moves(work[t].of)
    /\ work' = CASE ~work[t].wants -> Unsaid(t)
                 [] passes -> Rests(t)
                 [] OTHER -> Says(t, <<"label", work[t].of.v>>)
    /\ muffled' = (muffled \/ (passes /\ ever = "off" /\ ~mixed))
    /\ ever' = IF ~work[t].wants /\ ~work[t].of.on THEN "off" ELSE ever
    /\ UNCHANGED <<about, hub, queued, item, newest, claimed, told, counted, choice, slips,
                   mixed, backward, overtaken, due, leaned, dropped>>

\* DraftSwitchLine.say(): nobody is rung once the row has moved on.
MovedOn(t) == work[t].of.v < item.version

JudgeSwitch(t) ==
    LET says == work[t].wants /\ ~MovedOn(t) IN
    /\ work[t].step = "judging" /\ work[t].of.what \in Halves
    /\ work' = IF says THEN Says(t, <<work[t].of.what, work[t].of.v>>) ELSE Rests(t)
    /\ UNCHANGED <<about, hub, queued, item, newest, claimed, told, counted, choice, slips, past>>

NothingToSay(t) ==
    /\ work[t].step = "judging" /\ work[t].of.what = "edited"
    /\ work' = Rests(t)
    /\ UNCHANGED <<about, hub, queued, item, newest, claimed, told, counted, choice, slips, past>>

\* CommitLine.say(): the newest of the pusher's own, a bounded number of them.
Own(d) == d.fresh \ Others
Wanted(d) == {c \in Own(d) : Cardinality({b \in Own(d) : b > c}) < PerPush}

\* What is counted is what would have been announced, not only what there was room for.
Kept(d) == Cardinality(Own(d))

\* GitHub compares the two ends, which it may not have any longer once they were rewritten.
Compare(t) ==
    LET d == work[t].of IN
    /\ work[t].step = "judging" /\ d.what \in {"pushed", "rewritten"}
    /\ \/ /\ work[t].wants
          /\ work' = IF d.what = "rewritten" THEN Says(t, <<"force-push", d.v>>)
                     ELSE [work EXCEPT ![t].step = "reading", ![t].todo = Wanted(d), ![t].kept = Kept(d)]
          /\ due' = [due EXCEPT ![d.v] = IF d.what = "pushed" THEN {<<"commit", c>> : c \in Own(d)}
                                           ELSE {<<"force-push", d.v>>}]
       \/ /\ ~work[t].wants \/ ~(d.fresh \subseteq branch)
          /\ work' = Rests(t) /\ due' = [due EXCEPT ![d.v] = {}]
    /\ UNCHANGED <<about, hub, queued, item, newest, claimed, told, counted, choice, slips,
                   ever, mixed, muffled, backward, overtaken, leaned, dropped>>

\* One commit after the other, and one that was rewritten away may not be found.
ReadCommit(t) ==
    /\ work[t].step = "reading"
    /\ \E c \in work[t].todo :
          /\ \A b \in work[t].todo : c <= b
          /\ \/ work' = [Says(t, <<"commit", c>>) EXCEPT ![t].todo = @ \ {c}]
             \/ c \notin branch /\ work' = [work EXCEPT ![t].todo = @ \ {c}]
    /\ UNCHANGED <<about, hub, queued, item, newest, claimed, told, counted, choice, slips, past>>

\* CommitLine._say_what_was_left().
Footnote(t) ==
    /\ work[t].step = "reading" /\ work[t].todo = {}
    /\ work' = IF work[t].kept > work[t].said THEN Says(t, <<"commits-left", work[t].of.v>>) ELSE Rests(t)
    /\ UNCHANGED <<about, hub, queued, item, newest, claimed, told, counted, choice, slips, past>>

\* What follows a line, whether it was said now or before.
Follows(t) ==
    CASE work[t].key[1] = "label"  -> [work EXCEPT ![t].step = "noting", ![t].key = NULL]
      [] work[t].key[1] = "commit" -> [work EXCEPT ![t].step = "reading", ![t].said = @ + 1, ![t].key = NULL]
      [] OTHER -> Rests(t)

\* ClaimedLine.say_once(): claimed before it is posted.
Claim(t) ==
    LET k == work[t].key IN
    /\ work[t].step = "claiming"
    /\ IF k \in claimed
       THEN /\ work' = Follows(t)
            /\ leaned' = IF k \in DOMAIN told THEN leaned ELSE leaned \cup {k}
            /\ UNCHANGED claimed
       ELSE /\ claimed' = claimed \cup {k}
            /\ work' = [work EXCEPT ![t].step = "posting"]
            /\ UNCHANGED leaned
    /\ UNCHANGED <<about, hub, queued, item, newest, told, counted, choice, slips,
                   ever, mixed, muffled, backward, overtaken, due, dropped>>

Told(k) == [j \in DOMAIN told \cup {k} |-> (IF j \in DOMAIN told THEN told[j] ELSE 0) + (IF j = k THEN 1 ELSE 0)]

Newer(v) == \E k \in DOMAIN told : k[1] \in Halves /\ k[2] > v

GoesBack(k) == k[1] \in Halves /\ Newer(k[2]) /\ k \notin overtaken

Lands(t) ==
    /\ work[t].thread = item.thread
    /\ backward' = (backward \/ GoesBack(work[t].key))
    /\ told' = Told(work[t].key)
    /\ counted' = IF work[t].key[1] = "commits-left"
                  THEN [counted EXCEPT ![work[t].of.v] = work[t].kept - work[t].said] ELSE counted

Post(t) ==
    /\ work[t].step = "posting" /\ Lands(t)
    /\ work' = Follows(t)
    /\ UNCHANGED <<about, hub, queued, item, newest, claimed, choice, slips,
                   ever, mixed, muffled, overtaken, due, leaned, dropped>>

\* Refused, or the thread is gone; or it landed and the answer did not come back.
PostFails(t) ==
    /\ work[t].step = "posting"
    /\ \/ Slip /\ UNCHANGED <<told, counted, backward, dropped>>
       \/ Slip /\ Lands(t) /\ dropped' = dropped \cup {work[t].key}
       \/ work[t].thread # item.thread /\ UNCHANGED <<told, counted, backward, dropped, slips>>
    /\ work' = [work EXCEPT ![t].step = "handing_back"]
    /\ UNCHANGED <<about, hub, queued, item, newest, claimed, choice, ever, mixed, muffled, overtaken, due, leaned>>

Again(t) == queued' = queued \cup {work[t].of} /\ work' = Rests(t)

GivenBack(t) == claimed \ {work[t].key}

\* ClaimedLine._hand_back(), which may fail too; the delivery is handled again either way.
HandBack(t) ==
    /\ work[t].step = "handing_back" /\ Again(t)
    /\ \/ claimed' = GivenBack(t) /\ UNCHANGED <<dropped, slips>>
       \/ Slip /\ dropped' = dropped \cup {work[t].key} /\ UNCHANGED claimed
    /\ UNCHANGED <<about, hub, item, newest, told, counted, choice, ever, mixed, muffled, backward, overtaken, due, leaned>>

\* note_label_announced(), only where the row still names the thread.
Shown(t) == IF item.thread = work[t].thread THEN [item EXCEPT !.shown = work[t].of.on] ELSE item

Note(t) ==
    /\ work[t].step = "noting"
    /\ item' = Shown(t)
    /\ ever' = IF item.thread # work[t].thread THEN ever ELSE IF work[t].of.on THEN "on" ELSE "off"
    /\ work' = Rests(t)
    /\ UNCHANGED <<about, hub, queued, newest, claimed, told, counted, choice, slips,
                   mixed, muffled, backward, overtaken, due, leaned, dropped>>

\* GitHub or the database does not answer, the deadline passes, or the process dies.
Fails(t) ==
    /\ work[t].step # "idle" /\ Slip /\ Again(t)
    /\ dropped' = IF work[t].step \in {"posting", "handing_back"} THEN dropped \cup {work[t].key} ELSE dropped
    /\ UNCHANGED <<about, hub, item, newest, claimed, told, counted, choice, ever, mixed, muffled, backward, overtaken, due, leaned>>

Next ==
    \/ MoveLabel \/ Switch \/ Edit \/ Choose \/ Lose \/ DiesOpening
    \/ \E after \in SUBSET Commits : Push(after)
    \/ \E t \in Announcers :
          \/ Sync(t) \/ JudgeLabel(t) \/ JudgeSwitch(t) \/ NothingToSay(t)
          \/ Compare(t) \/ ReadCommit(t) \/ Footnote(t)
          \/ Claim(t) \/ Post(t) \/ PostFails(t) \/ HandBack(t) \/ Note(t) \/ Fails(t)

Spec == Init /\ [][Next]_linesVars

TypeOK ==
    /\ item.version \in 0..latest /\ item.thread \in 0..newest /\ newest \in 0..(MaxUpsets + 1)
    /\ branch \subseteq Commits /\ {tagged, item.shown, item.wants} \subseteq BOOLEAN
    /\ \A d \in queued : d.v \in 1..latest /\ d.fresh \subseteq Commits
    /\ \A t \in Announcers :
          /\ work[t].key # NULL <=> work[t].step \in {"claiming", "posting", "handing_back"}
          /\ work[t].of = NULL <=> work[t].step = "idle"
          /\ work[t].step \in {"posting", "handing_back"} => work[t].key \in claimed
          /\ work[t].said + Cardinality(work[t].todo) <= PerPush
    /\ DOMAIN told \subseteq claimed \cup dropped
    /\ ever \in {"on", "off", "nothing"}

Quiet == queued = {} /\ \A t \in Announcers : work[t].step = "idle"

Untold(v) == {k \in due[v] : k \notin DOMAIN told \cup leaned \cup dropped}

(* No line is said twice but where the answer to its post was lost          *)
(* (shannon/services/sync/announcements.py:82-121).                         *)
LinesOnce == \A k \in DOMAIN told : told[k] = 1 \/ k \in dropped

(* While the moves of a label are handled one after the other, whatever     *)
(* fails in between and whether or not the thread wants to hear of them,    *)
(* one that goes on again is not taken for what the block had shown         *)
(* (shannon/services/sync/label_lines.py:43-104).                           *)
LabelsHeard == ~muffled

(* One half of the draft switch is not announced after the other that came  *)
(* later, unless the row had been read for it, and found not to have moved  *)
(* on, before the later one was synced; and it is announced if nothing has  *)
(* happened since (shannon/services/sync/draft_lines.py:91-180).            *)
SwitchesHeard ==
    /\ ~backward
    /\ about = "draft" /\ Quiet /\ ~chosen => Untold(latest) = {}

(* Every commit of a push that is the pusher's own and still there is said, *)
(* or counted in the push's footnote, however often its delivery was        *)
(* handled, and so is a rewrite of the branch; unless another push was      *)
(* saying the commit (shannon/services/sync/commit_lines.py:80-199).        *)
CommitsHeard ==
    about = "commits" /\ Quiet =>
        \A v \in Versions :
            LET missing == {k \in Untold(v) : k[1] = "force-push" \/ k[2] \in branch} IN
            Cardinality(missing) <= counted[v] \/ <<"commits-left", v>> \in dropped

(* What a delivery has to say beside the block is said, once.               *)
ThreadHears == LinesOnce /\ LabelsHeard /\ SwitchesHeard /\ CommitsHeard
=============================================================================
