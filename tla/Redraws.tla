------------------------------ MODULE Redraws ------------------------------
(***************************************************************************)
(* What /refresh does to the threads that exist.                           *)
(*                                                                         *)
(*   services/sync/refresh.py, services/sync/items.py,                     *)
(*   discord_bot/threads.py, commands/refresh.py                           *)
(*                                                                         *)
(* A run lists the open issues, and redraws the threads of as many as its  *)
(* time allows, those first whose rows were written longest ago.  It wakes *)
(* a thread that Discord archived for going quiet, and puts it back.       *)
(* Deliveries of the same issues, which write and wake and shut threads of *)
(* their own accord, and people, come in between.  A server has one run at *)
(* a time.  Opening threads for issues without one, and how a sync opens   *)
(* and claims one, is ItemSync.                                            *)
(***************************************************************************)
EXTENDS Naturals, FiniteSets, Sequences

CONSTANTS
    Issues,     \* registered, with a thread each: their numbers
    PerRun,     \* how many redraws fit into REDRAW_SECONDS
    MaxRuns,    \* bound: runs
    MaxChanges, \* bound: what happens to the issues on GitHub
    MaxActs,    \* bound: what people do in the threads, and quiet weeks
    MaxUpsets,  \* bound: locks not to be had, refused calls, deaths
    NULL

RedrawsAssumption ==
    /\ IsFiniteSet(Issues) /\ Issues \subseteq Nat /\ NULL \notin Nat
    /\ {MaxRuns, MaxChanges, MaxActs, MaxUpsets} \subseteq Nat /\ PerRun \in Nat \ {0}

VARIABLES
    said,    \* GitHub: said[i][v]: whether version v of the issue is closed
    due,     \* due[i]: the versions whose deliveries are not handled
    stored,  \* tracked_items: the version applied
    noted,   \* tracked_items: discord_thread_locked
    older,   \* tracked_items: <<i, j>> where the row of i has the smaller updated_at
    thread,  \* Discord: the version in the block, archived, locked; or NULL, deleted
    run,     \* the refresh: its step, the issues found, those left in turn, and the time; of the
             \* one at hand, whether its thread was archived, and was given back or opened (kept)
    runs, changes, acts, upsets,
    lively,  \* history: issues about which something was said since their threads were quiet
    excused, \* history: issues left awake by a refusal or a death, or talked in while at hand
    passed,  \* history: passed[i]: redrawn while i waited its turn
    skipped, \* history: an issue was redrawn a second time before one that waited
    half,    \* history: issues whose rows a redraw wrote last, and not their blocks
    counted  \* history: counted[i]: the version a run last told of as redrawn

redrawsVars ==
    <<said, due, stored, noted, older, thread, run, runs, changes, acts, upsets, lively,
      excused, passed, skipped, half, counted>>

gitHub  == <<said, changes>>
rows    == <<stored, noted, older>>
tallies == <<passed, skipped, half, counted>>

Idle ==
    [step |-> "idle", found |-> {}, left |-> <<>>, time |-> 0, archived |-> FALSE, kept |-> FALSE]

Latest(i) == Len(said[i])
AtHand(i) ==
    run.step \in {"ask", "unlock", "tell", "write", "again"} /\ Head(run.left).issue = i

Opened(v) == [block |-> v, archived |-> FALSE, locked |-> FALSE]
Woken(i)  == [thread[i] EXCEPT !.archived = FALSE]
Shut(t)   == [t EXCEPT !.archived = TRUE, !.locked = TRUE]

\* The UPDATE of a row moves its updated_at.
ToTheBack(i) == {pair \in older : pair[1] # i} \cup ((Issues \ {i}) \X {i})

Init ==
    /\ said = [i \in Issues |-> <<FALSE>>] /\ due = [i \in Issues |-> {}]
    /\ stored = [i \in Issues |-> 1] /\ noted = [i \in Issues |-> FALSE]
    \* Registered one after the other, as they are numbered.
    /\ older = {pair \in Issues \X Issues : pair[1] < pair[2]}
    /\ \E quiet \in SUBSET Issues :
           /\ thread = [i \in Issues |->
                            [block |-> 1, archived |-> i \in quiet, locked |-> FALSE]]
           /\ lively = Issues \ quiet
    /\ run = Idle /\ runs = 0 /\ changes = 0 /\ acts = 0 /\ upsets = 0
    /\ excused = {}
    /\ passed = [i \in Issues |-> {}] /\ skipped = FALSE /\ half = {}
    /\ counted = [i \in Issues |-> 0]

(***************************************************************************)
(* GitHub, and the people in Discord.                                      *)
(***************************************************************************)

\* The issue is edited, closed or reopened, and the delivery of that may never come.
Change(i) ==
    /\ changes < MaxChanges /\ changes' = changes + 1
    /\ \E closed \in BOOLEAN : said' = [said EXCEPT ![i] = Append(@, closed)]
    /\ \E heard \in {{}, {Latest(i) + 1}} : due' = [due EXCEPT ![i] = @ \cup heard]
    /\ UNCHANGED <<rows, thread, run, runs, acts, upsets, lively, excused, tallies>>

Act(i) ==
    /\ acts < MaxActs /\ acts' = acts + 1 /\ thread[i] # NULL
    /\ UNCHANGED <<gitHub, due, rows, run, runs, upsets, tallies>>

\* Somebody writes in the thread, or a comment is mirrored into it.
Talk(i) ==
    /\ Act(i) /\ ~thread[i].locked
    /\ thread' = [thread EXCEPT ![i] = Woken(i)]
    /\ lively' = lively \cup {i}
    /\ excused' = IF AtHand(i) /\ run.archived THEN excused \cup {i} ELSE excused \ {i}

\* A week without a word.
GoesQuiet(i) ==
    /\ Act(i) /\ run = Idle
    /\ thread' = [thread EXCEPT ![i].archived = TRUE]
    /\ lively' = lively \ {i} /\ excused' = excused \ {i}

Delete(i) ==
    /\ Act(i)
    /\ thread' = [thread EXCEPT ![i] = NULL]
    /\ UNCHANGED <<lively, excused>>

(***************************************************************************)
(* Deliveries.  Each holds the lock of its issue from end to end.          *)
(***************************************************************************)

Handled(i, v) ==
    /\ due' = [due EXCEPT ![i] = @ \ {v}]
    /\ UNCHANGED <<gitHub, run, runs, acts, upsets, skipped, counted>>

\* _settle_a_lock_still_owed(): a payload turned away still shuts what the row says is shut.
OwesTheLock(i) == said[i][stored[i]] /\ ~noted[i] /\ thread[i] # NULL

Settled(i) ==
    IF OwesTheLock(i)
    THEN /\ thread' = [thread EXCEPT ![i] = Shut(@)]
         /\ noted' = [noted EXCEPT ![i] = TRUE]
         /\ older' = ToTheBack(i)
         /\ lively' = lively \ {i} /\ excused' = excused \ {i}
    ELSE UNCHANGED <<thread, noted, older, lively, excused>>

DeliverStale(i, v) ==
    /\ v \in due[i] /\ ~AtHand(i) /\ v < stored[i]
    /\ Settled(i) /\ Handled(i, v)
    /\ passed' = [passed EXCEPT ![i] = IF OwesTheLock(i) THEN {} ELSE @]
    /\ UNCHANGED <<stored, half>>

\* The row, the block, and the lock; and the thread stays awake for whoever is told.
Deliver(i, v) ==
    LET shown == IF thread[i] = NULL THEN Opened(v)
                 ELSE [thread[i] EXCEPT !.block = v, !.archived = FALSE, !.locked = FALSE]
    IN  /\ v \in due[i] /\ ~AtHand(i) /\ v >= stored[i]
        /\ stored' = [stored EXCEPT ![i] = v]
        /\ noted' = [noted EXCEPT ![i] = said[i][v]]
        /\ older' = ToTheBack(i)
        /\ thread' = [thread EXCEPT ![i] = IF said[i][v] THEN Shut(shown) ELSE shown]
        /\ lively' = IF said[i][v] THEN lively \ {i} ELSE lively \cup {i}
        /\ excused' = excused \ {i}
        /\ passed' = [passed EXCEPT ![i] = {}] /\ half' = half \ {i}
        /\ Handled(i, v)

Upset == upsets < MaxUpsets /\ upsets' = upsets + 1

\* Discord refuses the first call; the delivery is retried.
DeliverFails(i, v) ==
    /\ Upset /\ v \in due[i] /\ ~AtHand(i) /\ v >= stored[i]
    /\ stored' = [stored EXCEPT ![i] = v] /\ older' = ToTheBack(i)
    /\ passed' = [passed EXCEPT ![i] = {}]
    /\ UNCHANGED <<gitHub, due, noted, thread, run, runs, acts, lively, excused, skipped, half,
                   counted>>

(***************************************************************************)
(* A run.                                                                  *)
(***************************************************************************)

others == <<gitHub, due, acts>>

\* The open issues, each with the version GitHub has.
OpenIssues == {[issue |-> i, version |-> Latest(i)] : i \in {j \in Issues : ~said[j][Latest(j)]}}

\* Cooldown: one run at a time.
List ==
    /\ run = Idle /\ runs < MaxRuns /\ runs' = runs + 1
    /\ run' = [Idle EXCEPT !.step = "listed", !.found = OpenIssues]
    /\ UNCHANGED <<others, rows, thread, upsets, lively, excused, tallies>>

\* Least recently written first.
InTurn(found) ==
    {list \in [1..Cardinality(found) -> found] :
        \A k, l \in DOMAIN list :
            k < l => list[k] # list[l] /\ <<list[l].issue, list[k].issue>> \notin older}

\* _threaded(), and the order.  An issue not listed is not waiting.
Order ==
    /\ run.step = "listed"
    /\ \E list \in InTurn(run.found) :
           run' = [Idle EXCEPT !.step = "next", !.left = list, !.time = PerRun]
    /\ passed' = [i \in Issues |-> IF \E row \in run.found : row.issue = i THEN passed[i] ELSE {}]
    /\ UNCHANGED <<others, rows, thread, runs, upsets, lively, excused, skipped, half, counted>>

Issue   == Head(run.left).issue
Version == Head(run.left).version

Goes(step) == run' = [run EXCEPT !.step = step]
NextOne ==
    run' = [Idle EXCEPT !.step = "next", !.left = Tail(run.left), !.time = run.time - 1]

\* The issue at hand had its turn.
HadItsTurn == passed' = [passed EXCEPT ![Issue] = {}]

\* The clock is read before each: what is left is told of as unreached.
Finish ==
    /\ run.step = "next" /\ (run.left = <<>> \/ run.time = 0)
    /\ run' = Idle
    /\ UNCHANGED <<others, rows, thread, runs, upsets, lively, excused, tallies>>

Begins == run.step = "next" /\ run.left # <<>> /\ run.time > 0

\* The lock of the item is not to be had: told of as failed.
Busy ==
    /\ Begins /\ Upset /\ NextOne /\ HadItsTurn
    /\ UNCHANGED <<others, rows, thread, runs, lively, excused, skipped, half, counted>>

\* A newer delivery has been through: told of as redrawn.
RedrawStale ==
    /\ Begins /\ Version < stored[Issue]
    /\ Settled(Issue) /\ NextOne /\ HadItsTurn
    /\ counted' = [counted EXCEPT ![Issue] = Version]
    /\ UNCHANGED <<others, stored, runs, upsets, skipped, half>>

\* _record(): the row is written, whatever the payload says.
Record ==
    /\ Begins /\ Version >= stored[Issue]
    /\ stored' = [stored EXCEPT ![Issue] = Version]
    /\ older' = ToTheBack(Issue)
    /\ Goes("ask")
    /\ half' = half \cup {Issue}
    /\ LET waiting == {run.left[k].issue : k \in 2..Len(run.left)}
       IN  /\ skipped' = (skipped \/ \E i \in waiting : Issue \in passed[i])
           /\ passed' = [i \in Issues |->
                            IF i = Issue THEN {}
                            ELSE IF i \in waiting THEN passed[i] \cup {Issue} ELSE passed[i]]
    /\ UNCHANGED <<others, noted, thread, runs, upsets, lively, excused, counted>>

\* _archived_before(): a thread that is gone is not archived.
Ask ==
    /\ run.step = "ask"
    /\ run' = [run EXCEPT !.step = "unlock",
                  !.archived = thread[Issue] # NULL /\ thread[Issue].archived]
    /\ UNCHANGED <<others, rows, thread, runs, upsets, lively, excused, tallies>>

AskFails ==
    /\ run.step = "ask" /\ Upset /\ NextOne
    /\ UNCHANGED <<others, rows, thread, runs, lively, excused, tallies>>

\* given_back: the row says it was shut, so that its being open is news.
GivenBack == noted[Issue]

\* An open issue gets its thread back first of all.
Unlock ==
    /\ run.step = "unlock" /\ thread[Issue] # NULL
    /\ thread' = [thread EXCEPT ![Issue].archived = FALSE, ![Issue].locked = FALSE]
    /\ run' = [run EXCEPT !.step = "tell", !.kept = GivenBack]
    /\ lively' = IF noted[Issue] THEN lively \cup {Issue} ELSE lively
    /\ UNCHANGED <<others, rows, runs, upsets, excused, tallies>>

UnlockGone ==
    /\ run.step = "unlock" /\ thread[Issue] = NULL
    /\ Goes("write")
    /\ UNCHANGED <<others, rows, thread, runs, upsets, lively, excused, tallies>>

\* A permission not granted is stepped over; anything else is left for the way out.
UnlockRefused ==
    /\ run.step = "unlock" /\ Upset /\ \E step \in {"write", "again"} : Goes(step)
    /\ UNCHANGED <<others, rows, thread, runs, lively, excused, tallies>>

\* _note_the_lock()
Tell ==
    /\ run.step = "tell"
    /\ noted' = [noted EXCEPT ![Issue] = FALSE] /\ older' = ToTheBack(Issue)
    /\ Goes("write")
    /\ UNCHANGED <<others, stored, thread, runs, upsets, lively, excused, tallies>>

TellFails ==
    /\ run.step = "tell" /\ Upset /\ Goes("again")
    /\ UNCHANGED <<others, rows, thread, runs, lively, excused, tallies>>

\* update(): the thread is woken and its block written; or a thread that is gone replaced.
Write ==
    /\ run.step = "write"
    /\ counted' = [counted EXCEPT ![Issue] = Version] /\ half' = half \ {Issue}
    /\ older' = ToTheBack(Issue)
    /\ IF thread[Issue] = NULL
       THEN /\ thread' = [thread EXCEPT ![Issue] = Opened(Version)]
            /\ noted' = [noted EXCEPT ![Issue] = FALSE]
            /\ run' = [run EXCEPT !.step = "again", !.kept = TRUE]
            /\ lively' = lively \cup {Issue}
       ELSE /\ thread' = [thread EXCEPT ![Issue] = [Woken(Issue) EXCEPT !.block = Version]]
            /\ Goes("again")
            /\ UNCHANGED <<noted, lively>>
    /\ UNCHANGED <<others, stored, runs, upsets, excused, passed, skipped>>

\* Refused once it was woken.
WriteFails ==
    /\ run.step = "write" /\ Upset /\ thread[Issue] # NULL
    /\ thread' = [thread EXCEPT ![Issue] = Woken(Issue)]
    /\ Goes("again")
    /\ UNCHANGED <<others, rows, runs, lively, excused, tallies>>

\* archive(), in the finally: whether or not the rest went through.
PutsBack == run.archived /\ ~run.kept /\ thread[Issue] # NULL

ArchiveAgain ==
    /\ run.step = "again" /\ NextOne
    /\ thread' = IF PutsBack THEN [thread EXCEPT ![Issue].archived = TRUE] ELSE thread
    /\ UNCHANGED <<others, rows, runs, upsets, lively, excused, tallies>>

ArchiveRefused ==
    /\ run.step = "again" /\ PutsBack /\ Upset /\ NextOne
    /\ excused' = excused \cup {Issue}
    /\ UNCHANGED <<others, rows, thread, runs, lively, tallies>>

\* The process dies.  A thread it had woken stays awake.
Die ==
    /\ run # Idle /\ Upset /\ run' = Idle
    /\ excused' = excused \cup {i \in Issues : AtHand(i)}
    /\ UNCHANGED <<others, rows, thread, runs, lively, tallies>>

Redraw ==
    \/ List \/ Order \/ Finish \/ Busy \/ RedrawStale \/ Record \/ Ask \/ AskFails
    \/ Unlock \/ UnlockGone \/ UnlockRefused \/ Tell \/ TellFails \/ Write \/ WriteFails
    \/ ArchiveAgain \/ ArchiveRefused \/ Die

Next ==
    \/ Redraw
    \/ \E i \in Issues :
           \/ Change(i) \/ Talk(i) \/ GoesQuiet(i) \/ Delete(i)
           \/ \E v \in due[i] : DeliverStale(i, v) \/ Deliver(i, v) \/ DeliverFails(i, v)

Spec == Init /\ [][Next]_redrawsVars

(***************************************************************************)
(* What should hold.                                                       *)
(***************************************************************************)

TypeOK ==
    /\ said \in [Issues -> Seq(BOOLEAN)]
    /\ \A i \in Issues : stored[i] \in 1..Latest(i) /\ due[i] \subseteq 1..Latest(i)
    /\ noted \in [Issues -> BOOLEAN] /\ older \subseteq Issues \X Issues
    /\ \A i \in Issues : thread[i] = NULL \/ thread[i].block \in 1..Latest(i)
    /\ run.step \in {"idle", "listed", "next", "ask", "unlock", "tell", "write", "again"}
    /\ run.time \in 0..PerRun /\ lively \cup excused \cup half \subseteq Issues
    /\ passed \in [Issues -> SUBSET Issues] /\ counted \in [Issues -> Nat]

\* refresh.py, items.py (_show_it): a run leaves a quiet thread quiet, and one that is not
\* awake.  A reply written while the run was at that thread is archived over, and a thread
\* whose archiving was refused, or under which the process died, stays awake.
LeftAsFound ==
    run = Idle =>
        \A i \in Issues : thread[i] # NULL /\ ~thread[i].locked =>
            thread[i].archived = (i \notin lively) \/ i \in excused

\* refresh.py (refresh): "the threads a run stops short of are the ones the next run over the
\* same kinds starts with": none is redrawn a second time before one that both runs listed,
\* unless a payload turned away shut the latter's thread, which writes its row.
EachInItsTurn == ~skipped

\* refresh.py (_redraw): what is told of as redrawn shows what was listed, or something newer;
\* where a newer delivery could not write the block, it is still owed, or was turned away
\* since, behind the row of a later redraw that failed before the block.
ShownAsListed ==
    \A i \in Issues :
        \/ thread[i] = NULL \/ thread[i].block >= counted[i]
        \/ \E v \in due[i] : v > counted[i]
        \/ i \in half
=============================================================================
