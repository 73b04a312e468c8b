------------------------------ MODULE Verdicts ------------------------------
(***************************************************************************)
(* What CI and the reviewers made of a pull request, said in its thread.   *)
(*                                                                         *)
(*   services/checks.py, services/reviews.py, github/webhooks/checks.py,   *)
(*   services/sync/announcements.py, domain/models.py                      *)
(*                                                                         *)
(* Nothing of either is stored.  A delivery that may complete the picture  *)
(* has GitHub asked for the whole of it, in several reads, and what is     *)
(* found is said once, by a claim on a key made of what was read.  Two     *)
(* apps run checks and each reports its own; reviewers are asked, answer,  *)
(* and change their minds, and not every change is delivered.              *)
(***************************************************************************)
EXTENDS Naturals, FiniteSets

CONSTANTS
    Apps,       \* the apps that run checks
    Reviewers,
    Handlers,   \* deliveries that may be handled at once
    MaxPushes,  \* bound: commits pushed
    MaxRuns,    \* bound: check runs started
    MaxMoves,   \* bound: pushes, closings and openings
    MaxTurns,   \* bound: what reviewers and whoever asks them do
    MaxTroubles, \* bound: posts refused, deaths, reads that fail
    NULL

VerdictsAssumption ==
    NULL \notin Nat /\ {MaxPushes, MaxRuns, MaxMoves, MaxTurns, MaxTroubles} \subseteq Nat

Heads == 1..(MaxPushes + 1)

VARIABLES
    topic,    \* "checks" or "approvals"
    head,     \* GitHub: the commit the pull request is at
    shutBy,   \* GitHub: it is closed (or, for approvals, a draft)
    runs,     \* GitHub: runs[h][a]: the latest check run of a on h
    lastRun,  \* GitHub: the newest id of a run
    waiting,  \* GitHub: who was asked to review and has not answered
    verdict,  \* GitHub: what each reviewer's latest verdict is, or "none"
    letters,  \* deliveries to handle
    notes,    \* the keys claimed in mirrored_notes
    lines,    \* lines[k]: how often the line of k was posted, for the keys posted
    task,     \* task[t]: the delivery t is at, and what it has read
    turns, moves, troubles,
    agreedOn, \* history: the commit at which an approval or a withdrawal brought about the
              \* agreement there is, open since, or 0
    everAgreed, \* history: the commits at which there was agreement
    excused   \* history: the keys lost with a claim, read over a change, or passed over
              \* because the pull request was not open

hub   == <<head, shutBy, runs, lastRun, waiting, verdict>>
past  == <<agreedOn, everAgreed>>
verdictsVars == <<topic, hub, letters, notes, lines, task, turns, moves, troubles, past, excused>>

NoRun == [id |-> 0, state |-> "none"]
NoKey  == <<>>
AtRest == [step |-> "idle", letter |-> NULL, sha |-> 0, key |-> NoKey, torn |-> FALSE]

Init ==
    /\ topic \in {"checks", "approvals"}
    /\ head = 1 /\ shutBy = FALSE
    /\ runs = [h \in Heads |-> [a \in Apps |-> NoRun]] /\ lastRun = 0
    /\ waiting \in IF topic = "approvals" THEN SUBSET Reviewers ELSE {{}}
    /\ verdict = [r \in Reviewers |-> "none"]
    /\ letters = {} /\ notes = {} /\ lines = <<>>
    /\ task = [t \in Handlers |-> AtRest]
    /\ turns = 0 /\ moves = 0 /\ troubles = 0
    /\ agreedOn = 0 /\ everAgreed = {} /\ excused = {}

Trouble == troubles < MaxTroubles /\ troubles' = troubles + 1
\* What is read moves on, or changes hands.
Moves   == moves < MaxMoves /\ moves' = moves + 1
Turn    == turns < MaxTurns /\ turns' = turns + 1

(***************************************************************************)
(* What is read off GitHub.                                                *)
(***************************************************************************)

\* CheckSuiteAnnouncer._report(): every check of the commit, of whatever app.
Listed(sha)  == {runs[sha][a] : a \in {b \in Apps : runs[sha][b].id # 0}}
Pending(R)   == \E r \in R : r.state = "running"
WorthSaying(R) == \E r \in R : r.state = "ran"
Reportable(R) == R # {} /\ ~Pending(R) /\ WorthSaying(R)

Newest(R) == CHOOSE i \in {r.id : r \in R} : \A r \in R : r.id <= i

\* CheckReport.note_key.
CheckKey(R) == <<"checks", Cardinality(R), Newest(R)>>

\* latest_verdicts(): those that carry one; and EveryoneApprovedLine._round_up() on them.
Verdicts == {verdict[r] : r \in Reviewers} \ {"none"}

\* Mutant: nobody's verdict is everybody's approval.
NobodyDisagrees(V) == V \subseteq {"approved"}

AllApprove(V) == V = {"approved"}

Agreed == waiting = {} /\ Verdicts = {"approved"} /\ ~shutBy

ApprovedKey(sha) == <<"approved", sha>>

(***************************************************************************)
(* GitHub.                                                                 *)
(***************************************************************************)

\* Whatever is between two reads of a pull request may have read across this.
Torn == [t \in Handlers |-> IF task[t].step = "listing" THEN [task[t] EXCEPT !.torn = TRUE] ELSE task[t]]

\* After an event: the agreement there is, and whether something that is delivered brought it.
Reconsidered(triggers) ==
    /\ agreedOn' = IF ~Agreed' THEN 0 ELSE IF triggers THEN head' ELSE IF Agreed /\ head' = head THEN agreedOn ELSE 0
    /\ everAgreed' = everAgreed \cup (IF Agreed' THEN {head'} ELSE {})

Push ==
    /\ Moves /\ head < MaxPushes + 1 /\ head' = head + 1
    /\ task' = Torn
    /\ UNCHANGED <<topic, shutBy, runs, lastRun, waiting, verdict, letters, notes, lines, turns, troubles, excused>>
    /\ Reconsidered(FALSE)

\* It is closed or made a draft, or opened or made ready again.
CloseOrOpen ==
    /\ Moves
    /\ shutBy' = ~shutBy
    /\ task' = Torn
    /\ UNCHANGED <<topic, head, runs, lastRun, waiting, verdict, letters, notes, lines, turns, troubles, excused>>
    /\ Reconsidered(FALSE)

\* An app starts a run on the newest commit, or runs again what it finished.
StartRun(a) ==
    /\ topic = "checks" /\ lastRun < MaxRuns
    /\ runs[head][a].state # "running"
    /\ lastRun' = lastRun + 1
    /\ runs' = [runs EXCEPT ![head][a] = [id |-> lastRun + 1, state |-> "running"]]
    /\ UNCHANGED <<topic, head, shutBy, waiting, verdict, letters, notes, lines, task, turns, moves, troubles, past, excused>>

\* The app's suite on the commit is complete, whatever the pull request is at by now.
FinishRun(h, a) ==
    /\ runs[h][a].state = "running"
    /\ \E how \in {"ran", "skipped"} : runs' = [runs EXCEPT ![h][a].state = how]
    /\ letters' = letters \cup {[kind |-> "suite", sha |-> h, of |-> a]}
    /\ UNCHANGED <<topic, head, shutBy, lastRun, waiting, verdict, notes, lines, task, turns, moves, troubles, past, excused>>

About(what, r) == [kind |-> what, sha |-> head, of |-> r]

Ask(r) ==
    /\ topic = "approvals" /\ Turn /\ r \notin waiting
    /\ waiting' = waiting \cup {r}
    /\ task' = Torn
    /\ UNCHANGED <<topic, head, shutBy, runs, lastRun, verdict, letters, notes, lines, moves, troubles, excused>>
    /\ Reconsidered(FALSE)

Withdraw(r) ==
    /\ Turn /\ r \in waiting
    /\ waiting' = waiting \ {r}
    /\ letters' = letters \cup {About("removed", r)}
    /\ task' = Torn
    /\ UNCHANGED <<topic, head, shutBy, runs, lastRun, verdict, notes, lines, moves, troubles, excused>>
    /\ Reconsidered(TRUE)

\* A review answers the request, one that only comments too, which is no verdict; only an
\* approval has anything asked about it here.
Review(r, v) ==
    /\ topic = "approvals" /\ Turn
    /\ verdict' = IF v = "commented" THEN verdict ELSE [verdict EXCEPT ![r] = v]
    /\ waiting' = waiting \ {r}
    /\ letters' = IF v = "approved" THEN letters \cup {About("approved", r)} ELSE letters
    /\ task' = Torn
    /\ UNCHANGED <<topic, head, shutBy, runs, lastRun, notes, lines, moves, troubles, excused>>
    /\ Reconsidered(v = "approved")

\* A dismissal rewrites the review, and the bot does not hear of it.
Dismiss(r) ==
    /\ Turn /\ verdict[r] \in {"approved", "changes"}
    /\ verdict' = [verdict EXCEPT ![r] = "dismissed"]
    /\ task' = Torn
    /\ UNCHANGED <<topic, head, shutBy, runs, lastRun, waiting, letters, notes, lines, moves, troubles, excused>>
    /\ Reconsidered(FALSE)

(***************************************************************************)
(* A delivery.                                                             *)
(***************************************************************************)

Over(t) == task' = [task EXCEPT ![t] = AtRest]

\* The head, whether it is open, and who has not answered; then the rest is read.
Continues(l) ==
    /\ ~shutBy
    /\ IF l.kind = "suite" THEN l.sha = head ELSE waiting = {}

ReadItem(t) ==
    /\ task[t].step = "idle"
    /\ \E l \in letters :
          /\ letters' = letters \ {l}
          /\ IF Continues(l)
             THEN /\ task' = [task EXCEPT ![t].step = "listing", ![t].letter = l, ![t].sha = head]
                  /\ UNCHANGED excused
             ELSE /\ excused' = IF shutBy /\ l.kind = "suite" /\ l.sha = head
                                THEN excused \cup {<<"shut", head>>} ELSE excused
                  /\ UNCHANGED task
    /\ UNCHANGED <<topic, hub, notes, lines, turns, moves, troubles, past>>

\* list_check_runs() or list_reviews(), some time after.
List(t) ==
    LET l == task[t].letter  sha == task[t].sha  R == Listed(sha)
        found == IF l.kind = "suite" THEN Reportable(R) ELSE AllApprove(Verdicts)
    IN
    /\ task[t].step = "listing"
    /\ task' = IF ~found THEN [task EXCEPT ![t] = AtRest]
               ELSE [task EXCEPT ![t].step = "claiming",
                                 ![t].key = IF l.kind = "suite" THEN CheckKey(R) ELSE ApprovedKey(sha)]
    /\ UNCHANGED <<topic, hub, letters, notes, lines, turns, moves, troubles, past, excused>>

\* ClaimedLine.say_once(): the claim, which whoever is first has.
Claim(t) ==
    LET k == task[t].key IN
    /\ task[t].step = "claiming"
    /\ IF k \in notes THEN Over(t) /\ UNCHANGED notes
       ELSE notes' = notes \cup {k} /\ task' = [task EXCEPT ![t].step = "posting"]
    /\ UNCHANGED <<topic, hub, letters, lines, turns, moves, troubles, past, excused>>

Posted(k) == [j \in DOMAIN lines \cup {k} |-> IF j \in DOMAIN lines THEN lines[j] + (IF j = k THEN 1 ELSE 0) ELSE 1]

Post(t) ==
    /\ task[t].step = "posting"
    /\ lines' = Posted(task[t].key)
    /\ excused' = IF task[t].torn THEN excused \cup {task[t].key} ELSE excused
    /\ Over(t)
    /\ UNCHANGED <<topic, hub, letters, notes, turns, moves, troubles, past>>

\* Nothing was said, or it was and the answer is lost.
PostFails(t) ==
    /\ task[t].step = "posting" /\ Trouble
    /\ task' = [task EXCEPT ![t].step = "handing_back"]
    /\ \/ UNCHANGED <<lines, excused>>
       \/ lines' = Posted(task[t].key) /\ excused' = excused \cup {task[t].key}
    /\ UNCHANGED <<topic, hub, letters, notes, turns, moves, past>>

Again(t) == letters' = letters \cup {task[t].letter} /\ Over(t)

GivenBack(t) == notes \ {task[t].key}

\* The claim goes back before the delivery is tried again; or even that fails.
HandBack(t) ==
    /\ task[t].step = "handing_back"
    /\ Again(t)
    /\ \/ notes' = GivenBack(t) /\ UNCHANGED <<excused, troubles>>
       \/ Trouble /\ excused' = excused \cup {task[t].key} /\ UNCHANGED notes
    /\ UNCHANGED <<topic, hub, lines, turns, moves, past>>

\* GitHub does not answer, the thread is not there yet, or the process dies.
Fails(t) ==
    /\ task[t].step # "idle" /\ Trouble
    /\ Again(t)
    /\ excused' = IF task[t].step \in {"posting", "handing_back"} THEN excused \cup {task[t].key} ELSE excused
    /\ UNCHANGED <<topic, hub, notes, lines, turns, moves, past>>

Next ==
    \/ Push \/ CloseOrOpen
    \/ \E a \in Apps : StartRun(a) \/ \E h \in Heads : FinishRun(h, a)
    \/ \E r \in Reviewers : Ask(r) \/ Withdraw(r) \/ Dismiss(r)
    \/ \E r \in Reviewers, v \in {"approved", "changes", "commented"} : Review(r, v)
    \/ \E t \in Handlers :
          \/ ReadItem(t) \/ List(t) \/ Claim(t) \/ Post(t) \/ PostFails(t)
          \/ HandBack(t) \/ Fails(t)

Spec == Init /\ [][Next]_verdictsVars

TypeOK ==
    /\ head \in Heads /\ shutBy \in BOOLEAN /\ waiting \subseteq Reviewers
    /\ \A h \in Heads, a \in Apps : runs[h][a].id \in 0..lastRun
    /\ verdict \in [Reviewers -> {"none", "approved", "changes", "dismissed"}]
    /\ \A l \in letters : l.kind \in {"suite", "approved", "removed"} /\ l.sha \in Heads
    /\ DOMAIN lines \subseteq notes \cup excused
    /\ \A t \in Handlers : task[t].key # NoKey <=> task[t].step \in {"claiming", "posting", "handing_back"}
    /\ \A t \in Handlers : task[t].step \in {"posting", "handing_back"} => task[t].key \in notes
    /\ agreedOn \in 0..head /\ everAgreed \subseteq Heads

Quiet == letters = {} /\ \A t \in Handlers : task[t].step = "idle"

Said(k) == k \in DOMAIN lines

\* Once every delivery is handled, what CI made of the commit the pull request is at was said,
\* all of it, and so was an agreement that stands; unless the claim was lost in between, or the
\* suites were turned away while the pull request was not open.  And nothing is said twice.
SaidOnceWhenQuiet ==
    /\ \A k \in DOMAIN lines : lines[k] = 1 \/ k \in excused
    /\ Quiet =>
          /\ LET R == Listed(head) IN
                Reportable(R) => Said(CheckKey(R)) \/ {CheckKey(R), <<"shut", head>>} \cap excused # {}
          /\ agreedOn # 0 => Said(ApprovedKey(head)) \/ ApprovedKey(head) \in excused

\* Agreement is announced on a commit only if there was agreement on it, unless the pull
\* request changed between the two reads.
AgreedWhenSaid ==
    \A k \in DOMAIN lines : k[1] = "approved" => k[2] \in everAgreed \/ k \in excused
=============================================================================
