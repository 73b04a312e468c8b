------------------------------ MODULE MCNotes ------------------------------
(***************************************************************************)
(* What a thread is told beside its block: comments and state changes,     *)
(* which may be edited and whose thread may be lost and rebuilt (Notes);   *)
(* labels, the draft switch and commits (Lines); and whom a reply rings    *)
(* (Replies).  Each is checked on a small instance of its own: a behaviour *)
(* chooses one, and the others stay as they were.                          *)
(***************************************************************************)
EXTENDS Notes, TLC

CONSTANTS Others, LastCommit, PerPush, MaxEvents, MaxUpsets, MaxSlips,
          Logins, Account(_), MentionLimit, WaitsForGitHub, BackoffFor(_), HeldFor(_), MaxAttempts, LastHour,
          MaxComments, MaxLosses

VARIABLES
    part,
    about, latest, tagged, branch, queued, item, newest, spoken, told, counted, work, chosen,
    upsets, slips, ever, mixed, muffled, backward, overtaken, due, leaned, dropped,
    now, comments, reply, delivery, answered, rung, losses, readAs, refusals

Telling == INSTANCE Lines WITH Announcers <- Workers, claimed <- spoken
Replying == INSTANCE Replies WITH thread <- answered, upsets <- losses, MaxUpsets <- MaxLosses

ASSUME TellingAssumption == Telling!LinesAssumption /\ Replying!RepliesAssumption

linesAside ==
    <<about, latest, tagged, branch, queued, item, newest, spoken, told, counted, work, chosen,
      upsets, slips, ever, mixed, muffled, backward, overtaken, due, leaned, dropped>>
repliesAside ==
    <<now, comments, reply, delivery, answered, rung, losses, readAs, refusals>>
allVars == <<part, vars, linesAside, repliesAside>>

ToldInit ==
    /\ part \in {"notes", "lines", "replies"}
    /\ Init /\ Telling!Init /\ Replying!Init
    \* It may start in several ways, and does so where it is looked at.
    /\ part # "lines" => about = "labels"

Remark == part = "notes" /\ Next /\ UNCHANGED <<part, linesAside, repliesAside>>
Tell   == part = "lines" /\ Telling!Next /\ UNCHANGED <<part, vars, repliesAside>>
Reply  == part = "replies" /\ Replying!Next /\ UNCHANGED <<part, vars, linesAside>>

ToldNext == Remark \/ Tell \/ Reply

ToldSpec == ToldInit /\ [][ToldNext]_allVars

\* Two troubles, or one beside a second closing or reopening; and commits are said in a thread
\* that asked for them, or did not, and is not deleted.
Small ==
    /\ faults + people <= 2 - version[MaxFlips]
    /\ about = "commits" => upsets <= 1

Interchangeable == Permutations(Workers)

\* A member who has two accounts.
AccountOf(login) == IF login = "ann2" THEN "ann" ELSE login
Doubled(attempts) == IF attempts = 0 THEN 1 ELSE 2
DoubledSoFar(attempts) == IF attempts = 0 THEN 0 ELSE 2 * attempts - 1

\* Every variable of the part that moves has its type.
ToldTypeOK ==
    CASE part = "notes" -> TypeOK
      [] part = "lines" -> Telling!TypeOK
      [] part = "replies" -> Replying!TypeOK

\* The newest version of a note is what is shown, in a thread shut when it should be; what
\* a delivery has to say of labels, commits and the draft switch is said, once; and a reply
\* rings whom it answers, and is not lost for it.
ShownAndHeard ==
    /\ MirroredWhenQuiet /\ Telling!ThreadHears
    /\ Replying!OutageCostsThePing /\ Replying!RingsWhomItAnswers
=============================================================================
