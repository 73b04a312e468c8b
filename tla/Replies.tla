------------------------------ MODULE Replies ------------------------------
(***************************************************************************)
(* Whom a reply on a diff answers.                                         *)
(*                                                                         *)
(*   services/review_threads.py, services/notes.py,                        *)
(*   services/delivery/worker.py, github/client.py                         *)
(*                                                                         *)
(* A reply's delivery does not say who wrote before it, so the comments of *)
(* the pull request are read from GitHub when it is handled, which may be  *)
(* long after and with more of them written since.  A young reply waits    *)
(* for a GitHub that is down, by failing its delivery; an old one goes out *)
(* without ringing anybody.  One reply is followed here; how it is claimed *)
(* and remembered is Notes.                                                *)
(***************************************************************************)
EXTENDS Naturals, FiniteSets, Sequences

CONSTANTS
    Logins,
    Account(_),     \* the member a login is linked to
    MentionLimit,   \* MENTION_LIMIT
    WaitsForGitHub, \* REPLY_WAITS_FOR_GITHUB
    BackoffFor(_),  \* WorkerSettings.backoff_for
    HeldFor(_),     \* what so many of these waits come to
    MaxAttempts,    \* WorkerSettings.max_attempts
    LastHour,       \* bound: the clock
    MaxComments,    \* bound: comments on the pull request
    MaxUpsets,      \* bound: posts refused, comments deleted
    NULL

\* What a delivery is kept for, from its first attempt to its last.
TotalBackoff == HeldFor(MaxAttempts - 1)

HeldForIsTheSum ==
    /\ HeldFor(0) = 0
    /\ \A a \in 0..(MaxAttempts - 1) :
          /\ {HeldFor(a), BackoffFor(a)} \subseteq Nat
          /\ HeldFor(a + 1) = HeldFor(a) + BackoffFor(a)

\* The defaults: two hours against thirty minutes.
RepliesAssumption ==
    /\ MentionLimit \in Nat \ {0} /\ MaxAttempts \in Nat \ {0}
    /\ {WaitsForGitHub, LastHour, MaxComments, MaxUpsets} \subseteq Nat
    /\ HeldForIsTheSum /\ WaitsForGitHub <= TotalBackoff

VARIABLES
    now,
    comments,  \* GitHub: who wrote each, and the comment its thread opened with; or NULL
    reply,     \* the one followed: its id, writer, thread and time; or NULL
    delivery,  \* webhook_events: its state, attempts, and when it is due
    thread,    \* the comments read for it, none if GitHub did not say
    rung,      \* Discord: the members the post rang, or NULL
    upsets,
    readAs,    \* history: the comments when they were read
    refusals   \* history: posts of it that were refused once it was old

repliesVars ==
    <<now, comments, reply, delivery, thread, rung, upsets, readAs, refusals>>

NotSent == [state |-> "not sent", attempts |-> 0, due |-> 0]

Init ==
    /\ now = 0 /\ comments = <<>> /\ reply = NULL
    /\ delivery = NotSent /\ thread = {} /\ rung = NULL /\ upsets = 0
    /\ readAs = NULL /\ refusals = 0

(***************************************************************************)
(* GitHub.                                                                 *)
(***************************************************************************)

here == <<delivery, thread, rung, readAs, refusals>>

\* Bound: nothing more is looked at once the reply is settled.
Unsettled == delivery.state \notin {"done", "given up"}

Tick ==
    /\ Unsettled /\ now < LastHour /\ now' = now + 1
    /\ UNCHANGED <<comments, reply, here, upsets>>

\* Comments get their ids in order; one opens a thread or stands in one.
Comment(by, opener) ==
    /\ Unsettled /\ Len(comments) < MaxComments /\ opener \in 1..(Len(comments) + 1)
    /\ opener <= Len(comments) /\ comments[opener] # NULL => comments[opener].opener = opener
    /\ comments' = Append(comments, [by |-> by, opener |-> opener])

Write(by, opener) ==
    /\ Comment(by, opener)
    /\ UNCHANGED <<now, reply, here, upsets>>

\* The reply followed.  GitHub may give no time for it.
Answer(by, opener) ==
    /\ reply = NULL /\ opener \in DOMAIN comments /\ Comment(by, opener)
    /\ \E created \in {now, NULL} :
           reply' = [id |-> Len(comments) + 1, by |-> by, opener |-> opener,
                     created |-> created]
    /\ UNCHANGED <<now, here, upsets>>

Upset == upsets < MaxUpsets /\ upsets' = upsets + 1

Delete(c) ==
    /\ Unsettled /\ Upset /\ c \in DOMAIN comments /\ comments[c] # NULL
    /\ comments' = [comments EXCEPT ![c] = NULL]
    /\ UNCHANGED <<now, reply, here>>

Send ==
    /\ reply # NULL /\ delivery = NotSent
    /\ delivery' = [state |-> "queued", attempts |-> 0, due |-> now]
    /\ UNCHANGED <<now, comments, reply, thread, rung, upsets, readAs, refusals>>

(***************************************************************************)
(* An attempt.  GitHub may answer, be down or slow, or refuse, at each.    *)
(***************************************************************************)

Attempt == delivery.state = "queued" /\ delivery.due <= now

\* _reschedule()
Failed ==
    delivery' =
        IF delivery.attempts + 1 >= MaxAttempts
        THEN [delivery EXCEPT !.state = "given up", !.attempts = @ + 1]
        ELSE [state |-> "queued", attempts |-> delivery.attempts + 1,
              due |-> now + BackoffFor(delivery.attempts)]

\* A reply GitHub gave no time for is old.
WorthWaitingFor == reply.created # NULL /\ now - reply.created < WaitsForGitHub

Row(c) == [id |-> c, by |-> comments[c].by, opener |-> comments[c].opener]

\* list_review_comments()
ReadThread ==
    /\ Attempt
    /\ thread' = {Row(c) : c \in {d \in DOMAIN comments : comments[d] # NULL}}
    /\ readAs' = comments
    /\ delivery' = [delivery EXCEPT !.state = "posting"]
    /\ UNCHANGED <<now, comments, reply, rung, upsets, refusals>>

\* The reply goes out without ringing anybody.
GoesWithout ==
    /\ delivery' = [delivery EXCEPT !.state = "posting"]
    /\ thread' = {} /\ readAs' = NULL

\* Refused, or the pull request is gone.
ReadRefused ==
    /\ Attempt /\ GoesWithout
    /\ UNCHANGED <<now, comments, reply, rung, upsets, refusals>>

\* Down, limited, or too slow: nothing is claimed yet.
ReadFails ==
    /\ Attempt
    /\ IF WorthWaitingFor THEN Failed /\ UNCHANGED <<thread, readAs>> ELSE GoesWithout
    /\ UNCHANGED <<now, comments, reply, rung, upsets, refusals>>

Earlier(row) == row.opener = reply.opener /\ row.id < reply.id

\* everyone_it_answers(): each once, where they first came in, and the first of them kept.
FirstWords ==
    LET others == {row \in thread : Earlier(row) /\ row.by # reply.by} IN
    {row \in others : \A r \in others : r.by = row.by => row.id <= r.id}

EveryoneItAnswers ==
    {row.by : row \in {r \in FirstWords :
                          Cardinality({q \in FirstWords : q.id < r.id}) < MentionLimit}}

\* _audience(): by account, and never the writer's own.
Rings == {Account(l) : l \in EveryoneItAnswers} \ {Account(reply.by)}

Post ==
    /\ delivery.state = "posting"
    /\ rung' = Rings
    /\ delivery' = [delivery EXCEPT !.state = "done"]
    /\ UNCHANGED <<now, comments, reply, thread, upsets, readAs, refusals>>

\* Discord refuses the post; what was claimed is handed back.
PostFails ==
    /\ delivery.state = "posting" /\ Upset /\ Failed
    /\ refusals' = IF WorthWaitingFor THEN refusals ELSE refusals + 1
    /\ UNCHANGED <<now, comments, reply, thread, rung, readAs>>

Next ==
    \/ Tick \/ Send
    \/ \E by \in Logins, opener \in 1..MaxComments : Write(by, opener) \/ Answer(by, opener)
    \/ \E c \in 1..MaxComments : Delete(c)
    \/ ReadThread \/ ReadRefused \/ ReadFails \/ Post \/ PostFails

Spec == Init /\ [][Next]_repliesVars

(***************************************************************************)
(* What should hold.                                                       *)
(***************************************************************************)

TypeOK ==
    /\ now \in 0..LastHour /\ upsets \in 0..MaxUpsets /\ refusals \in 0..MaxUpsets
    /\ Len(comments) <= MaxComments
    /\ reply = NULL \/ reply.id \in DOMAIN comments
    /\ delivery.state \in {"not sent", "queued", "posting", "done", "given up"}
    /\ delivery.attempts \in 0..MaxAttempts

\* review_threads.py: "a real outage costs the ping and not the reply": a reply is given up
\* on only after Discord refused it at an attempt that no longer waited for GitHub.
OutageCostsThePing == delivery.state = "given up" => refusals > 0

\* review_threads.py (everyone_it_answers): a reply rings the members who stood in its thread
\* before it when it was read, the opener among them, and neither its writer nor anybody who
\* came after it.
RingsWhomItAnswers ==
    rung # NULL /\ readAs # NULL =>
        LET before == {c \in 1..(reply.id - 1) : readAs[c] # NULL /\ readAs[c].opener = reply.opener}
            members == {Account(readAs[c].by) : c \in before} \ {Account(reply.by)}
        IN  /\ rung \subseteq members
            /\ reply.opener \in before /\ readAs[reply.opener].by # reply.by =>
                   Account(readAs[reply.opener].by) \in rung \cup {Account(reply.by)}
            /\ Cardinality({readAs[c].by : c \in before} \ {reply.by}) <= MentionLimit =>
                   rung = members
=============================================================================
