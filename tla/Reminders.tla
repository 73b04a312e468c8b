----------------------------- MODULE Reminders -----------------------------
(***************************************************************************)
(* Reminders: written down by commands, sent when they fall due.           *)
(*                                                                         *)
(*   services/reminders/book.py, services/reminders/send.py,               *)
(*   db/stores/reminders.py                                                *)
(*                                                                         *)
(* The reminders one person sets in one server, each named by the command  *)
(* that sets it, and the senders of the processes running at once.  Putting *)
(* the thread back after a send, which nothing here waits for, is left out. *)
(***************************************************************************)
EXTENDS Naturals, FiniteSets

CONSTANTS
    Ids,          \* ids reminders may be given
    DueAt,        \* DueAt[r]: the minute r falls due
    MaxTime,      \* bound: the last minute
    Senders,      \* senders, one a process
    MostWaiting,  \* MOST_WAITING
    AtOnce,       \* bound: commands between their count and their insert
    MostAttempts, \* MOST_ATTEMPTS
    MaxFaults,    \* bound: refusals, deaths and failed writes
    Prompt,       \* TRUE: a send ends within RETRY_AFTER of its claim
    NULL

ASSUME ReminderAssumption ==
    /\ Ids \subseteq Nat
    /\ DueAt \in [Ids -> Nat \ {0}]
    /\ MaxTime \in Nat /\ MostWaiting \in Nat /\ MaxFaults \in Nat
    /\ AtOnce \in Nat \ {0} /\ MostAttempts \in Nat \ {0}
    /\ Prompt \in BOOLEAN
    /\ NULL \notin Ids

VARIABLES
    now,       \* the application's clock
    state,     \* state[r]: "unset", "counted", "turned_away", "waiting", "gone"
    claimed,   \* claimed[r]: claimed_at is set
    stale,     \* stale[r]: claimed_at is older than RETRY_AFTER
    attempts,  \* attempts[r]: failed_attempts
    pc,        \* pc[s]: where the sender is
    hand,      \* hand[s]: the reminder it claimed
    faults,    \* how many of those there were
    sent,      \* history: posts that carried r
    refusals,  \* history: posts of r that came back as an error
    denied     \* history: reminders Discord refused for good

queue   == <<state, claimed, stale, attempts>>
sender  == <<pc, hand>>
history == <<sent, refusals, denied>>
vars    == <<now, queue, sender, faults, history>>

States == {"unset", "counted", "turned_away", "waiting", "gone"}
PCs    == {"idle", "posting", "counting", "finishing"}

Waiting == {r \in Ids : state[r] = "waiting"}
Counted == {r \in Ids : state[r] = "counted"}

Init ==
    /\ now = 0
    /\ state    = [r \in Ids |-> "unset"]
    /\ claimed  = [r \in Ids |-> FALSE]
    /\ stale    = [r \in Ids |-> FALSE]
    /\ attempts = [r \in Ids |-> 0]
    /\ pc       = [s \in Senders |-> "idle"]
    /\ hand     = [s \in Senders |-> NULL]
    /\ faults = 0
    /\ sent     = [r \in Ids |-> 0]
    /\ refusals = [r \in Ids |-> 0]
    /\ denied = {}

Fault == faults < MaxFaults /\ faults' = faults + 1

(***************************************************************************)
(* ReminderBook.add(): one transaction, which locks nothing.               *)
(***************************************************************************)

\* Mutant: the limit is passed by one.
RoomForOneTooMany == Cardinality(Waiting) <= MostWaiting

HasRoom == Cardinality(Waiting) < MostWaiting

\* A reminder falls due after the moment it is set at.
CountThem(r) ==
    /\ state[r] = "unset" /\ now < DueAt[r]
    /\ Cardinality(Counted) < AtOnce
    /\ state' = [state EXCEPT ![r] = IF HasRoom THEN "counted" ELSE "turned_away"]
    /\ UNCHANGED <<now, claimed, stale, attempts, sender, faults, history>>

Add(r) ==
    /\ state[r] = "counted"
    /\ state' = [state EXCEPT ![r] = "waiting"]
    /\ UNCHANGED <<now, claimed, stale, attempts, sender, faults, history>>

\* The insert or its commit raised: the command is answered with an error.
AddFails(r) ==
    /\ state[r] = "counted"
    /\ Fault
    /\ state' = [state EXCEPT ![r] = "turned_away"]
    /\ UNCHANGED <<now, claimed, stale, attempts, sender, history>>

(***************************************************************************)
(* The clock.                                                              *)
(***************************************************************************)

Tick ==
    /\ now < MaxTime
    /\ now' = now + 1
    /\ UNCHANGED <<queue, sender, faults, history>>

Ages(r) ==
    /\ state[r] = "waiting" /\ claimed[r] /\ ~stale[r]
    /\ Prompt => \A s \in Senders : hand[s] # r
    /\ stale' = [stale EXCEPT ![r] = TRUE]
    /\ UNCHANGED <<now, state, claimed, attempts, sender, faults, history>>

(***************************************************************************)
(* The sender: claim_next(), a post, and what is made of its outcome.      *)
(***************************************************************************)

\* Mutant: a claim is not looked at.
EligibleThoughClaimed == {r \in Waiting : DueAt[r] <= now}

\* Mutant: what a sender died with is never taken over.
EligibleUnclaimed == {r \in Waiting : DueAt[r] <= now /\ ~claimed[r]}

Eligible == {r \in Waiting : DueAt[r] <= now /\ (~claimed[r] \/ stale[r])}

\* order_by(due_at, id)
Before(r, q) == DueAt[r] < DueAt[q] \/ (DueAt[r] = DueAt[q] /\ r <= q)

ClaimNext(s) ==
    /\ pc[s] = "idle"
    /\ \E r \in Eligible :
         /\ \A q \in Eligible : Before(r, q)
         /\ claimed' = [claimed EXCEPT ![r] = TRUE]
         /\ stale'   = [stale EXCEPT ![r] = FALSE]
         /\ hand'    = [hand EXCEPT ![s] = r]
    /\ pc' = [pc EXCEPT ![s] = "posting"]
    /\ UNCHANGED <<now, state, attempts, faults, history>>

GoesOut(s) == sent' = [sent EXCEPT ![hand[s]] = @ + 1]

Post(s) ==
    /\ pc[s] = "posting"
    /\ GoesOut(s)
    /\ pc' = [pc EXCEPT ![s] = "finishing"]
    /\ UNCHANGED <<now, queue, hand, faults, refusals, denied>>

\* PermanentError: there is no such channel, or it is closed to the bot.
PostDenied(s) ==
    /\ pc[s] = "posting"
    /\ Fault
    /\ denied' = denied \cup {hand[s]}
    /\ pc' = [pc EXCEPT ![s] = "finishing"]
    /\ UNCHANGED <<now, queue, hand, sent, refusals>>

\* Any other ShannonError; the answer may have been lost and not the post.
PostRefused(s) ==
    /\ pc[s] = "posting"
    /\ Fault
    /\ GoesOut(s) \/ UNCHANGED sent
    /\ refusals' = [refusals EXCEPT ![hand[s]] = @ + 1]
    /\ pc' = [pc EXCEPT ![s] = "counting"]
    /\ UNCHANGED <<now, queue, hand, denied>>

\* Mutant: a sender between two reminders still has the last one in hand.
RestFullHanded(s) == pc' = [pc EXCEPT ![s] = "idle"] /\ UNCHANGED hand

Rest(s) ==
    /\ pc'   = [pc EXCEPT ![s] = "idle"]
    /\ hand' = [hand EXCEPT ![s] = NULL]

\* Mutant: the limit is compared with one attempt too many.
OutOfAttemptsEarly(r) == attempts[r] + 2 >= MostAttempts

OutOfAttempts(r) == attempts[r] + 1 >= MostAttempts

\* note_failure() and _refused(); a reminder that has gone counts nothing.
Count(s) ==
    LET r == hand[s] IN
    /\ pc[s] = "counting"
    /\ IF state[r] = "waiting"
       THEN /\ attempts' = [attempts EXCEPT ![r] = @ + 1]
            /\ IF OutOfAttempts(r)
               THEN pc' = [pc EXCEPT ![s] = "finishing"] /\ UNCHANGED hand
               ELSE Rest(s)
       ELSE Rest(s) /\ UNCHANGED attempts
    /\ UNCHANGED <<now, state, claimed, stale, faults, history>>

\* finish(), whoever holds the claim by now.
Finish(s) ==
    /\ pc[s] = "finishing"
    /\ state'   = [state EXCEPT ![hand[s]] = "gone"]
    /\ claimed' = [claimed EXCEPT ![hand[s]] = FALSE]
    /\ stale'   = [stale EXCEPT ![hand[s]] = FALSE]
    /\ Rest(s)
    /\ UNCHANGED <<now, attempts, faults, history>>

\* The process died, or something raised that the pass does not catch.
Die(s) ==
    /\ pc[s] # "idle"
    /\ Fault
    /\ Rest(s)
    /\ UNCHANGED <<now, queue, history>>

Command == \E r \in Ids : CountThem(r) \/ Add(r) \/ AddFails(r)

Step(s) == ClaimNext(s) \/ Post(s) \/ Count(s) \/ Finish(s)

Trouble(s) == PostDenied(s) \/ PostRefused(s) \/ Die(s)

Next ==
    \/ Command \/ Tick \/ \E r \in Ids : Ages(r)
    \/ \E s \in Senders : Step(s) \/ Trouble(s)

Spec == Init /\ [][Next]_vars

\* The clock runs and every sender keeps ticking; nothing is asked of people.
Fairness ==
    /\ WF_vars(Tick)
    /\ \A r \in Ids : WF_vars(Ages(r))
    /\ \A s \in Senders : WF_vars(Step(s))

FairSpec == Spec /\ Fairness

(***************************************************************************)
(* Properties.                                                             *)
(***************************************************************************)

\* Every variable has its type, only a waiting reminder is claimed, and a
\* sender at work has a reminder that fell due (ReminderSender, ReminderStore).
TypeOK ==
    /\ now \in 0 .. MaxTime
    /\ state    \in [Ids -> States]
    /\ claimed  \in [Ids -> BOOLEAN]
    /\ stale    \in [Ids -> BOOLEAN]
    /\ attempts \in [Ids -> Nat]
    /\ pc       \in [Senders -> PCs]
    /\ hand     \in [Senders -> Ids \cup {NULL}]
    /\ faults \in Nat
    /\ sent     \in [Ids -> Nat]
    /\ refusals \in [Ids -> Nat]
    /\ denied \subseteq Ids
    /\ \A r \in Ids : /\ stale[r] => claimed[r]
                      /\ claimed[r] => state[r] = "waiting"
    /\ \A s \in Senders : pc[s] # "idle" <=> hand[s] # NULL
    /\ \A s \in Senders : pc[s] # "idle" => state[hand[s]] \in {"waiting", "gone"}

\* "A send still in flight is never taken over": no two senders have one
\* reminder in hand, in whatever order claims, deaths and refusals come
\* (RETRY_AFTER, claim_next).
NeverTakenOver ==
    \A s, t \in Senders : s # t /\ hand[s] = hand[t] => hand[s] = NULL

\* Somebody is rung once, and once more for each refusal whose post went out or
\* death between the post and the delete (_send, _finish).
RungOnce == \A r \in Ids : sent[r] <= 1 + faults

\* A reminder is forgotten because it went out, because Discord refused it for
\* good, or after MOST_ATTEMPTS refusals of its own, overlapping senders
\* included (_send, _refused, finish).
GoneForAReason ==
    \A r \in Ids : state[r] = "gone" =>
        sent[r] > 0 \/ r \in denied \/ refusals[r] >= MostAttempts

\* The cap is "a soft ceiling rather than a hard one": it is passed by no more
\* than the commands that found room at the same moment, less one (add).
CapIsNearlyKept == Cardinality(Waiting) <= MostWaiting + AtOnce - 1

\* A reminder written down is settled in the end, whatever its sender met with.
EventuallyGone == \A r \in Ids : (state[r] = "waiting") ~> (state[r] = "gone")
=============================================================================
