----------------------------- MODULE MCSending -----------------------------
(***************************************************************************)
(* What is kept until it is sent or handled: batches of a conversation,    *)
(* reminders, and deliveries whose leases may be overrun.  They share      *)
(* nothing but the database server: a behaviour looks at one of them, and  *)
(* the others stay as they were at the start.                              *)
(***************************************************************************)
EXTENDS MCTranscripts

CONSTANTS
    DueAt, MaxTime, MostWaiting, AtOnce, MostAttempts,
    Rows, BatchSize, Timely, MostSpills

VARIABLES
    looksAt,
    now, state, claimed, old, attempts, where, hand, mishaps, sent, refusals, denied,
    status, tried, due, lapsed, aged, lease, at, stopping, batch, current, seen, result,
    spills, ran, failures

remindersAside ==
    <<now, state, claimed, old, attempts, where, hand, mishaps, sent, refusals, denied>>
queueAside ==
    <<status, tried, due, lapsed, aged, lease, at, stopping, batch, current, seen, result,
      spills, ran, failures>>

\* The processes are flushers, senders or workers, and the reminders have the messages' ids.
Memos == INSTANCE Reminders WITH
    Senders <- Flushers, Ids <- Messages, stale <- old, pc <- where, faults <- mishaps
Queue == INSTANCE DeliveryQueue WITH
    Workers <- Flushers, MaxFaults <- MostSpills, attempts <- tried, pc <- at, faults <- spills

ASSUME SendingAssumption == Memos!ReminderAssumption /\ Queue!QueueAssumption

EndsInit ==
    /\ looksAt \in {"conversation", "reminders", "deliveries"}
    /\ Init /\ Memos!Init /\ Queue!Init

Publishing == looksAt = "conversation"
Reminding  == looksAt = "reminders"
Delivering == looksAt = "deliveries"

endsVars == <<looksAt, vars, remindersAside, queueAside>>

EndsNext ==
    /\ UNCHANGED looksAt
    /\ \/ Publishing /\ Next /\ UNCHANGED <<remindersAside, queueAside>>
       \/ Reminding /\ Memos!Next /\ UNCHANGED <<vars, queueAside>>
       \/ Delivering /\ Queue!Next /\ UNCHANGED <<vars, remindersAside>>

\* As fair as each of them is alone: no behaviour takes the steps of two of them.
EndsSpec ==
    /\ EndsInit /\ [][EndsNext]_endsVars
    /\ \A f \in Flushers :
           /\ WF_vars(Publishing /\ Step(f))
           /\ WF_remindersAside(Reminding /\ Memos!Step(f))
           /\ WF_queueAside(Delivering /\ Queue!Step(f))
    /\ \A m \in Messages :
           /\ WF_vars(Publishing /\ Commit(m))
           /\ WF_remindersAside(Reminding /\ Memos!Ages(m))
    /\ \A n \in Rows :
           /\ WF_queueAside(Delivering /\ Queue!BackoffEnds(n))
           /\ WF_queueAside(Delivering /\ Queue!LeaseLapses(n))
    /\ WF_vars(Publishing /\ Ripens) /\ WF_vars(Publishing /\ Ages)
    /\ WF_remindersAside(Reminding /\ Memos!Tick)

TwoTogether == <<1, 1>>

\* What is sent goes out once, and once more for each fault: a comment, and a reminder.
NothingTwice == DuplicateNeedsAFault /\ Memos!RungOnce

\* A reminder written down is settled in the end.
EventuallyGone == Memos!EventuallyGone

\* A delivery accepted is settled in the end, leases overrun or not.
EventuallySettled == Queue!EventuallySettled

\* A delivery settled is touched again only by a redelivery, whoever still has its row.
SettledStaysSettled == Queue!SettledStaysSettled
=============================================================================
