---------------------------- MODULE Transcripts ----------------------------
(***************************************************************************)
(* Publishing what is said in a logged thread as comments on its item.     *)
(*                                                                         *)
(*   services/transcripts/flush.py, services/transcripts/log.py,           *)
(*   db/stores/conversations.py, db/stores/logged_messages.py              *)
(*                                                                         *)
(* One conversation: its row (the claim on the batch being published) and  *)
(* the messages waiting in logged_messages, named by their ids.  An id is  *)
(* drawn when the insert runs and the row is seen when its transaction     *)
(* commits, so rows may appear out of the order of their ids.  Flushers    *)
(* are the tasks of the processes running at once.  should_flush is kept   *)
(* as its answer, ripe; the age of a claim as stale.                       *)
(***************************************************************************)
EXTENDS Naturals, FiniteSets

CONSTANTS
    MaxMessages,  \* bound: messages said
    Flushers,     \* flushers, one a process
    Claims,       \* flush ids, standing for uuids
    MaxAttempts,  \* MOST_ATTEMPTS
    MaxFaults,    \* bound: deaths, refused comments and deleted messages
    Prompt,       \* TRUE: a publish ends well before its claim is old
    NULL

Messages == 1 .. MaxMessages

ASSUME TranscriptAssumption ==
    /\ MaxMessages \in Nat /\ MaxAttempts \in Nat \ {0}
    /\ MaxFaults \in Nat /\ Prompt \in BOOLEAN
    /\ NULL \notin Claims

VARIABLES
    said,       \* the last id drawn
    unseen,     \* ids drawn whose transaction has not committed
    waiting,    \* committed rows of logged_messages
    ripe,       \* what is waiting is worth a comment
    stopped,    \* stopped_at is set
    present,    \* the thread is still an item's
    claim,      \* flush_id
    through,    \* flush_through_id
    stale,      \* flush_started_at is older than FLUSH_RETRY_AFTER
    failed,     \* failed_flushes
    pc,         \* pc[f]: where the flusher is
    token,      \* token[f]: the flush id it read, then the one it wrote
    upto,       \* upto[f]: the batch it is about is the rows up to here
    lines,      \* lines[f]: the rows it read to publish
    why,        \* why[f]: why it drops the batch
    faults,     \* how many deaths and refused comments there were
    published,  \* history: comments each message has gone out in
    forgotten,  \* history: rows deleted because their message was
    dropped,    \* history: rows given up on, or without an item
    tries,      \* history: failures of the batch claimed last
    missed,     \* history: rows committed into a batch that was already read
    hollow      \* history: a claim was taken on rows another had dropped

capture  == <<said, unseen>>
thread   == <<ripe, stopped, present>>
held     == <<claim, through, stale>>
memory   == <<token, upto, lines, why>>
outcome  == <<published, forgotten, dropped>>
late     == <<missed, hollow>>
vars     == <<capture, waiting, thread, held, failed, pc, memory, faults,
              outcome, tries, late>>

PCs == {"idle", "looking", "taking", "seizing", "locating", "reading",
        "publishing", "counting", "settling"}
Working == {"locating", "reading", "publishing", "counting", "settling"}

Init ==
    /\ said = 0 /\ unseen = {} /\ waiting = {}
    /\ ripe = FALSE /\ stopped = FALSE /\ present = TRUE
    /\ claim = NULL /\ through = 0 /\ stale = FALSE /\ failed = 0
    /\ pc    = [f \in Flushers |-> "idle"]
    /\ token = [f \in Flushers |-> NULL]
    /\ upto  = [f \in Flushers |-> 0]
    /\ lines = [f \in Flushers |-> {}]
    /\ why   = [f \in Flushers |-> "published"]
    /\ faults = 0
    /\ published = [m \in Messages |-> 0]
    /\ forgotten = {} /\ dropped = {} /\ tries = 0
    /\ missed = {} /\ hollow = FALSE

Goto(f, where) == pc' = [pc EXCEPT ![f] = where]
MayFail == faults + Cardinality(forgotten) < MaxFaults
Fault == MayFail /\ faults' = faults + 1

(***************************************************************************)
(* The thread.                                                             *)
(***************************************************************************)

\* capture() and add(): the insert draws an id in an open conversation.
Say ==
    /\ ~stopped /\ said < MaxMessages
    /\ said' = said + 1
    /\ unseen' = unseen \cup {said + 1}
    /\ UNCHANGED <<waiting, thread, held, failed, pc, memory, faults, outcome, tries,
                   late>>

\* A flusher has read its batch, and will delete all there is up to m or beyond.
ReadWithout(m) ==
    \E f \in Flushers : pc[f] \in {"publishing", "settling"} /\ m <= upto[f]

\* The transaction of the insert commits, in whatever order.
Commit(m) ==
    /\ m \in unseen
    /\ unseen' = unseen \ {m}
    /\ waiting' = waiting \cup {m}
    /\ missed' = IF ReadWithout(m) THEN missed \cup {m} ELSE missed
    /\ ripe' = stopped
    /\ UNCHANGED <<said, stopped, present, held, failed, pc, memory, faults, outcome,
                   tries, hollow>>

\* A message deleted in Discord before it went out.
Forget(m) ==
    /\ m \in waiting
    /\ MayFail
    /\ waiting' = waiting \ {m}
    /\ forgotten' = forgotten \cup {m}
    /\ UNCHANGED <<capture, thread, held, failed, pc, memory, faults, published,
                   dropped, tries, late>>

Stop ==
    /\ ~stopped
    /\ stopped' = TRUE /\ ripe' = TRUE
    /\ UNCHANGED <<capture, waiting, present, held, failed, pc, memory, faults,
                   outcome, tries, late>>

\* The thread is deleted: its item lets go of it and logging ends.
ThreadGoes ==
    /\ present
    /\ present' = FALSE /\ stopped' = TRUE /\ ripe' = TRUE
    /\ UNCHANGED <<capture, waiting, held, failed, pc, memory, faults, outcome,
                   tries, late>>

\* The quiet gap or the longest wait has passed, or there is enough of it.
Ripens ==
    /\ waiting # {} /\ ~ripe
    /\ ripe' = TRUE
    /\ UNCHANGED <<capture, waiting, stopped, present, held, failed, pc, memory,
                   faults, outcome, tries, late>>

Ages ==
    /\ claim # NULL /\ ~stale
    /\ Prompt => \A f \in Flushers : pc[f] \in Working => token[f] # claim
    /\ stale' = TRUE
    /\ UNCHANGED <<capture, waiting, thread, claim, through, failed, pc, memory,
                   faults, outcome, tries, late>>

(***************************************************************************)
(* flush_once(): sweep, look, take the batch or take it over.              *)
(***************************************************************************)

\* release_empty_claims(): the failures behind the claim are left standing.
Sweep(f) ==
    /\ pc[f] = "idle"
    /\ IF claim # NULL /\ waiting = {}
       THEN claim' = NULL /\ through' = 0 /\ stale' = FALSE
       ELSE UNCHANGED held
    /\ Goto(f, "looking")
    /\ UNCHANGED <<capture, waiting, thread, failed, memory, faults, outcome, tries,
                   late>>

\* pending(), and what _one() makes of the batch it returns.
Look(f) ==
    /\ pc[f] = "looking"
    /\ \/ /\ claim = NULL /\ ripe
          /\ \E newest \in waiting :
               /\ \A m \in waiting : m <= newest
               /\ upto' = [upto EXCEPT ![f] = newest]
          /\ Goto(f, "taking")
          /\ UNCHANGED token
       \/ /\ waiting # {} /\ claim # NULL /\ stale
          /\ upto'  = [upto EXCEPT ![f] = through]
          /\ token' = [token EXCEPT ![f] = claim]
          /\ Goto(f, "seizing")
       \/ /\ waiting = {} \/ (claim = NULL /\ ~ripe) \/ (claim # NULL /\ ~stale)
          /\ Goto(f, "idle")
          /\ UNCHANGED <<upto, token>>
    /\ UNCHANGED <<capture, waiting, thread, held, failed, lines, why, faults,
                   outcome, tries, late>>

\* What a flusher has in hand once it is through with a conversation.
Through(f) ==
    /\ Goto(f, "idle")
    /\ token' = [token EXCEPT ![f] = NULL]
    /\ upto'  = [upto EXCEPT ![f] = 0]
    /\ lines' = [lines EXCEPT ![f] = {}]
    /\ why'   = [why EXCEPT ![f] = "published"]

\* A uuid nobody has seen.
Fresh == Claims \ ({claim} \cup {token[f] : f \in Flushers})

\* The rows of the batch a flusher is about that are there to be read.
Listed(f) == {m \in waiting : m <= upto[f]}

\* Mutant: the claim is written whether or not another holds it.
MayTakeAny(f) == TRUE

\* claim(): only where nobody holds the batch.
MayTake(f) == claim = NULL

Take(f) ==
    /\ pc[f] = "taking"
    /\ IF MayTake(f)
       THEN /\ \E k \in Fresh : claim' = k /\ token' = [token EXCEPT ![f] = k]
            /\ through' = upto[f] /\ stale' = FALSE /\ tries' = 0
            /\ hollow' = (hollow \/ Listed(f) = {})
            /\ Goto(f, "locating")
            /\ UNCHANGED <<upto, lines, why>>
       ELSE Through(f) /\ UNCHANGED <<held, tries, hollow>>
    /\ UNCHANGED <<capture, waiting, thread, failed, faults, outcome, missed>>

\* seize(): only the claim that was read, and the batch it was for.
Seize(f) ==
    /\ pc[f] = "seizing"
    /\ IF claim = token[f]
       THEN /\ \E k \in Fresh : claim' = k /\ token' = [token EXCEPT ![f] = k]
            /\ stale' = FALSE
            /\ Goto(f, "locating")
            /\ UNCHANGED <<upto, lines, why, through>>
       ELSE Through(f) /\ UNCHANGED held
    /\ UNCHANGED <<capture, waiting, thread, failed, faults, outcome, tries, late>>

(***************************************************************************)
(* _publish(): find the item, read the batch, say it, drop it.             *)
(***************************************************************************)

\* A batch without an item can never be sent.
Locate(f) ==
    /\ pc[f] = "locating"
    /\ IF present
       THEN Goto(f, "reading") /\ UNCHANGED why
       ELSE Goto(f, "settling") /\ why' = [why EXCEPT ![f] = "orphan"]
    /\ UNCHANGED <<capture, waiting, thread, held, failed, token, upto, lines,
                   faults, outcome, tries, late>>

\* _lines(): the rows of the claimed batch that are still there.
Read(f) ==
    /\ pc[f] = "reading"
    /\ lines' = [lines EXCEPT ![f] = Listed(f)]
    /\ Goto(f, IF Listed(f) = {} THEN "settling" ELSE "publishing")
    /\ UNCHANGED <<capture, waiting, thread, held, failed, token, upto, why, faults,
                   outcome, tries, late>>

GoesOut(f) == published' = [m \in Messages |-> published[m] + (IF m \in lines[f] THEN 1 ELSE 0)]

Publish(f) ==
    /\ pc[f] = "publishing"
    /\ GoesOut(f)
    /\ Goto(f, "settling")
    /\ UNCHANGED <<capture, waiting, thread, held, failed, memory, faults, forgotten,
                   dropped, tries, late>>

\* GitHub refused, or the answer was lost on the way.
PublishFails(f) ==
    /\ pc[f] = "publishing"
    /\ Fault
    /\ GoesOut(f) \/ UNCHANGED published
    /\ Goto(f, "counting")
    /\ UNCHANGED <<capture, waiting, thread, held, failed, memory, forgotten,
                   dropped, tries, late>>

\* Mutant: the limit is reached one failure early.
GivesUpEarly == failed + 2 >= MaxAttempts

GivesUp == failed + 1 >= MaxAttempts

\* note_failure(): the claim is kept, and the retry waits for it to be old.
Count(f) ==
    /\ pc[f] = "counting"
    /\ failed' = failed + 1
    /\ tries'  = tries + 1
    /\ IF GivesUp
       THEN Goto(f, "settling") /\ why' = [why EXCEPT ![f] = "gave_up"]
                                /\ UNCHANGED <<token, upto, lines>>
       ELSE Through(f)
    /\ UNCHANGED <<capture, waiting, thread, held, faults, outcome, late>>

\* Mutant: everything waiting is dropped, not only the batch.
EntireBatch(f) == waiting

\* Mutant: the claim is let go and its batch stays written beside it.
KeepBatch == claim' = NULL /\ stale' = FALSE /\ UNCHANGED through

\* delete_through()
Batch(f) == {m \in waiting : m <= upto[f]}

\* Mutant: the batch is dropped and its claim kept.
KeepClaim == UNCHANGED held

\* release(): whoever holds the claim by now.
ReleaseClaim == claim' = NULL /\ through' = 0 /\ stale' = FALSE

\* _done(), one transaction.
Settle(f) ==
    /\ pc[f] = "settling"
    /\ waiting' = waiting \ Batch(f)
    /\ dropped' = dropped \cup (IF why[f] = "published" THEN {} ELSE Batch(f))
    /\ ReleaseClaim
    /\ failed' = 0
    /\ ripe'   = stopped
    /\ Through(f)
    /\ UNCHANGED <<capture, stopped, present, faults, published, forgotten, tries,
                   late>>

\* The process dies, or a database call raises and the pass is given up.
Die(f) ==
    /\ pc[f] # "idle"
    /\ Fault
    /\ Through(f)
    /\ UNCHANGED <<capture, waiting, thread, held, failed, outcome, tries, late>>

Environment ==
    \/ Say \/ Stop \/ ThreadGoes \/ Ripens \/ Ages
    \/ \E m \in Messages : Commit(m) \/ Forget(m)

Step(f) == \/ Sweep(f) \/ Look(f) \/ Take(f) \/ Seize(f) \/ Locate(f) \/ Read(f)
           \/ Publish(f) \/ Count(f) \/ Settle(f)

Next == Environment \/ \E f \in Flushers : Step(f) \/ PublishFails(f) \/ Die(f)

Spec == Init /\ [][Next]_vars

\* Every flusher ticks on, transactions commit and clocks advance.
Fairness ==
    /\ \A f \in Flushers : WF_vars(Step(f))
    /\ WF_vars(Ripens) /\ WF_vars(Ages)
    /\ \A m \in Messages : WF_vars(Commit(m))

FairSpec == Spec /\ Fairness

(***************************************************************************)
(* Properties.                                                             *)
(***************************************************************************)

\* Every variable has its type, a claim says what it is for, and a flusher at
\* work has a claim of its own in mind (TranscriptFlusher, ConversationStore).
TypeOK ==
    /\ said \in 0 .. MaxMessages /\ unseen \subseteq 1 .. said
    /\ waiting \subseteq 1 .. said
    /\ {ripe, stopped, present, stale} \subseteq BOOLEAN
    /\ claim \in Claims \cup {NULL} /\ through \in 0 .. MaxMessages
    /\ failed \in Nat /\ faults \in Nat /\ tries \in Nat
    /\ pc    \in [Flushers -> PCs]
    /\ token \in [Flushers -> Claims \cup {NULL}]
    /\ upto  \in [Flushers -> 0 .. MaxMessages]
    /\ lines \in [Flushers -> SUBSET Messages]
    /\ why   \in [Flushers -> {"published", "orphan", "gave_up"}]
    /\ published \in [Messages -> Nat]
    /\ {forgotten, dropped, missed} \subseteq SUBSET Messages /\ hollow \in BOOLEAN
    /\ claim = NULL <=> through = 0
    /\ \A f, g \in Flushers :
         /\ pc[f] \in Working => token[f] # NULL /\ upto[f] # 0
         /\ f # g /\ pc[f] \in Working /\ pc[g] \in Working => token[f] # token[g]

\* A row that is gone went out, was deleted by its author, was dropped for a reason
\* somebody was told, or became visible only after the batch whose bound covers it
\* had been read: ids are drawn before they are seen, and delete_through, said to
\* drop "the batch that has been published, and nothing that arrived after it",
\* deletes by the bound.
NothingLost ==
    \A m \in 1 .. said : \/ m \in unseen \cup waiting
                         \/ published[m] > 0
                         \/ m \in forgotten \cup dropped \cup missed

\* A sweep lets go of a claim whose rows are gone though its holder is at work.
\* Rows go so when their message is deleted, and when a flusher takes a batch it
\* read about before another published and dropped it.
ClaimsHaveRows == forgotten = {} /\ ~hollow

\* A message goes out twice only after a death or a refused comment, each of which
\* costs one comment at most; once a claim was left without rows, every flusher may
\* have read the message before one of them drops it.  _done: "a process that dies
\* between the comment landing on GitHub and this running ... publishes twice".
DuplicateNeedsAFault ==
    \A m \in Messages :
        published[m] <= faults + IF ClaimsHaveRows THEN 1 ELSE Cardinality(Flushers)

\* As the docstrings have it: each comment beyond the first is a fault's.
OncePerFault == \A m \in Messages : published[m] <= faults + 1

\* A batch is given up on after MOST_ATTEMPTS failures of that batch and not
\* before: "how many failures in a row before a batch is given up on".
OwnFailuresOnly ==
    \A f \in Flushers : pc[f] = "settling" /\ why[f] = "gave_up" => tries >= MaxAttempts

\* The same, as long as no claim was left without rows (_failed, release).
GivesUpOnItsOwnFailures == ClaimsHaveRows => OwnFailuresOnly

\* What was said goes out, or is dropped or deleted, whoever dies holding the
\* claim on it (run_forever, _take_over).
EventuallyOut == \A m \in Messages : (m \in waiting) ~> (m \notin waiting)
=============================================================================
