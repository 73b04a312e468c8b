--------------------------- MODULE DeliveryQueue ---------------------------
(***************************************************************************)
(* The queue of GitHub deliveries: the table webhook_events and the        *)
(* replicas of the worker that drains it.                                  *)
(*                                                                         *)
(*   services/delivery/queue.py, services/delivery/worker.py,              *)
(*   db/stores/webhook_events.py                                           *)
(*                                                                         *)
(* A row is named by its id, drawn from a sequence, so ids order arrivals. *)
(* Two requests in flight may commit in either order, so Enqueue may make  *)
(* a smaller id visible after a larger one.  Deadlines are kept as what a  *)
(* query reads of them: due (next_attempt_at has passed or is null),       *)
(* lapsed (locked_until has passed), aged (processed_at is older than the  *)
(* retention); the clock is the database's, one for every replica.         *)
(***************************************************************************)
EXTENDS Naturals, FiniteSets

CONSTANTS
    Rows,         \* ids a delivery may be given
    Workers,      \* worker replicas
    BatchSize,    \* deliveries one lease takes at most
    MaxAttempts,  \* failed runs before a delivery is given up on
    MaxFaults,    \* bound: stops, crashes, failed writes and redeliveries
    Timely,       \* TRUE: no row comes up for lease while a worker has it
    NULL

ASSUME QueueAssumption ==
    /\ Rows \subseteq Nat
    /\ BatchSize \in Nat \ {0}
    /\ MaxAttempts \in Nat \ {0}
    /\ MaxFaults \in Nat
    /\ Timely \in BOOLEAN
    /\ NULL \notin Rows

Live     == {"pending", "processing"}
Settled  == {"processed", "ignored"}
Terminal == Settled \cup {"failed"}
Status   == Live \cup Terminal \cup {"absent", "pruned"}
Result   == Settled \cup {"permanent", "transient"}

VARIABLES
    status,    \* status[n]: "absent" before the row commits, "pruned" after
    attempts,  \* attempts[n]: failed runs the table has counted
    due,       \* due[n]: a pending row may be leased
    lapsed,    \* lapsed[n]: the lease of a processing row is over
    aged,      \* aged[n]: a terminal row is past the retention
    lease,     \* lease[n]: the rows whose locked_until was set with n's
    pc,        \* pc[w]: where the worker is
    stopping,  \* stopping[w]: stop() was called
    batch,     \* batch[w]: leased rows the worker is not done with
    current,   \* current[w]: the row being handled
    seen,      \* seen[w]: attempts as the lease returned them
    result,    \* result[w]: what dispatching current[w] came to
    faults,    \* how many of those there were
    ran,       \* history: results of the runs of n since it was accepted
    failures   \* history: transient failures of n since it was accepted

table   == <<status, attempts, due, lapsed, aged, lease>>
worker  == <<pc, stopping, batch, current, seen, result>>
history == <<ran, failures>>
vars    == <<table, worker, faults, history>>

PCs == {"down", "idle", "ready", "dispatching", "settling", "handing_back",
        "cancelled"}

Init ==
    /\ status   = [n \in Rows |-> "absent"]
    /\ attempts = [n \in Rows |-> 0]
    /\ due      = [n \in Rows |-> TRUE]
    /\ lapsed   = [n \in Rows |-> FALSE]
    /\ aged     = [n \in Rows |-> FALSE]
    /\ lease    = [n \in Rows |-> {}]
    /\ pc       = [w \in Workers |-> "idle"]
    /\ stopping = [w \in Workers |-> FALSE]
    /\ batch    = [w \in Workers |-> {}]
    /\ current  = [w \in Workers |-> NULL]
    /\ seen     = [w \in Workers |-> [n \in Rows |-> 0]]
    /\ result   = [w \in Workers |-> NULL]
    /\ faults   = 0
    /\ ran      = [n \in Rows |-> {}]
    /\ failures = [n \in Rows |-> 0]

Fault == faults < MaxFaults /\ faults' = faults + 1

(***************************************************************************)
(* The endpoint.  enqueue() inserts, or on a conflict revives: only a row  *)
(* given up on moves, any other is a duplicate and nothing is written.     *)
(***************************************************************************)

Enqueue(n) ==
    /\ status[n] = "absent"
    /\ status' = [status EXCEPT ![n] = "pending"]
    /\ UNCHANGED <<attempts, due, lapsed, aged, lease, worker, faults, history>>

Free(n) == \A w \in Workers : n \notin batch[w]

\* GitHub's Redeliver button.  processed_at is left as it was.
Revive(n) ==
    /\ status[n] = "failed"
    /\ Timely => Free(n)
    /\ Fault
    /\ status'   = [status EXCEPT ![n] = "pending"]
    /\ attempts' = [attempts EXCEPT ![n] = 0]
    /\ due'      = [due EXCEPT ![n] = TRUE]
    /\ lapsed'   = [lapsed EXCEPT ![n] = FALSE]
    /\ lease'    = [lease EXCEPT ![n] = {}]
    /\ ran'      = [ran EXCEPT ![n] = {}]
    /\ failures' = [failures EXCEPT ![n] = 0]
    /\ UNCHANGED <<aged, worker>>

(***************************************************************************)
(* The database clock.                                                     *)
(***************************************************************************)

BackoffEnds(n) ==
    /\ status[n] = "pending" /\ ~due[n]
    /\ Timely => Free(n)
    /\ due' = [due EXCEPT ![n] = TRUE]
    /\ UNCHANGED <<status, attempts, lapsed, aged, lease, worker, faults, history>>

\* Rows leased in one statement share one deadline.
LeaseMates(n) == {m \in Rows : status[m] = "processing" /\ lease[m] = lease[n]}

LeaseLapses(n) ==
    /\ status[n] = "processing" /\ ~lapsed[n]
    /\ Timely => \A m \in LeaseMates(n) : Free(m)
    /\ lapsed' = [m \in Rows |-> lapsed[m] \/ m \in LeaseMates(n)]
    /\ UNCHANGED <<status, attempts, due, aged, lease, worker, faults, history>>

Ages(n) ==
    /\ status[n] \in Terminal /\ ~aged[n]
    /\ aged' = [aged EXCEPT ![n] = TRUE]
    /\ UNCHANGED <<status, attempts, due, lapsed, lease, worker, faults, history>>

(***************************************************************************)
(* lease() and the writes of an outcome.  Each is guarded on the row still *)
(* being processing, and on nothing that says whose lease it is.           *)
(***************************************************************************)

\* Mutant: the deadline of a lease is not looked at.
EligibleThoughLeased == {n \in Rows : \/ status[n] = "pending" /\ due[n]
                                      \/ status[n] = "processing"}

\* Mutant: a row left processing by a dead worker is never taken back.
EligibleIfPending == {n \in Rows : status[n] = "pending" /\ due[n]}

Eligible == {n \in Rows : \/ status[n] = "pending" /\ due[n]
                          \/ status[n] = "processing" /\ lapsed[n]}

\* order_by(id).limit(limit)
Oldest(S) == {n \in S : Cardinality({m \in S : m < n}) < BatchSize}

Lease(w) ==
    LET taken == Oldest(Eligible) IN
    /\ pc[w] = "idle" /\ ~stopping[w]
    /\ taken # {}
    /\ status' = [n \in Rows |-> IF n \in taken THEN "processing" ELSE status[n]]
    /\ lapsed' = [n \in Rows |-> lapsed[n] /\ n \notin taken]
    /\ lease'  = [n \in Rows |-> IF n \in taken THEN taken ELSE lease[n]]
    /\ batch'  = [batch EXCEPT ![w] = taken]
    /\ seen'   = [seen EXCEPT ![w] = [n \in Rows |-> IF n \in taken THEN attempts[n] ELSE 0]]
    /\ pc'     = [pc EXCEPT ![w] = "ready"]
    /\ UNCHANGED <<attempts, due, aged, stopping, current, result, faults, history>>

\* Mutant: the update is not guarded on the row still being processing.
ReleaseAny(S) ==
    /\ status' = [n \in Rows |-> IF n \in S THEN "pending" ELSE status[n]]
    /\ lapsed' = [n \in Rows |-> lapsed[n] /\ n \notin S]
    /\ lease'  = [n \in Rows |-> IF n \in S THEN {} ELSE lease[n]]
    /\ UNCHANGED <<attempts, due, aged>>

\* Mutant: handing back counts as an attempt.
ReleaseCounted(S) ==
    LET back == {n \in S : status[n] = "processing"} IN
    /\ status'   = [n \in Rows |-> IF n \in back THEN "pending" ELSE status[n]]
    /\ attempts' = [n \in Rows |-> attempts[n] + (IF n \in back THEN 1 ELSE 0)]
    /\ lapsed'   = [n \in Rows |-> lapsed[n] /\ n \notin back]
    /\ lease'    = [n \in Rows |-> IF n \in back THEN {} ELSE lease[n]]
    /\ UNCHANGED <<due, aged>>

\* release(): no attempt is counted, next_attempt_at is left alone.
Release(S) ==
    LET back == {n \in S : status[n] = "processing"} IN
    /\ status' = [n \in Rows |-> IF n \in back THEN "pending" ELSE status[n]]
    /\ lapsed' = [n \in Rows |-> lapsed[n] /\ n \notin back]
    /\ lease'  = [n \in Rows |-> IF n \in back THEN {} ELSE lease[n]]
    /\ UNCHANGED <<attempts, due, aged>>

\* finish(), retry_later() and give_up() write these columns of a row.
WriteRow(n, st, counted, isDue) ==
    /\ status'   = [status EXCEPT ![n] = st]
    /\ attempts' = [attempts EXCEPT ![n] = @ + counted]
    /\ due'      = [due EXCEPT ![n] = isDue]
    /\ lapsed'   = [lapsed EXCEPT ![n] = FALSE]
    /\ aged'     = [aged EXCEPT ![n] = @ /\ st = "pending"]
    /\ lease'    = [lease EXCEPT ![n] = {}]

\* Mutant: the limit is compared with one attempt too many.
OutOfAttemptsEarly(w) == seen[w][current[w]] + 2 >= MaxAttempts

\* The count compared with the limit is the one the lease returned.
OutOfAttempts(w) == seen[w][current[w]] + 1 >= MaxAttempts

\* _handle() and _reschedule(): which write an outcome calls for.
WriteOutcome(w) ==
    LET n == current[w] IN
    IF status[n] # "processing" THEN UNCHANGED table
    ELSE \/ /\ result[w] \in Settled
            /\ WriteRow(n, result[w], 0, due[n])
         \/ /\ \/ result[w] = "permanent"
               \/ result[w] = "transient" /\ OutOfAttempts(w)
            /\ WriteRow(n, "failed", 1, due[n])
         \/ /\ result[w] = "transient" /\ ~OutOfAttempts(w)
            /\ WriteRow(n, "pending", 1, FALSE)

Prune ==
    LET old == {n \in Rows : status[n] \in Terminal /\ aged[n]} IN
    /\ old # {}
    /\ status' = [n \in Rows |-> IF n \in old THEN "pruned" ELSE status[n]]
    /\ UNCHANGED <<attempts, due, lapsed, aged, lease, worker, faults, history>>

(***************************************************************************)
(* run_once(): the batch, one delivery at a time, lowest id first.         *)
(***************************************************************************)

Begin(w) ==
    /\ pc[w] = "ready" /\ ~stopping[w]
    /\ \E n \in batch[w] : /\ \A m \in batch[w] : n <= m
                           /\ current' = [current EXCEPT ![w] = n]
    /\ pc'      = [pc EXCEPT ![w] = "dispatching"]
    /\ UNCHANGED <<table, stopping, batch, seen, result, faults, history>>

\* The handler returned, raised, or ran into the delivery timeout ("transient").
DispatchEnds(w, r) ==
    LET n == current[w] IN
    /\ pc[w] = "dispatching"
    /\ result'   = [result EXCEPT ![w] = r]
    /\ ran'      = [ran EXCEPT ![n] = @ \cup {r}]
    /\ failures' = [failures EXCEPT ![n] = @ + (IF r = "transient" THEN 1 ELSE 0)]
    /\ pc'       = [pc EXCEPT ![w] = "settling"]
    /\ UNCHANGED <<table, stopping, batch, current, seen, faults>>

Keep(w, rest) == [n \in Rows |-> IF n \in rest THEN seen[w][n] ELSE 0]

\* Mutant: the loop head is entered for a batch that is used up.
ProceedAnyway(w, rest) ==
    /\ batch'   = [batch EXCEPT ![w] = rest]
    /\ current' = [current EXCEPT ![w] = NULL]
    /\ result'  = [result EXCEPT ![w] = NULL]
    /\ pc'      = [pc EXCEPT ![w] = "ready"]
    /\ seen'    = [seen EXCEPT ![w] = Keep(w, rest)]
    /\ UNCHANGED stopping

\* Back to the loop with rest still to do.
Proceed(w, rest) ==
    /\ batch'   = [batch EXCEPT ![w] = rest]
    /\ current' = [current EXCEPT ![w] = NULL]
    /\ result'  = [result EXCEPT ![w] = NULL]
    /\ pc'      = [pc EXCEPT ![w] = IF rest = {} THEN "idle" ELSE "ready"]
    /\ seen'    = [seen EXCEPT ![w] = Keep(w, rest)]
    /\ UNCHANGED stopping

Record(w) ==
    /\ pc[w] = "settling"
    /\ WriteOutcome(w)
    /\ Proceed(w, batch[w] \ {current[w]})
    /\ UNCHANGED <<faults, history>>

\* The write raised; the connection may have gone before the commit or after.
RecordFails(w) ==
    /\ pc[w] = "settling"
    /\ Fault
    /\ WriteOutcome(w) \/ UNCHANGED table
    /\ pc' = [pc EXCEPT ![w] = "handing_back"]
    /\ UNCHANGED <<stopping, batch, current, seen, result, history>>

\* The rows a worker hands back: after a failed write this delivery and all
\* behind it, on a stop those not begun.
HandsBack(w) == \/ pc[w] = "handing_back"
                \/ pc[w] = "ready" /\ stopping[w]

HandBack(w) ==
    /\ HandsBack(w)
    /\ Release(batch[w])
    /\ Proceed(w, {})
    /\ UNCHANGED <<faults, history>>

\* release() raised: run_forever logs and goes round, the rows stay leased.
HandBackFails(w) ==
    /\ HandsBack(w)
    /\ Fault
    /\ Proceed(w, {})
    /\ UNCHANGED <<table, history>>

(***************************************************************************)
(* Stopping, cancelling, crashing, starting again.                         *)
(***************************************************************************)

Stop(w) ==
    /\ pc[w] # "down" /\ ~stopping[w]
    /\ Fault
    /\ stopping' = [stopping EXCEPT ![w] = TRUE]
    /\ UNCHANGED <<table, pc, batch, current, seen, result, history>>

Off(w) ==
    /\ pc'       = [pc EXCEPT ![w] = "down"]
    /\ batch'    = [batch EXCEPT ![w] = {}]
    /\ current'  = [current EXCEPT ![w] = NULL]
    /\ result'   = [result EXCEPT ![w] = NULL]
    /\ stopping' = [stopping EXCEPT ![w] = FALSE]
    /\ seen'     = [seen EXCEPT ![w] = Keep(w, {})]

\* The shutdown grace ran out with a delivery in hand.  If its write was on
\* the wire it may or may not have committed.
Cancel(w) ==
    /\ pc[w] \in {"dispatching", "settling"} /\ stopping[w]
    /\ \/ pc[w] = "settling" /\ WriteOutcome(w)
       \/ UNCHANGED table
    /\ batch'   = [batch EXCEPT ![w] = @ \ {current[w]}]
    /\ current' = [current EXCEPT ![w] = NULL]
    /\ result'  = [result EXCEPT ![w] = NULL]
    /\ pc'      = [pc EXCEPT ![w] = "cancelled"]
    /\ UNCHANGED <<stopping, seen, faults, history>>

\* The shielded release of the rows behind the cancelled one.
HandBackRest(w) ==
    /\ pc[w] = "cancelled"
    /\ Release(batch[w])
    /\ Off(w)
    /\ UNCHANGED <<faults, history>>

Exit(w) ==
    /\ pc[w] = "idle" /\ stopping[w]
    /\ Off(w)
    /\ UNCHANGED <<table, faults, history>>

\* The process dies, or its loop closes before a release is through.
Crash(w) ==
    /\ pc[w] # "down"
    /\ Fault
    /\ Off(w)
    /\ UNCHANGED <<table, history>>

Restart(w) ==
    /\ pc[w] = "down"
    /\ pc' = [pc EXCEPT ![w] = "idle"]
    /\ UNCHANGED <<table, stopping, batch, current, seen, result, faults, history>>

Environment ==
    \/ \E n \in Rows : Enqueue(n) \/ Revive(n) \/ BackoffEnds(n)
                       \/ LeaseLapses(n) \/ Ages(n)
    \/ Prune

Step(w) == \/ Lease(w) \/ Begin(w) \/ Record(w) \/ HandBack(w)
           \/ HandBackRest(w) \/ Exit(w) \/ Restart(w)
           \/ \E r \in Result : DispatchEnds(w, r)

Trouble(w) == RecordFails(w) \/ HandBackFails(w) \/ Stop(w) \/ Cancel(w) \/ Crash(w)

Next == Environment \/ \E w \in Workers : Step(w) \/ Trouble(w)

Spec == Init /\ [][Next]_vars

\* The event loop runs every worker on, the supervisor starts a process again,
\* every dispatch ends (its timeout sees to it), and clocks advance.  Nothing is
\* assumed of arrivals, redeliveries, ageing or faults.
Fairness ==
    /\ \A w \in Workers : WF_vars(Step(w))
    /\ \A n \in Rows : WF_vars(BackoffEnds(n)) /\ WF_vars(LeaseLapses(n))

FairSpec == Spec /\ Fairness

(***************************************************************************)
(* Properties.                                                             *)
(***************************************************************************)

\* Every variable has its type, and a worker's place in the loop fits what it
\* holds (run_once, _handle).
TypeOK ==
    /\ status   \in [Rows -> Status]
    /\ attempts \in [Rows -> Nat]
    /\ due      \in [Rows -> BOOLEAN]
    /\ lapsed   \in [Rows -> BOOLEAN]
    /\ aged     \in [Rows -> BOOLEAN]
    /\ lease    \in [Rows -> SUBSET Rows]
    /\ pc       \in [Workers -> PCs]
    /\ stopping \in [Workers -> BOOLEAN]
    /\ batch    \in [Workers -> SUBSET Rows]
    /\ current  \in [Workers -> Rows \cup {NULL}]
    /\ seen     \in [Workers -> [Rows -> Nat]]
    /\ result   \in [Workers -> Result \cup {NULL}]
    /\ faults   \in Nat
    /\ ran      \in [Rows -> SUBSET Result]
    /\ failures \in [Rows -> Nat]
    /\ \A w \in Workers :
         /\ pc[w] \in {"dispatching", "settling", "handing_back"} => current[w] \in batch[w]
         /\ pc[w] \in {"settling", "handing_back"} => result[w] \in Result
         /\ pc[w] \in {"down", "idle"} => batch[w] = {}
         /\ pc[w] = "ready" => batch[w] # {}

\* No two replicas hold one delivery, so its handler never runs in two at once
\* (lease's SKIP LOCKED and deadline, release on every way out of a batch).
Exclusive == \A v, w \in Workers : v # w => batch[v] \cap batch[w] = {}

\* A row in a worker's batch is processing under a lease that has not lapsed, and
\* the worker knows its count, unless it is the one whose write just failed
\* (run_once's comment: "release moves only rows still marked PROCESSING").
BatchIsHeld ==
    \A w \in Workers : \A n \in batch[w] :
        /\ n \notin Eligible
        /\ status[n] # "absent"
        /\ \/ status[n] = "processing" /\ seen[w][n] = attempts[n]
           \/ pc[w] = "handing_back" /\ n = current[w]

\* The table never counts an attempt that was not a failed run, and never more
\* than the limit: releases, crashes and cancelled runs are free of charge.
AttemptsAreFailures ==
    \A n \in Rows :
        /\ "permanent" \notin ran[n] => attempts[n] <= failures[n]
        /\ attempts[n] <= MaxAttempts
        /\ status[n] \in Live \cup {"absent"} => attempts[n] < MaxAttempts

\* A row whose outcome was recorded is not worked on again: processed and
\* ignored rows only leave by the prune, and a row given up on comes back only
\* by a redelivery, which starts its count again (_revive, finish, release).
SettledStaysSettled ==
    [][\A n \in Rows :
         /\ status[n] \in Settled => status'[n] \in {status[n], "pruned"}
         /\ status[n] = "failed" => \/ status'[n] \in {"failed", "pruned"}
                                    \/ status'[n] = "pending" /\ attempts'[n] = 0
         /\ status[n] \in Live => status'[n] # "pruned"]_vars

Promised(st) == CASE st = "absent"  -> "none"
                  [] st \in Live    -> "owed"
                  [] st = "pruned"  -> "forgotten"
                  [] OTHER          -> st

Promise == INSTANCE DeliveryPromise
             WITH promise <- [n \in Rows |-> Promised(status[n])]

\* The table and its workers keep the promise of DeliveryPromise.
KeepsThePromise == Promise!Spec

\* Whatever crashes, stops and failed writes there were, an accepted delivery
\* is settled in the end: no row stays pending or processing for ever.
EventuallySettled == \A n \in Rows : (status[n] \in Live) ~> (status[n] \notin Live)
=============================================================================
