----------------------- MODULE DeliveryQueueProofs -----------------------
(***************************************************************************)
(* What DeliveryQueue guarantees for every set of rows and replicas, every *)
(* batch size and every limit, under Timely.                               *)
(***************************************************************************)
EXTENDS DeliveryQueue, TLAPS

LEMMA InitType == Init => TypeOK
BY QueueAssumption DEF Init, TypeOK, Status, Live, Terminal, Settled, PCs, Result

\* The table keeps its types whatever outcome a worker writes.
LEMMA WriteType ==
  ASSUME TypeOK, NEW w \in Workers, current[w] \in Rows, WriteOutcome(w) \/ UNCHANGED table
  PROVE  /\ status'   \in [Rows -> Status]
         /\ attempts' \in [Rows -> Nat]
         /\ due'      \in [Rows -> BOOLEAN]
         /\ lapsed'   \in [Rows -> BOOLEAN]
         /\ aged'     \in [Rows -> BOOLEAN]
         /\ lease'    \in [Rows -> SUBSET Rows]
<1>1. CASE UNCHANGED table BY <1>1 DEF TypeOK, table
<1>2. ASSUME NEW st \in Status, NEW k \in {0, 1}, NEW b \in BOOLEAN,
             WriteRow(current[w], st, k, b)
      PROVE  /\ status'   \in [Rows -> Status]
             /\ attempts' \in [Rows -> Nat]
             /\ due'      \in [Rows -> BOOLEAN]
             /\ lapsed'   \in [Rows -> BOOLEAN]
             /\ aged'     \in [Rows -> BOOLEAN]
             /\ lease'    \in [Rows -> SUBSET Rows] BY <1>2 DEF TypeOK, WriteRow
<1>3. CASE WriteOutcome(w) /\ status[current[w]] = "processing"
  <2>1. PICK st \in Status, k \in {0, 1}, b \in BOOLEAN : WriteRow(current[w], st, k, b)
    <3>1. due[current[w]] \in BOOLEAN BY DEF TypeOK
    <3>2. Settled \cup {"failed", "pending"} \subseteq Status BY DEF Status, Terminal, Live
    <3> QED BY <1>3, <3>1, <3>2 DEF WriteOutcome
  <2> QED BY <1>2, <2>1
<1> QED BY <1>1, <1>3 DEF WriteOutcome

LEMMA ReleaseType ==
  ASSUME TypeOK, NEW S \in SUBSET Rows, Release(S)
  PROVE  /\ status'   \in [Rows -> Status]
         /\ attempts' \in [Rows -> Nat]
         /\ due'      \in [Rows -> BOOLEAN]
         /\ lapsed'   \in [Rows -> BOOLEAN]
         /\ aged'     \in [Rows -> BOOLEAN]
         /\ lease'    \in [Rows -> SUBSET Rows]
BY DEF TypeOK, Release, Status, Live

LEMMA ProceedType ==
  ASSUME TypeOK, NEW w \in Workers, NEW rest \in SUBSET Rows, Proceed(w, rest),
         UNCHANGED history
  PROVE  /\ pc'       \in [Workers -> PCs]
         /\ stopping' \in [Workers -> BOOLEAN]
         /\ batch'    \in [Workers -> SUBSET Rows]
         /\ current'  \in [Workers -> Rows \cup {NULL}]
         /\ seen'     \in [Workers -> [Rows -> Nat]]
         /\ result'   \in [Workers -> Result \cup {NULL}]
         /\ ran'      \in [Rows -> SUBSET Result]
         /\ failures' \in [Rows -> Nat]
         /\ \A v \in Workers :
              /\ pc'[v] \in {"dispatching", "settling", "handing_back"}
                   => current'[v] \in batch'[v]
              /\ pc'[v] \in {"settling", "handing_back"}
                   => result'[v] \in Result
              /\ pc'[v] \in {"down", "idle"} => batch'[v] = {}
              /\ pc'[v] = "ready" => batch'[v] # {}
BY DEF TypeOK, Proceed, Keep, history, PCs

LEMMA OffType ==
  ASSUME TypeOK, NEW w \in Workers, Off(w), UNCHANGED history
  PROVE  /\ pc'       \in [Workers -> PCs]
         /\ stopping' \in [Workers -> BOOLEAN]
         /\ batch'    \in [Workers -> SUBSET Rows]
         /\ current'  \in [Workers -> Rows \cup {NULL}]
         /\ seen'     \in [Workers -> [Rows -> Nat]]
         /\ result'   \in [Workers -> Result \cup {NULL}]
         /\ ran'      \in [Rows -> SUBSET Result]
         /\ failures' \in [Rows -> Nat]
         /\ \A v \in Workers :
              /\ pc'[v] \in {"dispatching", "settling", "handing_back"}
                   => current'[v] \in batch'[v]
              /\ pc'[v] \in {"settling", "handing_back"}
                   => result'[v] \in Result
              /\ pc'[v] \in {"down", "idle"} => batch'[v] = {}
              /\ pc'[v] = "ready" => batch'[v] # {}
BY DEF TypeOK, Off, Keep, history, PCs

LEMMA StepType == TypeOK /\ [Next]_vars => TypeOK'
<1> SUFFICES ASSUME TypeOK, [Next]_vars PROVE TypeOK' OBVIOUS
<1> USE QueueAssumption
<1>1. CASE UNCHANGED vars BY <1>1 DEF vars, table, worker, history, TypeOK, Eligible
<1>2. ASSUME NEW n \in Rows, Enqueue(n) PROVE TypeOK'
  BY <1>2 DEF Enqueue, worker, history, TypeOK, Status, Live
<1>3. ASSUME NEW n \in Rows, Revive(n) PROVE TypeOK'
  <2>1. /\ status'   \in [Rows -> Status]
        /\ attempts' \in [Rows -> Nat]
        /\ due'      \in [Rows -> BOOLEAN]
        /\ lapsed'   \in [Rows -> BOOLEAN]
        /\ lease'    \in [Rows -> SUBSET Rows]
        /\ ran'      \in [Rows -> SUBSET Result]
        /\ failures' \in [Rows -> Nat]
        /\ faults'   \in Nat BY <1>3 DEF Revive, Fault, TypeOK, Status, Live
  <2> QED BY <1>3, <2>1 DEF Revive, worker, TypeOK
<1>4. ASSUME NEW n \in Rows, BackoffEnds(n) PROVE TypeOK' BY <1>4 DEF BackoffEnds, worker, history, TypeOK
<1>5. ASSUME NEW n \in Rows, LeaseLapses(n) PROVE TypeOK' BY <1>5 DEF LeaseLapses, worker, history, TypeOK
<1>6. ASSUME NEW n \in Rows, Ages(n) PROVE TypeOK' BY <1>6 DEF Ages, worker, history, TypeOK
<1>7. CASE Prune BY <1>7 DEF Prune, worker, history, TypeOK, Status
<1>8. ASSUME NEW w \in Workers, Lease(w) PROVE TypeOK'
  <2>1. Oldest(Eligible) \in SUBSET Rows BY DEF Oldest, Eligible
  <2>2. /\ status' \in [Rows -> Status]
        /\ lapsed' \in [Rows -> BOOLEAN]
        /\ lease'  \in [Rows -> SUBSET Rows]
        /\ batch'  \in [Workers -> SUBSET Rows]
        /\ seen'   \in [Workers -> [Rows -> Nat]]
        /\ pc'     \in [Workers -> PCs]
    BY <1>8, <2>1 DEF Lease, TypeOK, Status, Live, PCs
  <2> QED BY <1>8, <2>2 DEF Lease, history, TypeOK
<1>9. ASSUME NEW w \in Workers, Begin(w) PROVE TypeOK' BY <1>9 DEF Begin, table, history, TypeOK, PCs
<1>10. ASSUME NEW w \in Workers, NEW r \in Result, DispatchEnds(w, r) PROVE TypeOK'
  <2>1. current[w] \in Rows BY <1>10 DEF DispatchEnds, TypeOK
  <2>2. /\ result'   \in [Workers -> Result \cup {NULL}]
        /\ ran'      \in [Rows -> SUBSET Result]
        /\ pc'       \in [Workers -> PCs]
    BY <1>10, <2>1 DEF DispatchEnds, TypeOK, PCs
  <2>3. failures' \in [Rows -> Nat]
    <3>1. PICK k \in Nat : failures' = [failures EXCEPT ![current[w]] = @ + k] BY <1>10 DEF DispatchEnds
    <3>2. failures \in [Rows -> Nat] BY DEF TypeOK
    <3>3. \A n \in Rows : [failures EXCEPT ![n] = @ + k] \in [Rows -> Nat] BY <3>1, <3>2
    <3> QED BY <2>1, <3>1, <3>3
  <2> QED BY <1>10, <2>2, <2>3 DEF DispatchEnds, table, TypeOK
<1>11. ASSUME NEW w \in Workers, Record(w) PROVE TypeOK' BY <1>11, WriteType, ProceedType DEF Record, TypeOK
<1>12. ASSUME NEW w \in Workers, RecordFails(w) PROVE TypeOK'
  BY <1>12, WriteType DEF RecordFails, Fault, history, TypeOK, PCs
<1>13. ASSUME NEW w \in Workers, HandBack(w) PROVE TypeOK'
  BY <1>13, ReleaseType, ProceedType DEF HandBack, TypeOK
<1>14. ASSUME NEW w \in Workers, HandBackFails(w) PROVE TypeOK'
  BY <1>14, ProceedType DEF HandBackFails, Fault, table, TypeOK
<1>15. ASSUME NEW w \in Workers, Stop(w) PROVE TypeOK' BY <1>15 DEF Stop, Fault, table, history, TypeOK
<1>16. ASSUME NEW w \in Workers, Cancel(w) PROVE TypeOK' BY <1>16, WriteType DEF Cancel, history, TypeOK, PCs
<1>17. ASSUME NEW w \in Workers, HandBackRest(w) PROVE TypeOK'
  BY <1>17, ReleaseType, OffType DEF HandBackRest, TypeOK
<1>18. ASSUME NEW w \in Workers, Exit(w) PROVE TypeOK' BY <1>18, OffType DEF Exit, table, TypeOK
<1>19. ASSUME NEW w \in Workers, Crash(w) PROVE TypeOK' BY <1>19, OffType DEF Crash, Fault, table, TypeOK
<1>20. ASSUME NEW w \in Workers, Restart(w) PROVE TypeOK' BY <1>20 DEF Restart, table, history, TypeOK, PCs
<1> QED BY <1>1, <1>2, <1>3, <1>4, <1>5, <1>6, <1>7, <1>8, <1>9, <1>10, <1>11, <1>12, <1>13,
     <1>14, <1>15, <1>16, <1>17, <1>18, <1>19, <1>20
     DEF Next, Environment, Step, Trouble

\* Every variable keeps its type on every behaviour.
THEOREM TypeCorrect == Spec => []TypeOK BY InitType, StepType, PTL DEF Spec

----
\* The inductive invariant.  Exclusive alone is not inductive: a lease
\* must be known to take no row another batch holds, which is BatchIsHeld;
\* what a worker holding a result will write is known from Earned.

\* A worker about to write an outcome has run the handler and got it.
Earned ==
    \A w \in Workers : pc[w] = "settling" =>
        LET n == current[w] IN
        /\ result[w] \in ran[n]
        /\ result[w] = "transient" /\ "permanent" \notin ran[n]
             => attempts[n] < failures[n]

IInv == TypeOK /\ Exclusive /\ BatchIsHeld /\ AttemptsAreFailures /\ Earned

LEMMA InitInv == Init => IInv
<1> SUFFICES ASSUME Init PROVE IInv OBVIOUS
<1>1. TypeOK BY InitType
<1>2. Exclusive /\ BatchIsHeld /\ Earned BY DEF Init, Exclusive, BatchIsHeld, Earned
<1>3. AttemptsAreFailures BY QueueAssumption DEF Init, AttemptsAreFailures
<1> QED BY <1>1, <1>2, <1>3 DEF IInv

\* Handing rows back leaves every other row alone.
LEMMA ReleaseFrame ==
  ASSUME TypeOK, NEW S \in SUBSET Rows, Release(S)
  PROVE  /\ \A n \in Rows \ S : /\ status'[n] = status[n] /\ lapsed'[n] = lapsed[n]
                                /\ due'[n] = due[n] /\ attempts'[n] = attempts[n]
         /\ attempts' = attempts
         /\ \A n \in S : \/ status'[n] = status[n]
                         \/ status[n] = "processing" /\ status'[n] = "pending"
BY DEF TypeOK, Release

\* Writing an outcome touches the row in hand only.
LEMMA WriteFrame ==
  ASSUME TypeOK, NEW w \in Workers, current[w] \in Rows, WriteOutcome(w) \/ UNCHANGED table
  PROVE  \A n \in Rows \ {current[w]} :
           /\ status'[n] = status[n] /\ lapsed'[n] = lapsed[n]
           /\ due'[n] = due[n] /\ attempts'[n] = attempts[n]
BY DEF TypeOK, WriteOutcome, WriteRow, table

\* What the row in hand looks like after its outcome was written.
LEMMA WriteEffect ==
  ASSUME IInv, NEW w \in Workers, pc[w] = "settling", WriteOutcome(w),
         NEW n, n = current[w]
  PROVE  /\ n \in Rows /\ n \in batch[w] /\ status[n] = "processing"
         /\ \/ /\ result[w] \in Settled
               /\ status'[n] = result[w] /\ attempts'[n] = attempts[n]
            \/ /\ status'[n] = "failed" /\ attempts'[n] = attempts[n] + 1
               /\ "permanent" \in ran[n] \/ failures[n] >= MaxAttempts
            \/ /\ status'[n] = "pending" /\ ~due'[n]
               /\ attempts'[n] = attempts[n] + 1 /\ attempts'[n] < MaxAttempts
               /\ "permanent" \in ran[n] \/ attempts'[n] <= failures[n]
         /\ "permanent" \in ran[n] \/ attempts'[n] <= failures[n]
         /\ attempts'[n] <= MaxAttempts
<1>1. n \in Rows /\ n \in batch[w] /\ result[w] \in Result BY DEF IInv, TypeOK
<1>2. status[n] = "processing" /\ seen[w][n] = attempts[n] BY <1>1 DEF IInv, BatchIsHeld
<1>3. /\ result[w] \in ran[n]
      /\ result[w] = "transient" /\ "permanent" \notin ran[n] => attempts[n] < failures[n]
  BY DEF IInv, Earned
<1>4. /\ attempts[n] \in Nat /\ failures[n] \in Nat /\ MaxAttempts \in Nat
      /\ attempts[n] < MaxAttempts
      /\ "permanent" \notin ran[n] => attempts[n] <= failures[n]
  BY <1>1, <1>2, QueueAssumption DEF IInv, TypeOK, AttemptsAreFailures, Live
<1>5. \A st \in Status, k \in {0, 1}, b \in BOOLEAN : WriteRow(n, st, k, b) =>
        status'[n] = st /\ attempts'[n] = attempts[n] + k /\ due'[n] = b
  BY <1>1 DEF IInv, TypeOK, WriteRow
<1>6. due[n] \in BOOLEAN BY <1>1 DEF IInv, TypeOK
<1>7. CASE result[w] \in Settled /\ WriteRow(n, result[w], 0, due[n])
  <2>1. status'[n] = result[w] /\ attempts'[n] = attempts[n] BY <1>4, <1>5, <1>6, <1>7 DEF Status, Terminal
  <2> QED BY <1>1, <1>2, <1>4, <1>7, <2>1
<1>8. CASE result[w] = "permanent" /\ WriteRow(n, "failed", 1, due[n])
  <2>1. status'[n] = "failed" /\ attempts'[n] = attempts[n] + 1 BY <1>5, <1>6, <1>8 DEF Status, Terminal
  <2> QED BY <1>1, <1>2, <1>3, <1>4, <1>8, <2>1
<1>9. CASE result[w] = "transient" /\ OutOfAttempts(w) /\ WriteRow(n, "failed", 1, due[n])
  <2>1. status'[n] = "failed" /\ attempts'[n] = attempts[n] + 1 BY <1>5, <1>6, <1>9 DEF Status, Terminal
  <2>2. attempts[n] + 1 >= MaxAttempts BY <1>2, <1>9 DEF OutOfAttempts
  <2> QED BY <1>1, <1>2, <1>3, <1>4, <1>9, <2>1, <2>2
<1>10. CASE result[w] = "transient" /\ ~OutOfAttempts(w) /\ WriteRow(n, "pending", 1, FALSE)
  <2>1. status'[n] = "pending" /\ attempts'[n] = attempts[n] + 1 /\ ~due'[n] BY <1>5, <1>10 DEF Status, Live
  <2>2. attempts[n] + 1 < MaxAttempts BY <1>2, <1>4, <1>10 DEF OutOfAttempts
  <2> QED BY <1>1, <1>2, <1>3, <1>4, <1>10, <2>1, <2>2
<1> QED BY <1>2, <1>7, <1>8, <1>9, <1>10 DEF WriteOutcome

\* The row a worker is settling is held, so no other batch has it.
LEMMA InHand ==
  ASSUME IInv, NEW w \in Workers, pc[w] \in {"dispatching", "settling"}
  PROVE  /\ current[w] \in Rows /\ current[w] \in batch[w]
         /\ status[current[w]] = "processing"
         /\ \A v \in Workers \ {w} : current[w] \notin batch[v]
BY DEF IInv, TypeOK, BatchIsHeld, Exclusive

\* A row whose outcome was written, or may have been, is not up for lease.
LEMMA WrittenIneligible ==
  ASSUME IInv, NEW w \in Workers, pc[w] = "settling", WriteOutcome(w) \/ UNCHANGED table
  PROVE  current[w] \notin Eligible' /\ status'[current[w]] # "absent"
<1>1. CASE UNCHANGED table BY <1>1, InHand DEF IInv, BatchIsHeld, Eligible, table
<1>2. CASE WriteOutcome(w)
  <2> DEFINE n == current[w]
  <2>1. \/ result[w] \in Settled /\ status'[n] = result[w]
        \/ status'[n] = "failed"
        \/ status'[n] = "pending" /\ ~due'[n] BY <1>2, WriteEffect
  <2> QED BY <2>1 DEF Eligible, Settled
<1> QED BY <1>1, <1>2

\* Batches only ever shrink, but for the lease, which takes eligible rows.
LEMMA ExclusiveStep == IInv /\ [Next]_vars => Exclusive'
<1> SUFFICES ASSUME IInv, [Next]_vars PROVE Exclusive' OBVIOUS
<1>1. CASE \A w \in Workers : batch'[w] \subseteq batch[w] BY <1>1 DEF IInv, Exclusive
<1>2. ASSUME NEW w \in Workers, Lease(w) PROVE Exclusive'
  <2>1. \A v \in Workers : batch[v] \cap Oldest(Eligible) = {} BY DEF IInv, BatchIsHeld, Oldest
  <2>2. \A v \in Workers : batch'[v] = IF v = w THEN Oldest(Eligible) ELSE batch[v]
    BY <1>2 DEF Lease, IInv, TypeOK
  <2> QED BY <2>1, <2>2 DEF IInv, Exclusive
<1>3. (\E w \in Workers : Lease(w)) \/ (\A w \in Workers : batch'[w] \subseteq batch[w])
  <2>1. ASSUME NEW w \in Workers, NEW rest \in SUBSET batch[w], Proceed(w, rest)
        PROVE  \A v \in Workers : batch'[v] \subseteq batch[v]
    BY <2>1 DEF Proceed, IInv, TypeOK
  <2>2. ASSUME NEW w \in Workers, Off(w) PROVE \A v \in Workers : batch'[v] \subseteq batch[v]
    BY <2>2 DEF Off, IInv, TypeOK
  <2>3. CASE UNCHANGED vars \/ Environment
    BY <2>3 DEF vars, worker, Environment, Enqueue, Revive, BackoffEnds, LeaseLapses, Ages, Prune
  <2>4. ASSUME NEW w \in Workers, Begin(w) \/ Restart(w) \/ RecordFails(w) \/ Stop(w)
                                  \/ \E r \in Result : DispatchEnds(w, r)
        PROVE  batch' = batch
    BY <2>4 DEF Begin, Restart, RecordFails, Stop, DispatchEnds
  <2>5. ASSUME NEW w \in Workers, Record(w) \/ HandBack(w) \/ HandBackFails(w)
        PROVE  \A v \in Workers : batch'[v] \subseteq batch[v]
    BY <2>1, <2>5 DEF Record, HandBack, HandBackFails
  <2>6. ASSUME NEW w \in Workers, HandBackRest(w) \/ Exit(w) \/ Crash(w)
        PROVE  \A v \in Workers : batch'[v] \subseteq batch[v]
    BY <2>2, <2>6 DEF HandBackRest, Exit, Crash
  <2>7. ASSUME NEW w \in Workers, Cancel(w) PROVE \A v \in Workers : batch'[v] \subseteq batch[v]
    BY <2>7 DEF Cancel, IInv, TypeOK
  <2> QED BY <2>3, <2>4, <2>5, <2>6, <2>7 DEF Next, Step, Trouble
<1> QED BY <1>1, <1>2, <1>3

\* A row some worker still has after a step, in a state it was in before.
LEMMA HeldFrame ==
  ASSUME IInv, NEW w \in Workers, NEW n \in batch[w],
         status'[n] = status[n], due'[n] = due[n], lapsed'[n] = lapsed[n],
         attempts'[n] = attempts[n], seen'[w][n] = seen[w][n],
         \/ pc'[w] = pc[w] /\ current'[w] = current[w]
         \/ status[n] = "processing" /\ seen[w][n] = attempts[n]
  PROVE  /\ n \notin Eligible'
         /\ status'[n] # "absent"
         /\ \/ status'[n] = "processing" /\ seen'[w][n] = attempts'[n]
            \/ pc'[w] = "handing_back" /\ n = current'[w]
BY DEF IInv, BatchIsHeld, Eligible

\* The three writes that end a worker's hold on rows, seen from the other rows.
LEMMA BatchIsHeldStep == Timely /\ IInv /\ [Next]_vars => BatchIsHeld'
<1> SUFFICES ASSUME Timely, IInv, [Next]_vars,
                    NEW v \in Workers', NEW n \in batch'[v]
             PROVE  /\ n \notin Eligible'
                    /\ status'[n] # "absent"
                    /\ \/ status'[n] = "processing" /\ seen'[v][n] = attempts'[n]
                       \/ pc'[v] = "handing_back" /\ n = current'[v]
  BY DEF BatchIsHeld
<1> DEFINE Goal == /\ n \notin Eligible'
                   /\ status'[n] # "absent"
                   /\ \/ status'[n] = "processing" /\ seen'[v][n] = attempts'[n]
                      \/ pc'[v] = "handing_back" /\ n = current'[v]
<1>t. TypeOK /\ TypeOK' BY StepType DEF IInv
<1>r. n \in Rows /\ v \in Workers BY <1>t DEF TypeOK
<1>1. CASE UNCHANGED vars BY <1>1, <1>r, HeldFrame DEF vars, table, worker
<1>2. ASSUME NEW m \in Rows, Enqueue(m) PROVE Goal
  <2>1. n # m /\ n \in batch[v] BY <1>2 DEF Enqueue, worker, IInv, BatchIsHeld
  <2> QED BY <1>2, <1>r, <1>t, <2>1, HeldFrame DEF Enqueue, worker, TypeOK
<1>3. ASSUME NEW m \in Rows, Revive(m) PROVE Goal
  <2>0. \A u \in Workers : m \notin batch[u] BY <1>3 DEF Revive, Free
  <2>1. n # m /\ n \in batch[v] BY <1>3, <1>r, <2>0 DEF Revive, worker
  <2>2. /\ status'[n] = status[n] /\ lapsed'[n] = lapsed[n]
        /\ due'[n] = due[n] /\ attempts'[n] = attempts[n]
    BY <1>3, <1>r, <1>t, <2>1 DEF Revive, TypeOK
  <2>3. UNCHANGED worker BY <1>3 DEF Revive
  <2> QED BY <1>r, <2>1, <2>2, <2>3, HeldFrame DEF worker
<1>4. ASSUME NEW m \in Rows, BackoffEnds(m) PROVE Goal
  <2>0. \A u \in Workers : m \notin batch[u] BY <1>4 DEF BackoffEnds, Free
  <2>1. n # m /\ n \in batch[v] BY <1>4, <1>r, <2>0 DEF BackoffEnds, worker
  <2>2. /\ status'[n] = status[n] /\ lapsed'[n] = lapsed[n]
        /\ due'[n] = due[n] /\ attempts'[n] = attempts[n]
    BY <1>4, <1>r, <1>t, <2>1 DEF BackoffEnds, TypeOK
  <2>3. UNCHANGED worker BY <1>4 DEF BackoffEnds
  <2> QED BY <1>r, <2>1, <2>2, <2>3, HeldFrame DEF worker
<1>5. ASSUME NEW m \in Rows, LeaseLapses(m) PROVE Goal
  <2>1. n \notin LeaseMates(m) /\ n \in batch[v] BY <1>5, <1>r DEF LeaseLapses, Free, worker
  <2>2. lapsed'[n] = lapsed[n] BY <1>5, <1>r, <1>t, <2>1 DEF LeaseLapses, TypeOK
  <2> QED BY <1>5, <1>r, <1>t, <2>1, <2>2, HeldFrame DEF LeaseLapses, worker
<1>6. ASSUME NEW m \in Rows, Ages(m) PROVE Goal BY <1>6, <1>r, HeldFrame DEF Ages, worker
<1>7. CASE Prune
  <2>1. n \in batch[v] /\ UNCHANGED worker BY <1>7 DEF Prune, worker
  <2>2. CASE status[n] = "processing"
    BY <1>7, <1>r, <1>t, <2>1, <2>2, HeldFrame DEF Prune, worker, TypeOK, Terminal, Settled
  <2>3. CASE pc[v] = "handing_back" /\ n = current[v]
    BY <1>7, <1>r, <1>t, <2>1, <2>3 DEF Prune, worker, IInv, BatchIsHeld, Eligible
  <2> QED BY <2>1, <2>2, <2>3 DEF IInv, BatchIsHeld
<1>8. ASSUME NEW w \in Workers, Lease(w) PROVE Goal
  <2> DEFINE taken == Oldest(Eligible)
  <2>1. taken \subseteq Eligible BY DEF Oldest
  <2>2. CASE v = w
    <3>1. n \in taken BY <1>8, <1>t, <2>2 DEF Lease, TypeOK
    <3>2. status'[n] = "processing" /\ ~lapsed'[n] BY <1>8, <1>r, <3>1 DEF Lease
    <3>3. seen'[v][n] = attempts'[n] BY <1>8, <1>r, <1>t, <2>2, <3>1 DEF Lease, TypeOK
    <3> QED BY <3>2, <3>3 DEF Eligible
  <2>3. CASE v # w
    <3>1. n \in batch[v] /\ n \notin taken BY <1>8, <1>t, <2>1, <2>3 DEF Lease, TypeOK, IInv, BatchIsHeld
    <3>2. /\ status'[n] = status[n] /\ lapsed'[n] = lapsed[n] /\ due' = due
          /\ attempts' = attempts /\ seen'[v] = seen[v] /\ pc'[v] = pc[v]
          /\ current' = current
      BY <1>8, <1>r, <1>t, <2>3, <3>1 DEF Lease, TypeOK
    <3> QED BY <1>r, <3>1, <3>2, HeldFrame
  <2> QED BY <2>2, <2>3
<1>9. ASSUME NEW w \in Workers, Begin(w) \/ Restart(w)
                                \/ \E r \in Result : DispatchEnds(w, r)
      PROVE Goal
  <2>1. n \in batch[v] /\ UNCHANGED <<table, batch, seen>> BY <1>9 DEF Begin, Restart, DispatchEnds
  <2>2. v = w => status[n] = "processing" /\ seen[v][n] = attempts[n]
    BY <1>9, <2>1 DEF Begin, Restart, DispatchEnds, IInv, BatchIsHeld
  <2>3. v # w => pc'[v] = pc[v] /\ current'[v] = current[v]
    BY <1>9, <1>r, <1>t DEF Begin, Restart, DispatchEnds, TypeOK
  <2> QED BY <1>r, <2>1, <2>2, <2>3, HeldFrame DEF table
<1>10. ASSUME NEW w \in Workers, Stop(w) PROVE Goal BY <1>10, <1>r, HeldFrame DEF Stop, table
<1>11. ASSUME NEW w \in Workers, Record(w) \/ Cancel(w) PROVE Goal
  <2>0. pc[w] \in {"dispatching", "settling"} /\ (WriteOutcome(w) \/ UNCHANGED table)
    BY <1>11 DEF Record, Cancel
  <2>1. batch' = [batch EXCEPT ![w] = @ \ {current[w]}] BY <1>11 DEF Record, Cancel, Proceed
  <2>2. n \in batch[v] /\ n # current[w] BY <1>r, <1>t, <2>0, <2>1, InHand DEF TypeOK
  <2>3. /\ status'[n] = status[n] /\ lapsed'[n] = lapsed[n]
        /\ due'[n] = due[n] /\ attempts'[n] = attempts[n]
    BY <1>r, <1>t, <2>0, <2>2, InHand, WriteFrame
  <2>4. v # w => pc'[v] = pc[v] /\ current'[v] = current[v] /\ seen'[v] = seen[v]
    BY <1>11, <1>r, <1>t DEF Record, Cancel, Proceed, TypeOK
  <2>5. v = w => status[n] = "processing" /\ seen[v][n] = attempts[n] BY <2>0, <2>2 DEF IInv, BatchIsHeld
  <2>6. seen'[v][n] = seen[v][n]
    <3>1. CASE Cancel(w) BY <3>1 DEF Cancel
    <3>2. CASE Record(w) /\ v = w BY <1>r, <1>t, <2>2, <3>2 DEF Record, Proceed, Keep, TypeOK
    <3> QED BY <1>11, <2>4, <3>1, <3>2
  <2> QED BY <1>r, <2>2, <2>3, <2>4, <2>5, <2>6, HeldFrame
<1>12. ASSUME NEW w \in Workers, RecordFails(w) PROVE Goal
  <2>0. pc[w] = "settling" /\ (WriteOutcome(w) \/ UNCHANGED table) BY <1>12 DEF RecordFails
  <2>1. n \in batch[v] /\ UNCHANGED <<batch, current, seen>> BY <1>12 DEF RecordFails
  <2>2. v # w => pc'[v] = pc[v] BY <1>12, <1>r, <1>t DEF RecordFails, TypeOK
  <2>3. CASE n # current[w]
    <3>1. /\ status'[n] = status[n] /\ lapsed'[n] = lapsed[n]
          /\ due'[n] = due[n] /\ attempts'[n] = attempts[n]
      BY <1>r, <1>t, <2>0, <2>3, InHand, WriteFrame
    <3>2. v = w => status[n] = "processing" /\ seen[v][n] = attempts[n]
      BY <2>0, <2>1, <2>3 DEF IInv, BatchIsHeld
    <3> QED BY <1>r, <2>1, <2>2, <3>1, <3>2, HeldFrame
  <2>4. CASE n = current[w]
    <3>1. v = w BY <1>r, <2>0, <2>1, <2>4, InHand
    <3>2. pc'[v] = "handing_back" /\ n = current'[v] BY <1>12, <1>t, <2>1, <2>4, <3>1 DEF RecordFails, TypeOK
    <3> QED BY <2>0, <2>4, <3>2, WrittenIneligible
  <2> QED BY <2>3, <2>4
<1>13. ASSUME NEW w \in Workers,
              HandBack(w) \/ HandBackFails(w) \/ HandBackRest(w) \/ Exit(w) \/ Crash(w)
       PROVE Goal
  <2>1. v # w /\ batch'[v] = batch[v] BY <1>13, <1>r, <1>t
       DEF HandBack, HandBackFails, HandBackRest, Exit, Crash, Proceed, Off, TypeOK
  <2>2. pc'[v] = pc[v] /\ current'[v] = current[v] /\ seen'[v] = seen[v]
    BY <1>13, <1>r, <1>t, <2>1 DEF HandBack, HandBackFails, HandBackRest, Exit, Crash, Proceed, Off, TypeOK
  <2>3. n \notin batch[w] BY <1>r, <2>1 DEF IInv, Exclusive
  <2>4. /\ status'[n] = status[n] /\ lapsed'[n] = lapsed[n]
        /\ due'[n] = due[n] /\ attempts'[n] = attempts[n]
    <3>1. CASE UNCHANGED table BY <3>1 DEF table
    <3>2. CASE Release(batch[w]) BY <1>r, <1>t, <2>3, <3>2, ReleaseFrame DEF TypeOK
    <3> QED BY <1>13, <3>1, <3>2 DEF HandBack, HandBackFails, HandBackRest, Exit, Crash
  <2> QED BY <1>r, <2>1, <2>2, <2>4, HeldFrame
<1> QED
  BY <1>1, <1>2, <1>3, <1>4, <1>5, <1>6, <1>7, <1>8, <1>9, <1>10, <1>11, <1>12, <1>13 DEF Next, Environment,
    Step, Trouble

LEMMA AttemptsStep == IInv /\ [Next]_vars => AttemptsAreFailures'
<1> SUFFICES ASSUME IInv, [Next]_vars, NEW n \in Rows
             PROVE  /\ "permanent" \notin ran'[n] => attempts'[n] <= failures'[n]
                    /\ attempts'[n] <= MaxAttempts
                    /\ status'[n] \in Live \cup {"absent"} => attempts'[n] < MaxAttempts
  BY DEF AttemptsAreFailures
<1> DEFINE Goal == /\ "permanent" \notin ran'[n] => attempts'[n] <= failures'[n]
                   /\ attempts'[n] <= MaxAttempts
                   /\ status'[n] \in Live \cup {"absent"} => attempts'[n] < MaxAttempts
<1>t. /\ TypeOK
      /\ attempts[n] \in Nat /\ failures[n] \in Nat /\ MaxAttempts \in Nat \ {0}
      /\ "permanent" \notin ran[n] => attempts[n] <= failures[n]
      /\ attempts[n] <= MaxAttempts
      /\ status[n] \in Live \cup {"absent"} => attempts[n] < MaxAttempts
  BY QueueAssumption DEF IInv, TypeOK, AttemptsAreFailures
<1>1. ASSUME attempts'[n] = attempts[n], ran'[n] = ran[n], failures'[n] = failures[n],
             status'[n] \in Live \cup {"absent"} => status[n] \in Live \cup {"absent"}
      PROVE  Goal BY <1>1, <1>t
<1>2. CASE UNCHANGED vars BY <1>1, <1>2 DEF vars, table, history
<1>3. ASSUME NEW m \in Rows, Enqueue(m) \/ BackoffEnds(m) \/ LeaseLapses(m) \/ Ages(m) PROVE Goal
  BY <1>1, <1>3, <1>t DEF Enqueue, BackoffEnds, LeaseLapses, Ages, history, TypeOK
<1>4. ASSUME NEW m \in Rows, Revive(m) PROVE Goal
  <2>1. CASE n = m
    <3>1. attempts'[n] = 0 /\ failures'[n] = 0 BY <1>4, <1>t, <2>1 DEF Revive, TypeOK
    <3> QED BY <1>t, <3>1
  <2>2. CASE n # m BY <1>1, <1>4, <1>t, <2>2 DEF Revive, TypeOK
  <2> QED BY <2>1, <2>2
<1>5. CASE Prune BY <1>1, <1>5, <1>t DEF Prune, history, TypeOK, Live
<1>6. ASSUME NEW w \in Workers, Lease(w) PROVE Goal
  <2>1. n \in Oldest(Eligible) => status[n] \in Live BY DEF Oldest, Eligible, Live
  <2> QED BY <1>1, <1>6, <2>1 DEF Lease, history
<1>7. ASSUME NEW w \in Workers, Begin(w) \/ Stop(w) \/ Exit(w) \/ Crash(w) \/ Restart(w)
                                \/ HandBackFails(w)
      PROVE  Goal
  BY <1>1, <1>7 DEF Begin, Stop, Exit, Crash, Restart, HandBackFails, table, history
<1>8. ASSUME NEW w \in Workers, NEW r \in Result, DispatchEnds(w, r) PROVE Goal
  <2>1. attempts' = attempts /\ status' = status BY <1>8 DEF DispatchEnds, table
  <2>2. CASE n # current[w] BY <1>1, <1>8, <1>t, <2>1, <2>2 DEF DispatchEnds, TypeOK
  <2>3. CASE n = current[w]
    <3>1. ran'[n] = ran[n] \cup {r} /\ failures'[n] >= failures[n] /\ failures'[n] \in Nat
      BY <1>8, <1>t, <2>3 DEF DispatchEnds, TypeOK
    <3> QED BY <1>t, <2>1, <3>1
  <2> QED BY <2>2, <2>3
<1>9. ASSUME NEW w \in Workers, Record(w) \/ RecordFails(w) \/ Cancel(w) PROVE Goal
  <2>0. UNCHANGED history /\ pc[w] \in {"dispatching", "settling"} BY <1>9 DEF Record, RecordFails, Cancel
  <2>1. CASE UNCHANGED table BY <1>1, <2>0, <2>1 DEF table, history
  <2>2. CASE WriteOutcome(w) /\ pc[w] = "settling"
    <3>1. CASE n # current[w] BY <1>1, <1>t, <2>0, <2>2, <3>1, InHand, WriteFrame DEF history
    <3>2. CASE n = current[w]
      <4>1. /\ "permanent" \in ran[n] \/ attempts'[n] <= failures[n]
            /\ attempts'[n] <= MaxAttempts
            /\ status'[n] \in Live \cup {"absent"} => attempts'[n] < MaxAttempts
        BY <2>2, <3>2, WriteEffect DEF Live, Settled
      <4> QED BY <2>0, <4>1 DEF history
    <3> QED BY <3>1, <3>2
  <2> QED BY <1>9, <2>1, <2>2 DEF Record, RecordFails, Cancel
<1>10. ASSUME NEW w \in Workers, HandBack(w) \/ HandBackRest(w) PROVE Goal
  <2>1. Release(batch[w]) /\ UNCHANGED history BY <1>10 DEF HandBack, HandBackRest
  <2>2. attempts' = attempts /\ (status'[n] = status[n] \/ status[n] \in Live)
    BY <1>t, <2>1, ReleaseFrame DEF TypeOK, Live
  <2> QED BY <1>1, <2>1, <2>2 DEF history
<1> QED BY <1>2, <1>3, <1>4, <1>5, <1>6, <1>7, <1>8, <1>9, <1>10 DEF Next, Environment, Step, Trouble

LEMMA EarnedStep == Timely /\ IInv /\ [Next]_vars => Earned'
<1> SUFFICES ASSUME Timely, IInv, [Next]_vars, NEW v \in Workers, pc'[v] = "settling"
             PROVE  /\ result'[v] \in ran'[current'[v]]
                    /\ result'[v] = "transient" /\ "permanent" \notin ran'[current'[v]]
                         => attempts'[current'[v]] < failures'[current'[v]]
  BY DEF Earned
<1> DEFINE n == current[v]
           Goal == /\ result'[v] \in ran'[current'[v]]
                   /\ result'[v] = "transient" /\ "permanent" \notin ran'[current'[v]]
                        => attempts'[current'[v]] < failures'[current'[v]]
<1>t. TypeOK BY DEF IInv
<1>1. ASSUME pc[v] = "settling", current'[v] = n, result'[v] = result[v],
             ran'[n] = ran[n], attempts'[n] = attempts[n], failures'[n] = failures[n]
      PROVE  Goal BY <1>1 DEF IInv, Earned
<1>2. CASE UNCHANGED vars BY <1>1, <1>2 DEF vars, table, worker, history
<1>3. ASSUME NEW m \in Rows, Enqueue(m) \/ BackoffEnds(m) \/ LeaseLapses(m) \/ Ages(m) PROVE Goal
  BY <1>1, <1>3 DEF Enqueue, BackoffEnds, LeaseLapses, Ages, worker, history
<1>4. ASSUME NEW m \in Rows, Revive(m) PROVE Goal
  <2>1. UNCHANGED worker /\ m \notin batch[v] BY <1>4 DEF Revive, Free
  <2>2. n # m /\ n \in Rows BY <2>1, InHand DEF worker
  <2> QED BY <1>1, <1>4, <1>t, <2>1, <2>2 DEF Revive, worker, TypeOK
<1>5. CASE Prune BY <1>1, <1>5 DEF Prune, worker, history
<1>6. ASSUME NEW w \in Workers, Lease(w) \/ Begin(w) \/ Restart(w) PROVE Goal
  BY <1>1, <1>6, <1>t DEF Lease, Begin, Restart, table, history, TypeOK
<1>7. ASSUME NEW w \in Workers, Stop(w) PROVE Goal BY <1>1, <1>7 DEF Stop, table, history
<1>8. ASSUME NEW w \in Workers, NEW r \in Result, DispatchEnds(w, r) PROVE Goal
  <2>0. current' = current /\ attempts' = attempts BY <1>8 DEF DispatchEnds, table
  <2>1. CASE v = w
    <3>1. n \in Rows /\ status[n] = "processing" BY <1>8, <2>1, InHand DEF DispatchEnds
    <3>2. attempts[n] \in Nat /\ failures[n] \in Nat
          /\ ("permanent" \notin ran[n] => attempts[n] <= failures[n])
      BY <3>1 DEF IInv, TypeOK, AttemptsAreFailures
    <3>3. result'[v] = r /\ ran'[n] = ran[n] \cup {r} BY <1>8, <1>t, <2>1, <3>1 DEF DispatchEnds, TypeOK
    <3>4. r = "transient" => failures'[n] = failures[n] + 1 BY <1>8, <1>t, <2>1, <3>1 DEF DispatchEnds, TypeOK
    <3> QED BY <2>0, <3>2, <3>3, <3>4
  <2>2. CASE v # w
    <3>1. pc[v] = "settling" /\ result'[v] = result[v] BY <1>8, <1>t, <2>2 DEF DispatchEnds, TypeOK
    <3>2. n # current[w] /\ n \in Rows BY <1>8, <2>2, <3>1, InHand DEF DispatchEnds
    <3>3. ran'[n] = ran[n] /\ failures'[n] = failures[n] BY <1>8, <1>t, <3>2 DEF DispatchEnds, TypeOK
    <3> QED BY <1>1, <2>0, <3>1, <3>3
  <2> QED BY <2>1, <2>2
<1>9. ASSUME NEW w \in Workers, Record(w) \/ RecordFails(w) \/ Cancel(w) PROVE Goal
  <2>0. pc[w] \in {"dispatching", "settling"} /\ (WriteOutcome(w) \/ UNCHANGED table)
        /\ UNCHANGED history BY <1>9 DEF Record, RecordFails, Cancel
  <2>1. v # w /\ pc[v] = "settling" /\ current'[v] = n /\ result'[v] = result[v]
    BY <1>9, <1>t DEF Record, RecordFails, Cancel, Proceed, TypeOK
  <2>2. n # current[w] /\ n \in Rows BY <2>0, <2>1, InHand
  <2>3. attempts'[n] = attempts[n] BY <1>t, <2>0, <2>2, InHand, WriteFrame
  <2> QED BY <1>1, <2>0, <2>1, <2>3 DEF history
<1>10. ASSUME NEW w \in Workers,
              HandBack(w) \/ HandBackFails(w) \/ HandBackRest(w) \/ Exit(w) \/ Crash(w)
       PROVE Goal
  <2>1. v # w /\ pc[v] = "settling" /\ current'[v] = n /\ result'[v] = result[v]
    BY <1>10, <1>t DEF HandBack, HandBackFails, HandBackRest, Exit, Crash, Proceed, Off, TypeOK
  <2>2. attempts' = attempts /\ UNCHANGED history
    BY <1>10 DEF HandBack, HandBackFails, HandBackRest, Exit, Crash, Release, table
  <2> QED BY <1>1, <2>1, <2>2 DEF history
<1> QED BY <1>2, <1>3, <1>4, <1>5, <1>6, <1>7, <1>8, <1>9, <1>10 DEF Next, Environment, Step, Trouble

LEMMA Inductive ==
  ASSUME Timely PROVE Spec => []IInv
<1>1. IInv /\ [Next]_vars => IInv'
  BY StepType, ExclusiveStep, BatchIsHeldStep, AttemptsStep, EarnedStep DEF IInv
<1> QED BY <1>1, InitInv, PTL DEF Spec

\* No two replicas ever hold one delivery.
THEOREM ExclusiveHolds ==
  ASSUME Timely PROVE Spec => []Exclusive
<1>1. IInv => Exclusive BY DEF IInv
<1> QED BY <1>1, Inductive, PTL

\* The table counts failed runs only, and no more than the limit of them.
THEOREM AttemptsHold ==
  ASSUME Timely PROVE Spec => []AttemptsAreFailures
<1>1. IInv => AttemptsAreFailures BY DEF IInv
<1> QED BY <1>1, Inductive, PTL

----
\* A delivery settled.  Every write of an outcome and every release asks
\* for a row that is still processing.

StaysSettled ==
    \A n \in Rows :
        /\ status[n] \in Settled => status'[n] \in {status[n], "pruned"}
        /\ status[n] = "failed" => \/ status'[n] \in {"failed", "pruned"}
                                   \/ status'[n] = "pending" /\ attempts'[n] = 0
        /\ status[n] \in Live => status'[n] # "pruned"

\* Only rows not settled change, and none of them is pruned.
LEMMA SettledLet ==
  ASSUME \A n \in Rows :
             \/ status'[n] = status[n]
             \/ status[n] \in {"absent", "pending", "processing"} /\ status'[n] # "pruned"
  PROVE  StaysSettled BY DEF StaysSettled, Settled, Live

LEMMA SettledWrite ==
  ASSUME TypeOK, NEW w \in Workers, current[w] \in Rows, WriteOutcome(w) \/ UNCHANGED table PROVE StaysSettled
<1>1. CASE UNCHANGED table \/ status[current[w]] # "processing"
  <2>1. status' = status BY <1>1 DEF table, WriteOutcome
  <2>. QED BY <2>1, SettledLet
<1>2. CASE WriteOutcome(w) /\ status[current[w]] = "processing"
  <2>1. PICK st : st # "pruned" /\ status' = [status EXCEPT ![current[w]] = st]
    BY <1>2 DEF WriteOutcome, WriteRow, Settled
  <2>. QED BY <1>2, <2>1, SettledLet DEF TypeOK
<1>. QED BY <1>1, <1>2

LEMMA SettledRelease ==
  ASSUME NEW S \in SUBSET Rows, Release(S) PROVE StaysSettled BY SettledLet DEF Release

LEMMA SettledStep == TypeOK /\ [Next]_vars => [StaysSettled]_vars
<1>. SUFFICES ASSUME TypeOK, Next PROVE StaysSettled OBVIOUS
<1>1. ASSUME UNCHANGED status PROVE StaysSettled BY <1>1, SettledLet
<1>2. CASE Environment
  <2>1. ASSUME NEW n \in Rows, Enqueue(n) PROVE StaysSettled BY <2>1, SettledLet DEF Enqueue, TypeOK
  <2>2. ASSUME NEW n \in Rows, Revive(n) PROVE StaysSettled
    <3>1. /\ status[n] = "failed" /\ status'[n] = "pending" /\ attempts'[n] = 0
          /\ \A m \in Rows \ {n} : status'[m] = status[m]
      BY <2>2 DEF Revive, TypeOK
    <3>. QED BY <3>1 DEF StaysSettled, Settled, Live
  <2>3. CASE Prune
    <3>1. \A n \in Rows : \/ status'[n] = status[n]
                          \/ status'[n] = "pruned" /\ status[n] \in Terminal
      BY <2>3 DEF Prune
    <3>. QED BY <3>1 DEF StaysSettled, Settled, Live, Terminal
  <2>. QED BY <1>1, <1>2, <2>1, <2>2, <2>3 DEF Environment, BackoffEnds, LeaseLapses, Ages
<1>3. ASSUME NEW w \in Workers, Step(w) \/ Trouble(w) PROVE StaysSettled
  <2>1. CASE Lease(w)
    <3>1. \A n \in Rows : status'[n] = status[n] \/ (status'[n] = "processing" /\ n \in Eligible)
      BY <2>1 DEF Lease, Oldest
    <3>. QED BY <3>1, SettledLet DEF Eligible
  <2>2. CASE Record(w) \/ RecordFails(w) \/ Cancel(w)
    <3>1. current[w] \in Rows BY <2>2 DEF Record, RecordFails, Cancel, TypeOK
    <3>. QED BY <2>2, <3>1, SettledWrite DEF Record, RecordFails, Cancel
  <2>3. CASE HandBack(w) \/ HandBackRest(w) BY <2>3, SettledRelease DEF HandBack, HandBackRest, TypeOK
  <2>4. CASE Begin(w) \/ Exit(w) \/ Restart(w) \/ (\E r \in Result : DispatchEnds(w, r))
             \/ HandBackFails(w) \/ Stop(w) \/ Crash(w)
    BY <1>1, <2>4 DEF Begin, Exit, Restart, DispatchEnds, HandBackFails, Stop, Crash, table
  <2>. QED BY <1>3, <2>1, <2>2, <2>3, <2>4 DEF Step, Trouble
<1>. QED BY <1>2, <1>3 DEF Next

\* A delivery settled is touched again only by a redelivery of one given up on, or
\* by the prune, whoever still has its row and however late (finish, retry_later,
\* give_up, release; enqueue).
THEOREM OutcomesStand == Spec => SettledStaysSettled
<1>1. TypeOK /\ [Next]_vars => TypeOK' BY StepType
<1>. QED BY InitType, <1>1, SettledStep, PTL DEF Spec, SettledStaysSettled, StaysSettled

----
\* DeliveryQueue implements DeliveryPromise.

promise == [n \in Rows |-> Promised(status[n])]

LEMMA PromisedValues ==
  ASSUME NEW st \in Status
  PROVE  /\ st = "absent" => Promised(st) = "none"
         /\ st \in Live => Promised(st) = "owed"
         /\ st \in Terminal => Promised(st) = st
         /\ st = "pruned" => Promised(st) = "forgotten"
BY DEF Promised, Status, Live, Terminal, Settled

LEMMA PromiseInit == Init => Promise!Init
<1> SUFFICES ASSUME Init PROVE Promise!Init OBVIOUS
<1>1. TypeOK /\ \A n \in Rows : status[n] = "absent" BY InitType DEF Init
<1>2. \A n \in Rows : Promised(status[n]) = "none" BY <1>1, PromisedValues DEF TypeOK
<1> QED BY <1>2 DEF Init, Promise!Init

\* A step that moves no row between live and anything else is a stutter.
LEMMA PromiseStutter ==
  ASSUME TypeOK, TypeOK', UNCHANGED history,
         \A n \in Rows : status'[n] = status[n] \/ (status[n] \in Live /\ status'[n] \in Live)
  PROVE  UNCHANGED Promise!vars
<1>1. \A n \in Rows : Promised(status'[n]) = Promised(status[n])
  <2>1. \A n \in Rows : status[n] \in Status /\ status'[n] \in Status BY DEF TypeOK
  <2>2. \A st \in Status : st \in Live => Promised(st) = "owed" BY PromisedValues
  <2> QED BY <2>1, <2>2
<1> QED BY <1>1 DEF Promise!vars, history

\* A worker writing the outcome of its row settles it, gives it up or stutters.
LEMMA PromiseWrite ==
  ASSUME IInv, TypeOK', UNCHANGED history, NEW w \in Workers,
         pc[w] = "settling", WriteOutcome(w)
  PROVE  [Promise!Next]_Promise!vars
<1> DEFINE n == current[w]
<1>t. TypeOK BY DEF IInv
<1>1. n \in Rows /\ status[n] = "processing" BY InHand
<1>2. \A m \in Rows \ {n} : status'[m] = status[m] BY <1>t, <1>1, WriteFrame
<1>3. promise[n] = "owed" BY <1>t, <1>1, PromisedValues DEF promise, TypeOK, Live
<1>4. CASE status'[n] = "pending" BY <1>t, <1>1, <1>2, <1>4, PromiseStutter DEF Live
<1>5. CASE status'[n] \in Terminal
  <2>1. promise' = [promise EXCEPT ![n] = status'[n]]
    <3>1. \A m \in Rows : status'[m] = IF m = n THEN status'[n] ELSE status[m] BY <1>2
    <3>2. Promised(status'[n]) = status'[n]
      <4>1. status'[n] \in Status BY <1>5 DEF Terminal, Settled, Status, Live
      <4>. QED BY <4>1, <1>5, PromisedValues
    <3>3. \A m \in Rows : Promised(status'[m])
                             = IF m = n THEN status'[n] ELSE Promised(status[m])
      BY <3>1, <3>2
    <3>. QED BY <3>3 DEF promise
  <2>2. ran' = ran /\ failures' = failures BY DEF history
  <2>3. CASE result[w] \in Settled /\ status'[n] = result[w]
    <3>1. result[w] \in ran[n] BY DEF IInv, Earned
    <3>2. Promise!Settle(n, result[w]) BY <1>3, <2>1, <2>2, <2>3, <3>1 DEF Promise!Settle, promise, Settled
    <3>3. result[w] \in Promise!Result BY <2>3 DEF Settled, Promise!Result
    <3> QED BY <1>1, <3>2, <3>3 DEF Promise!Next
  <2>4. CASE status'[n] = "failed" /\ ("permanent" \in ran[n] \/ failures[n] >= MaxAttempts)
    <3>1. Promise!GiveUp(n) BY <1>3, <2>1, <2>2, <2>4 DEF Promise!GiveUp, promise
    <3> QED BY <1>1, <3>1 DEF Promise!Next
  <2> QED BY <1>5, <2>3, <2>4, WriteEffect DEF Terminal, Settled
<1> QED BY <1>4, <1>5, WriteEffect DEF Terminal

\* A step that moves one row moves its promise, and no other.
LEMMA PromiseMoves ==
  ASSUME NEW n \in Rows, NEW st, status \in [Rows -> Status],
         status' = [status EXCEPT ![n] = st]
  PROVE  promise' = [promise EXCEPT ![n] = Promised(st)]
<1>1. \A m \in Rows : status'[m] = IF m = n THEN st ELSE status[m] OBVIOUS
<1>2. \A m \in Rows : Promised(status'[m]) = IF m = n THEN Promised(st) ELSE Promised(status[m]) BY <1>1
<1> QED BY <1>2 DEF promise

LEMMA PromiseStep == Timely /\ IInv /\ [Next]_vars => [Promise!Next]_Promise!vars
<1> SUFFICES ASSUME Timely, IInv, [Next]_vars PROVE [Promise!Next]_Promise!vars OBVIOUS
<1>t. TypeOK /\ TypeOK' BY StepType DEF IInv
<1>s. status \in [Rows -> Status] BY <1>t DEF TypeOK
<1>1. CASE UNCHANGED vars BY <1>1, <1>t, PromiseStutter DEF vars, table
<1>2. ASSUME NEW n \in Rows, Enqueue(n) PROVE Promise!Next
  <2>1. promise[n] = "none" /\ promise' = [promise EXCEPT ![n] = "owed"]
    <3>1. status[n] = "absent" /\ status' = [status EXCEPT ![n] = "pending"] BY <1>2 DEF Enqueue
    <3>2. Promised("pending") = "owed" BY PromisedValues DEF Status, Live
    <3>3. promise[n] = "none" BY <3>1, PromisedValues DEF promise, Status
    <3> QED BY <1>s, <3>1, <3>2, <3>3, PromiseMoves
  <2>2. Promise!Accept(n) BY <1>2, <2>1 DEF Promise!Accept, promise, Enqueue, history
  <2> QED BY <2>2 DEF Promise!Next
<1>3. ASSUME NEW n \in Rows, Revive(n) PROVE Promise!Next
  <2>1. promise[n] = "failed" /\ promise' = [promise EXCEPT ![n] = "owed"]
    <3>1. status[n] = "failed" /\ status' = [status EXCEPT ![n] = "pending"] BY <1>3 DEF Revive
    <3>2. Promised("pending") = "owed" BY PromisedValues DEF Status, Live
    <3>3. promise[n] = "failed" BY <3>1, PromisedValues DEF promise, Status, Terminal
    <3> QED BY <1>s, <3>1, <3>2, <3>3, PromiseMoves
  <2>2. Promise!OweAgain(n) BY <1>3, <2>1 DEF Promise!OweAgain, promise, Revive
  <2> QED BY <2>2 DEF Promise!Next
<1>4. ASSUME NEW n \in Rows, BackoffEnds(n) \/ LeaseLapses(n) \/ Ages(n) PROVE UNCHANGED Promise!vars
  BY <1>4, <1>t, PromiseStutter DEF BackoffEnds, LeaseLapses, Ages
<1>5. CASE Prune
  <2> DEFINE old == {n \in Rows : status[n] \in Terminal /\ aged[n]}
  <2>1. \A n \in old : promise[n] \in {"processed", "ignored", "failed"}
    BY <1>t, PromisedValues DEF promise, TypeOK, Terminal, Settled
  <2>2. promise' = [n \in Rows |-> IF n \in old THEN "forgotten" ELSE promise[n]]
    BY <1>5, <1>t, PromisedValues DEF promise, Prune, TypeOK
  <2>3. Promise!Forget(old) BY <1>5, <2>1, <2>2 DEF Promise!Forget, promise, Prune, history
  <2> QED BY <2>3 DEF Promise!Next
<1>6. ASSUME NEW w \in Workers, Lease(w) PROVE UNCHANGED Promise!vars
  <2>1. \A n \in Rows : n \in Oldest(Eligible) => status[n] \in Live BY DEF Oldest, Eligible, Live
  <2> QED BY <1>6, <1>t, <2>1, PromiseStutter DEF Lease, Live
<1>7. ASSUME NEW w \in Workers, Begin(w) \/ Stop(w) \/ Exit(w) \/ Crash(w) \/ Restart(w)
                                \/ HandBackFails(w)
      PROVE  UNCHANGED Promise!vars
  BY <1>7, <1>t, PromiseStutter DEF Begin, Stop, Exit, Crash, Restart, HandBackFails, table
<1>8. ASSUME NEW w \in Workers, NEW r \in Result, DispatchEnds(w, r) PROVE Promise!Next
  <2>1. current[w] \in Rows /\ promise[current[w]] = "owed"
    BY <1>8, <1>t, InHand, PromisedValues DEF DispatchEnds, promise, TypeOK, Live
  <2>2. promise' = promise BY <1>8 DEF DispatchEnds, table, promise
  <2>3. Promise!Run(current[w], r) BY <1>8, <2>1, <2>2 DEF DispatchEnds, Promise!Run, promise
  <2>4. r \in Promise!Result BY DEF Result, Settled, Promise!Result
  <2> QED BY <2>1, <2>3, <2>4 DEF Promise!Next
<1>9. ASSUME NEW w \in Workers, Record(w) \/ RecordFails(w) \/ Cancel(w) PROVE [Promise!Next]_Promise!vars
  <2>0. UNCHANGED history BY <1>9 DEF Record, RecordFails, Cancel
  <2>1. CASE UNCHANGED table BY <1>t, <2>0, <2>1, PromiseStutter DEF table
  <2>2. CASE pc[w] = "settling" /\ WriteOutcome(w) BY <1>t, <2>0, <2>2, PromiseWrite
  <2> QED BY <1>9, <2>1, <2>2 DEF Record, RecordFails, Cancel
<1>10. ASSUME NEW w \in Workers, HandBack(w) \/ HandBackRest(w) PROVE UNCHANGED Promise!vars
  <2>1. Release(batch[w]) /\ UNCHANGED history BY <1>10 DEF HandBack, HandBackRest
  <2> QED BY <1>t, <2>1, PromiseStutter DEF Release, TypeOK, Live
<1> QED BY <1>1, <1>2, <1>3, <1>4, <1>5, <1>6, <1>7, <1>8, <1>9, <1>10 DEF Next, Environment, Step, Trouble

\* The table and its workers keep the promise of DeliveryPromise.
THEOREM PromiseKept ==
  ASSUME Timely PROVE Spec => KeepsThePromise
<1>1. IInv /\ [Next]_vars => [Promise!Next]_Promise!vars BY PromiseStep
<1> QED BY <1>1, PromiseInit, Inductive, PTL DEF Spec, KeepsThePromise, Promise!Spec
=============================================================================
