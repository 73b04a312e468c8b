-------------------------- MODULE DeliveryPromise --------------------------
(***************************************************************************)
(* What the queue promises of every delivery the endpoint accepted: it is  *)
(* owed a run until it is settled; it is settled only by the result of a   *)
(* run, given up on only after a permanent failure or MaxAttempts failed   *)
(* runs, run only while it is owed, and forgotten only once settled.       *)
(* DeliveryQueue is shown to implement this specification.                 *)
(***************************************************************************)
EXTENDS Naturals

CONSTANTS Rows, MaxAttempts

Result == {"processed", "ignored", "permanent", "transient"}

VARIABLES
    promise,   \* "none", "owed", "processed", "ignored", "failed", "forgotten"
    ran,       \* results of the runs since the delivery was last accepted
    failures   \* transient failures among them, counted

vars == <<promise, ran, failures>>

Init ==
    /\ promise  = [n \in Rows |-> "none"]
    /\ ran      = [n \in Rows |-> {}]
    /\ failures = [n \in Rows |-> 0]

Accept(n) ==
    /\ promise[n] = "none"
    /\ promise' = [promise EXCEPT ![n] = "owed"]
    /\ UNCHANGED <<ran, failures>>

Run(n, r) ==
    /\ promise[n] = "owed"
    /\ ran'      = [ran EXCEPT ![n] = @ \cup {r}]
    /\ failures' = [failures EXCEPT ![n] = @ + (IF r = "transient" THEN 1 ELSE 0)]
    /\ UNCHANGED promise

Settle(n, r) ==
    /\ promise[n] = "owed"
    /\ r \in {"processed", "ignored"} \cap ran[n]
    /\ promise' = [promise EXCEPT ![n] = r]
    /\ UNCHANGED <<ran, failures>>

GiveUp(n) ==
    /\ promise[n] = "owed"
    /\ "permanent" \in ran[n] \/ failures[n] >= MaxAttempts
    /\ promise' = [promise EXCEPT ![n] = "failed"]
    /\ UNCHANGED <<ran, failures>>

\* Somebody pressed Redeliver: the count starts again.
OweAgain(n) ==
    /\ promise[n] = "failed"
    /\ promise'  = [promise EXCEPT ![n] = "owed"]
    /\ ran'      = [ran EXCEPT ![n] = {}]
    /\ failures' = [failures EXCEPT ![n] = 0]

Forget(S) ==
    /\ \A n \in S : promise[n] \in {"processed", "ignored", "failed"}
    /\ promise' = [n \in Rows |-> IF n \in S THEN "forgotten" ELSE promise[n]]
    /\ UNCHANGED <<ran, failures>>

Next ==
    \/ \E n \in Rows : \/ Accept(n) \/ GiveUp(n) \/ OweAgain(n)
                       \/ \E r \in Result : Run(n, r) \/ Settle(n, r)
    \/ \E S \in SUBSET Rows : Forget(S)

Spec == Init /\ [][Next]_vars
=============================================================================
