----------------------------- MODULE LeaseClock -----------------------------
(***************************************************************************)
(* One worker, one batch, and the clock: how long a batch can take against *)
(* the lease it runs under.                                                *)
(*                                                                         *)
(*   services/delivery/worker.py run_once and _handle, config.py           *)
(*   _lease_fits_a_batch, services/sync/threads.py _open                   *)
(*                                                                         *)
(* asyncio.wait_for cancels the handler when the delivery timeout is over, *)
(* and then waits until the handler has ended.  A handler that is opening  *)
(* a thread waits Grace longer for the claim of it before it ends, so one  *)
(* delivery can take Timeout + Grace.  Queue writes take no time here.     *)
(***************************************************************************)
EXTENDS Naturals

CONSTANTS
    BatchSize,  \* worker_batch_size
    Timeout,    \* worker_delivery_timeout_seconds
    Grace,      \* CLAIM_GRACE_SECONDS, 0 for a handler that opens no thread
    LeaseFor    \* worker_lease_seconds

\* What the settings' validator lets through; the process starts on no other.
Accepted ==
    /\ BatchSize \in Nat \ {0}
    /\ Timeout \in Nat \ {0}
    /\ LeaseFor \in Nat \ {0}
    /\ Grace \in Nat
    /\ LeaseFor >= BatchSize * Timeout

VARIABLES
    now,      \* seconds since the lease was taken
    began,    \* when the delivery in hand was dispatched
    left,     \* deliveries of the batch not yet settled
    opening   \* the handler in hand is inside the shielded claim of a thread

vars == <<now, began, left, opening>>

Init == Accepted /\ now = 0 /\ began = 0 /\ left = BatchSize /\ opening = FALSE

Allowed == Timeout + (IF opening THEN Grace ELSE 0)

\* Time passes, never past the moment at which the delivery in hand must end.
Tick ==
    /\ left > 0
    /\ now - began < Allowed
    /\ now' = now + 1
    /\ UNCHANGED <<began, left, opening>>

StartsOpening ==
    /\ left > 0 /\ ~opening
    /\ now - began < Timeout
    /\ opening' = TRUE
    /\ UNCHANGED <<now, began, left>>

\* The handler ended and its outcome is written.
Settles ==
    /\ left > 0
    /\ left' = left - 1
    /\ began' = now
    /\ opening' = FALSE
    /\ UNCHANGED now

Next == Tick \/ StartsOpening \/ Settles

Spec == Init /\ [][Next]_vars

\* Every outcome is written under the lease: "a batch cannot outlive its own",
\* as finish() and _lease_fits_a_batch have it.
BatchWithinLease == left > 0 => now <= LeaseFor

\* What the validator would have to ask for: room for the grace as well.
RoomForGrace == LeaseFor >= BatchSize * (Timeout + Grace)
=============================================================================
