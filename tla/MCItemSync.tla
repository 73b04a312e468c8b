----------------------------- MODULE MCItemSync -----------------------------
(***************************************************************************)
(* ItemSync on small instances.                                            *)
(***************************************************************************)
EXTENDS ItemSync, TLC

\* Opened, then two events within one second, the second closing the issue.
TiedStamps   == <<1, 2, 2>>
ClosedAtLast == <<FALSE, FALSE, TRUE>>

\* Closed, then reopened; every event in a second of its own.
OwnSeconds == <<1, 2>>
Reopened   == <<TRUE, FALSE>>
ClosedLast == <<FALSE, TRUE>>
=============================================================================
