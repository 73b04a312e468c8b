------------------------------- MODULE Health -------------------------------
(***************************************************************************)
(* What /health answers (shannon/runtime/liveness.py and                   *)
(* shannon/api/routes/health.py): whether the database can be reached,     *)
(* asked by one caller at a time and kept for a while, whether the worker  *)
(* runs and whether Discord is connected.  Time is counted in units; a     *)
(* probe is given up at its deadline, and a caller may hang up at any      *)
(* moment.                                                                 *)
(***************************************************************************)
EXTENDS Integers

CONSTANTS
    Callers,
    ProbeEvery,      \* how long an answer is kept: probe_every
    ProbeTimeout,    \* how long a probe may take: probe_timeout
    LastHour,        \* the clock stops here
    MaxTurns,        \* changes of the database, the worker and the gateway
    NULL

HealthAssumption ==
    /\ ProbeEvery \in Nat \ {0} /\ ProbeTimeout \in Nat \ {0}
    /\ LastHour \in Nat \ {0} /\ MaxTurns \in Nat
    /\ NULL \notin Callers

VARIABLES
    now, database, worker, bot, turns,
    answered, failing,      \* when the database last answered, and when it last did not
    probedAt, reachable,    \* _probed_at and _reachable
    probing, since,         \* who holds _probing, and when it began
    caller,                 \* where each caller is
    misled,                 \* somebody was told what was not so
    crowded                 \* the database was asked again while its answer was fresh

world == <<now, database, worker, bot, turns, answered, failing>>
cache == <<probedAt, reachable, probing, since>>
vars  == <<world, cache, caller, misled, crowded>>

Init ==
    /\ now = 1 /\ database = "answers" /\ worker = "runs" /\ turns = 0
    /\ bot \in {"none", "away"}
    /\ answered = 1 /\ failing = 0
    /\ probedAt = 0 /\ reachable = FALSE
    /\ probing = NULL /\ since = 0
    /\ caller = [c \in Callers |-> "elsewhere"]
    /\ misled = FALSE /\ crowded = FALSE

------------------------------------------------------------------------------
(* The world: time, the database, the worker's task and the gateway.       *)

Sees(d, t) ==
    IF d = "answers" THEN answered' = t /\ UNCHANGED failing
    ELSE failing' = t /\ UNCHANGED answered

Tick ==
    /\ now < LastHour
    /\ probing # NULL => now - since < ProbeTimeout
    /\ now' = now + 1 /\ Sees(database, now + 1)
    /\ UNCHANGED <<database, worker, bot, turns, cache, caller, misled, crowded>>

DatabaseTurns ==
    /\ database' \in {"answers", "refuses", "quiet"} \ {database}
    /\ Sees(database', now)
    /\ UNCHANGED <<worker, bot>>

WorkerEnds == worker' = "ended" /\ UNCHANGED <<database, bot, answered, failing>>

\* A gateway is lost and comes back; one that is given up is over.
GatewayTurns ==
    /\ bot \in {"away", "up"} /\ bot' \in {"away", "up", "ended"} \ {bot}
    /\ UNCHANGED <<database, worker, answered, failing>>

Turn ==
    /\ turns < MaxTurns /\ turns' = turns + 1
    /\ DatabaseTurns \/ WorkerEnds \/ GatewayTurns
    /\ UNCHANGED <<now, cache, caller, misled, crowded>>

------------------------------------------------------------------------------
(* The answer.                                                             *)

\* The other tasks are reported, and not counted.
Healthy(reaches) == reaches /\ worker = "runs" /\ bot \in {"none", "up"}

\* The database was so at a moment no longer ago than an answer is kept and a probe takes.
Lately(t) == t # 0 /\ now - t < ProbeEvery + ProbeTimeout
Misleads(reaches) ==
    \/ ~Lately(IF reaches THEN answered ELSE failing)
    \/ Healthy(reaches) /\ (worker = "ended" \/ bot = "ended")

\* The worker and the gateway are read once the database has been.
Tells(c, reaches) ==
    /\ caller' = [caller EXCEPT ![c] = "elsewhere"]
    /\ misled' = (misled \/ Misleads(reaches))

Fresh == probedAt # 0 /\ now - probedAt < ProbeEvery

Asks(c) ==
    /\ caller[c] = "elsewhere"
    /\ IF Fresh THEN Tells(c, reachable)
       ELSE caller' = [caller EXCEPT ![c] = "waiting"] /\ UNCHANGED misled
    /\ UNCHANGED <<world, cache, crowded>>

\* It is stamped on the way in.
BeginsStamped(c) ==
    /\ probing' = c /\ since' = now
    /\ caller' = [caller EXCEPT ![c] = "probing"]
    /\ crowded' = (crowded \/ Fresh) /\ probedAt' = now
    /\ UNCHANGED <<reachable, misled>>

\* The answer is stamped when there is one.
Begins(c) ==
    /\ probing' = c /\ since' = now
    /\ caller' = [caller EXCEPT ![c] = "probing"]
    /\ crowded' = (crowded \/ Fresh)
    /\ UNCHANGED <<probedAt, reachable, misled>>

\* Whoever held the lock may have answered the question meanwhile.
Answered == Fresh

Enters(c) ==
    /\ caller[c] = "waiting" /\ probing = NULL
    /\ IF Answered
       THEN Tells(c, reachable) /\ UNCHANGED <<cache, crowded>>
       ELSE Begins(c)
    /\ UNCHANGED world

\* The probe is answered, is refused, or has run out of time.
Finds(c) ==
    /\ caller[c] = "probing"
    /\ database = "quiet" => now - since = ProbeTimeout
    /\ reachable' = (database = "answers")
    /\ probedAt' = now
    /\ probing' = NULL /\ since' = 0
    /\ Tells(c, reachable')
    /\ UNCHANGED <<world, crowded>>

\* Nothing is stamped, and the next in line probes for itself.
HangsUp(c) ==
    /\ caller[c] # "elsewhere"
    /\ caller' = [caller EXCEPT ![c] = "elsewhere"]
    /\ IF probing = c THEN probing' = NULL /\ since' = 0 ELSE UNCHANGED <<probing, since>>
    /\ UNCHANGED <<world, probedAt, reachable, misled, crowded>>

Next ==
    \/ Tick \/ Turn
    \/ \E c \in Callers : Asks(c) \/ Enters(c) \/ Finds(c) \/ HangsUp(c)

Spec == Init /\ [][Next]_vars

------------------------------------------------------------------------------
TypeOK ==
    /\ now \in 1..LastHour /\ turns \in 0..MaxTurns
    /\ database \in {"answers", "refuses", "quiet"} /\ worker \in {"runs", "ended"}
    /\ bot \in {"none", "away", "up", "ended"}
    /\ answered \in 0..LastHour /\ failing \in 0..LastHour
    /\ probedAt \in 0..LastHour /\ reachable \in BOOLEAN
    /\ probing \in Callers \cup {NULL} /\ since \in 0..LastHour
    /\ caller \in [Callers -> {"elsewhere", "waiting", "probing"}]
    /\ misled \in BOOLEAN /\ crowded \in BOOLEAN

(* What /health says of the database was so within the time an answer is   *)
(* kept and a probe may take, and what a probe has not found is never      *)
(* said; and a burst of callers asks the database once                     *)
(* (shannon/runtime/liveness.py:48-75).                                    *)
AnswersAsItFound == ~misled /\ ~crowded
=============================================================================
