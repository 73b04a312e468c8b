------------------------------- MODULE Process -------------------------------
(***************************************************************************)
(* The tasks that run beside the API, from start to stop                   *)
(* (shannon/runtime/lifespan.py and supervision.py): the Discord bot, the  *)
(* delivery worker, the board poller, the transcript flusher and the       *)
(* reminder sender, what each needs of what is open, whose end stops the   *)
(* process, and the order in which a stop closes things.                   *)
(***************************************************************************)
EXTENDS Naturals, Sequences

CONSTANTS
    MaxFaults,       \* deaths of tasks and refusals to close
    MaxDrops         \* how often the gateway is lost

ProcessAssumption == MaxFaults \in Nat /\ MaxDrops \in Nat

Loops == {"worker", "poller", "flusher", "reminders"}
Tasks == Loops \cup {"bot"}

\* The process exits when one of these does, to be started again.
Vital == {"bot", "worker"}

\* A stop sees to these one after the other.
Steps == <<"worker", "poller", "flusher", "reminders", "client", "bot", "container", "probes">>

VARIABLES
    phase,           \* "starting", "serving", "closing", "closed"
    task,            \* what each task is doing
    cut,             \* the tasks that were cancelled
    reported,        \* those of Vital whose end was reported
    gateway,
    asked,           \* shutdown.asked, and the loops told to stop
    halted,          \* the process was sent the signal to stop
    at,              \* which of Steps the stop is at
    opened,          \* what is open
    faults, drops,
    balked,          \* what could not be closed
    strayed          \* a task used what was closed

vars == <<phase, task, cut, reported, gateway, asked, halted, at, opened, faults, drops, balked,
          strayed>>

Ended(t) == task[t] \in {"none", "over", "died", "cancelled"}

Init ==
    /\ phase = "starting"
    /\ task = [t \in Tasks |-> "none"]
    /\ cut = {} /\ reported = {}
    /\ gateway = "away" /\ asked = FALSE /\ halted = FALSE
    /\ at = 1 /\ opened = {"container"}
    /\ faults = 0 /\ drops = 0 /\ balked = {} /\ strayed = FALSE

------------------------------------------------------------------------------
(* Starting.                                                               *)

\* The database does not answer or was never migrated, or the conversations cannot be read:
\* the port never opens.
Refuse ==
    /\ phase = "starting" /\ phase' = "closed"
    /\ opened' \in {opened, opened \cup {"probes"}}
    /\ UNCHANGED <<task, cut, reported, gateway, asked, halted, at, faults, drops, balked, strayed>>

\* Without a token there is no bot, and no reminder is sent; without boards to read, no poller.
Start(token, polling) ==
    /\ phase = "starting" /\ phase' = "serving"
    /\ task' = [t \in Tasks |->
                  CASE t \in {"bot", "reminders"} -> IF token THEN "waiting" ELSE "none"
                    [] t = "worker" -> IF token THEN "waiting" ELSE "idle"
                    [] t = "poller" -> IF polling THEN "idle" ELSE "none"
                    [] t = "flusher" -> "idle"]
    /\ opened' = opened \cup {"probes"} \cup (IF token THEN {"client"} ELSE {})
    /\ UNCHANGED <<cut, reported, gateway, asked, halted, at, faults, drops, balked, strayed>>

------------------------------------------------------------------------------
(* Running.                                                                *)

Becomes(t, what) ==
    /\ task' = [task EXCEPT ![t] = what]
    /\ UNCHANGED <<phase, cut, reported, asked, halted, at, opened, balked>>

\* The gateway is reached, or lost: discord.py reconnects for as long as its task runs.
Connects ==
    /\ task["bot"] = "waiting" /\ gateway' = "up"
    /\ Becomes("bot", "idle")
    /\ UNCHANGED <<faults, drops, strayed>>
Loses ==
    /\ task["bot"] = "idle" /\ drops < MaxDrops /\ drops' = drops + 1
    /\ gateway' = "away"
    /\ Becomes("bot", "waiting")
    /\ UNCHANGED <<faults, strayed>>

\* The worker goes ahead when it has waited long enough for Discord; the sender never does.
Readies(t) ==
    /\ t \in {"worker", "reminders"} /\ task[t] = "waiting" /\ t \notin cut
    /\ gateway = "up" \/ t = "worker"
    /\ ~asked
    /\ Becomes(t, "idle")
    /\ UNCHANGED <<gateway, faults, drops, strayed>>

\* The bot stopped before it ever connected.
WaitsInVain(t) ==
    /\ t \in {"worker", "reminders"} /\ task[t] = "waiting" /\ t \notin cut
    /\ Ended("bot")
    /\ Becomes(t, "died")
    /\ UNCHANGED <<gateway, faults, drops, strayed>>

\* Everything that works reads the database, and writes to Discord or to GitHub.
Needs(t) == {"container"} \cup (IF task["bot"] = "none" THEN {} ELSE {"client"})

Works(t) ==
    /\ t \in Loops /\ task[t] = "idle" /\ t \notin cut /\ ~asked
    /\ Becomes(t, "busy")
    /\ strayed' = (strayed \/ ~(Needs(t) \subseteq opened))
    /\ UNCHANGED <<gateway, faults, drops>>

\* A failure is logged and waited out.
Rests(t) ==
    /\ task[t] = "busy" /\ t \notin cut
    /\ Becomes(t, "idle")
    /\ strayed' = (strayed \/ ~(Needs(t) \subseteq opened))
    /\ UNCHANGED <<gateway, faults, drops>>

\* A loop told to stop ends when what it has in hand is done, or its wait is over.
Stops(t) ==
    /\ t \in Loops /\ asked /\ t \notin cut
    /\ task[t] \in {"idle", "waiting"}
    /\ Becomes(t, "over")
    /\ UNCHANGED <<gateway, faults, drops, strayed>>

\* What no loop catches, and a bot that gives up.
Dies(t) ==
    /\ ~Ended(t) /\ t \notin cut
    /\ faults < MaxFaults /\ faults' = faults + 1
    /\ Becomes(t, "died")
    /\ gateway' = IF t = "bot" THEN "away" ELSE gateway
    /\ UNCHANGED <<drops, strayed>>

\* A task cancelled still hands back what it holds: one way or another it uses the database.
Unwinds(t) ==
    /\ t \in cut /\ ~Ended(t)
    /\ Becomes(t, "cancelled")
    /\ strayed' = (strayed \/ (task[t] = "busy" /\ "container" \notin opened))
    /\ UNCHANGED <<gateway, faults, drops>>

\* The done callback, some time after the end.  That of the others does nothing but log.
Reports(t) ==
    /\ t \in Vital \ reported /\ task[t] \in {"over", "died", "cancelled"}
    /\ reported' = reported \cup {t}
    /\ halted' = (halted \/ task[t] = "died" \/ (task[t] = "over" /\ ~asked))
    /\ UNCHANGED <<phase, task, cut, gateway, asked, at, opened, faults, drops, balked, strayed>>

------------------------------------------------------------------------------
(* Stopping.                                                               *)

\* Uvicorn's shutdown, because the process sent itself the signal or somebody else did.
Asked ==
    /\ phase = "serving" /\ phase' = "closing"
    /\ asked' = TRUE /\ at' = 1
    /\ UNCHANGED <<task, cut, reported, gateway, halted, opened, faults, drops, balked,
                   strayed>>

Closing(step) == phase = "closing" /\ at \in DOMAIN Steps /\ Steps[at] = step

Onwards == at' = at + 1

\* A task that is done, or was never started, holds up nothing.
Passes(t) ==
    /\ Closing(t) /\ Ended(t)
    /\ Onwards
    /\ UNCHANGED <<phase, task, cut, reported, gateway, asked, halted, opened, faults, drops,
                   balked, strayed>>

\* It is cancelled, and not waited for.
CutsAndGoes(t) ==
    /\ Closing(t) /\ ~Ended(t) /\ t \notin cut
    /\ cut' = cut \cup {t} /\ Onwards
    /\ UNCHANGED <<phase, task, reported, gateway, asked, halted, opened, faults, drops,
                   balked, strayed>>

\* The grace is over, or there was none: the task is cancelled, and waited for.
Cuts(t) ==
    /\ Closing(t) /\ ~Ended(t) /\ t \notin cut
    /\ cut' = cut \cup {t}
    /\ UNCHANGED <<phase, task, reported, gateway, asked, halted, at, opened, faults, drops,
                   balked, strayed>>

\* One that cannot be closed is reported, and the next is closed all the same.
Closes(what) ==
    /\ Closing(what)
    /\ what \in {"client", "container", "probes"}
    /\ \/ opened' = opened \ {what} /\ UNCHANGED <<faults, balked>>
       \/ /\ what \in opened /\ faults < MaxFaults /\ faults' = faults + 1
          /\ balked' = balked \cup {what} /\ UNCHANGED opened
    /\ gateway' = IF what = "client" THEN "away" ELSE gateway
    /\ task' = IF what = "client" /\ what \in opened \ opened' /\ ~Ended("bot")
               THEN [task EXCEPT !["bot"] = "over"] ELSE task
    /\ Onwards
    /\ UNCHANGED <<phase, cut, reported, asked, halted, drops, strayed>>

Gone ==
    /\ phase = "closing" /\ at > Len(Steps)
    /\ phase' = "closed"
    /\ UNCHANGED <<task, cut, reported, gateway, asked, halted, at, opened, faults, drops,
                   balked, strayed>>

Next ==
    \/ Refuse \/ Connects \/ Loses \/ Asked \/ Gone
    \/ \E token, polling \in BOOLEAN : Start(token, polling)
    \/ \E t \in Tasks :
           \/ Readies(t) \/ WaitsInVain(t) \/ Works(t) \/ Rests(t) \/ Stops(t) \/ Dies(t)
           \/ Unwinds(t) \/ Reports(t) \/ Passes(t) \/ Cuts(t)
    \/ \E what \in {"client", "container", "probes"} : Closes(what)

Spec == Init /\ [][Next]_vars

------------------------------------------------------------------------------
TypeOK ==
    /\ phase \in {"starting", "serving", "closing", "closed"}
    /\ task \in [Tasks -> {"none", "waiting", "idle", "busy", "over", "died", "cancelled"}]
    /\ cut \subseteq Tasks /\ reported \subseteq Vital
    /\ gateway \in {"away", "up"} /\ asked \in BOOLEAN /\ halted \in BOOLEAN
    /\ at \in 1..(Len(Steps) + 1)
    /\ opened \subseteq {"client", "container", "probes"} /\ balked \subseteq opened
    /\ faults \in 0..MaxFaults /\ drops \in 0..MaxDrops /\ strayed \in BOOLEAN

\* Nothing more happens of itself.
Quiet == phase = "closed" /\ \A t \in Vital : task[t] = "none" \/ t \in reported

(* Nothing is closed while a task that needs it is at work, cancelled or   *)
(* not; a stop ends every task and closes everything but what refuses; and *)
(* a process that lost its bot or its worker does not serve on without     *)
(* (shannon/runtime/lifespan.py:205-302).                                  *)
StopsInOrder ==
    /\ ~strayed
    /\ phase = "closed" /\ asked => (\A t \in Tasks : Ended(t)) /\ opened \subseteq balked
    /\ phase = "serving" /\ reported # {} => halted
==============================================================================
