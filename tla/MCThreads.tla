----------------------------- MODULE MCThreads -----------------------------
(***************************************************************************)
(* The thread of an item: that there is one, and that it shows the item    *)
(* (ItemSync), the channel it is in (Placement), and what is said in it of *)
(* checks and reviews (Verdicts); and the process all of it runs in, from  *)
(* start to stop (Process) and as /health reports it (Health).  A          *)
(* behaviour chooses which of them it is about, and the others stay as     *)
(* they were.                                                              *)
(***************************************************************************)
EXTENDS MCItemSync

CONSTANTS Channels, Movers, Visits, MaxMappings, MaxEdits, MaxBreaks, MaxThreads,
          Apps, Reviewers, Handlers, MaxPushes, MaxRuns, MaxMoves, MaxTurns, MaxTroubles,
          MaxDeaths, MaxDrops, Callers, ProbeEvery, ProbeTimeout, LastHour

VARIABLES
    part,
    kind, binding, lastId, mapped, entry, threads, holder, errand, cmd, version, unread,
    mappings, edits, breaks, unmoved, late, alone,
    topic, head, shutBy, runs, lastRun, waiting, verdict, letters, notes, lines, task, turns,
    moves, troubles, agreedOn, everAgreed, excused,
    phase, jobs, cut, reported, gateway, asked, halted, step, opened, deaths, drops, balked,
    strayed,
    now, database, worker, bot, swings, answered, failing, probedAt, reachable, probing, since,
    caller, misled, crowded

Placing == INSTANCE Placement
Saying  == INSTANCE Verdicts
Running == INSTANCE Process WITH
    MaxFaults <- MaxDeaths, task <- jobs, at <- step, faults <- deaths
Probing == INSTANCE Health WITH turns <- swings

ASSUME ThreadsAssumption ==
    /\ Placing!PlacementAssumption /\ Saying!VerdictsAssumption
    /\ Running!ProcessAssumption /\ Probing!HealthAssumption

placementAside ==
    <<kind, binding, lastId, mapped, entry, threads, holder, errand, cmd, version, unread,
      mappings, edits, breaks, unmoved, late, alone>>
verdictsAside ==
    <<topic, head, shutBy, runs, lastRun, waiting, verdict, letters, notes, lines, task, turns,
      moves, troubles, agreedOn, everAgreed, excused>>
processAside ==
    <<phase, jobs, cut, reported, gateway, asked, halted, step, opened, deaths, drops, balked,
      strayed>>
healthAside ==
    <<now, database, worker, bot, swings, answered, failing, probedAt, reachable, probing,
      since, caller, misled, crowded>>
threadsAside == <<vars, placementAside, verdictsAside>>
allVars == <<part, threadsAside, processAside, healthAside>>

ThreadsInit ==
    /\ part \in {"sync", "placement", "verdicts", "process", "health"}
    /\ Init /\ Placing!Init /\ Saying!Init /\ Running!Init /\ Probing!Init
    \* Those that may start in several ways do so where they are looked at.
    /\ part # "placement" => kind = "pr" /\ entry = NULL
    /\ part # "verdicts" => topic = "checks"
    /\ part # "health" => bot = "none"

SyncItems ==
    /\ part = "sync" /\ Next
    /\ UNCHANGED <<part, placementAside, verdictsAside, processAside, healthAside>>
PlaceThreads ==
    /\ part = "placement" /\ Placing!Next
    /\ UNCHANGED <<part, vars, verdictsAside, processAside, healthAside>>
SayVerdicts ==
    /\ part = "verdicts" /\ Saying!Next
    /\ UNCHANGED <<part, vars, placementAside, processAside, healthAside>>
Run ==
    /\ part = "process" /\ Running!Next
    /\ UNCHANGED <<part, threadsAside, healthAside>>
Probe ==
    /\ part = "health" /\ Probing!Next
    /\ UNCHANGED <<part, threadsAside, processAside>>
\* Nobody is at work, and there is nothing more to ask for.
Rested ==
    /\ CASE part = "sync" -> Quiet
         [] part = "placement" -> Placing!Quiet
         [] part = "verdicts" -> Saying!Quiet
         [] part = "process" -> Running!Quiet
         [] part = "health" -> FALSE
    /\ UNCHANGED allVars

ThreadsNext == SyncItems \/ PlaceThreads \/ SayVerdicts \/ Run \/ Probe \/ Rested

ThreadsSpec == ThreadsInit /\ [][ThreadsNext]_allVars

\* Those of a kind may change places.  The parts are given the same values, so that the
\* group is a small one: only one of them is in use at a time.
Alike == Permutations(Syncs) \cup Permutations(Channels)

\* Every variable of the part that moves has its type.
ThreadsTypeOK ==
    CASE part = "sync" -> TypeOK
      [] part = "placement" -> Placing!TypeOK
      [] part = "verdicts" -> Saying!TypeOK
      [] part = "process" -> Running!TypeOK
      [] part = "health" -> Probing!TypeOK

\* The item's thread is where its kind belongs, and no thread is left open that nothing
\* writes to.
PlacedWhenQuiet == Placing!NoThreadLeftBehind /\ Placing!WhereItsKindBelongs

\* What CI made of a commit is said once, and so is an agreement, of what was agreed on.
VerdictsAreSaid == Saying!SaidOnceWhenQuiet /\ Saying!AgreedWhenSaid

\* A stop takes nothing from a task that needs it and forgets none, and /health says what
\* lately was so.
EndsAndAnswersWell == Running!StopsInOrder /\ Probing!AnswersAsItFound
=============================================================================
