------------------------------ MODULE ItemSync ------------------------------
(***************************************************************************)
(* Mirroring one GitHub issue into its Discord thread.                     *)
(*                                                                         *)
(*   services/sync/items.py, services/sync/threads.py,                     *)
(*   services/sync/staleness.py, services/sync/one_at_a_time.py,           *)
(*   db/stores/thread_pointers.py                                          *)
(*                                                                         *)
(* The issue goes through versions 1, 2, ...; a version stands for all a   *)
(* payload says (title, people, labels, state).  Every version brings one  *)
(* delivery, named by it, which is the order the deliveries were written   *)
(* down in (webhook_events.id).  The queue hands an owed delivery to one   *)
(* sync at a time and in any order (DeliveryQueue); a command may sync the *)
(* version it fetched.  The row, the lock on it and Discord are each one   *)
(* place that every sync reads and writes, one step per transaction or     *)
(* call.  The issue policy is the one modelled: the thread is shut exactly *)
(* when the issue is closed.                                               *)
(***************************************************************************)
EXTENDS Naturals, FiniteSets

CONSTANTS
    MaxVersion,   \* bound: versions of the issue
    Stamp,        \* Stamp[v]: GitHub's updated_at of version v, in seconds
    Closed,       \* Closed[v]: whether version v is closed
    Threads,      \* ids Discord may give a thread
    Syncs,        \* syncs that may be running at once
    MaxManual,    \* bound: syncs a command asks for
    MaxDeletes,   \* bound: threads people delete
    MaxFaults,    \* bound: aborts, failed claims, refusals, lost locks
    NULL

Versions == 1 .. MaxVersion

ASSUME SyncAssumption ==
    /\ MaxVersion \in Nat
    /\ Stamp \in [Versions -> Nat]
    /\ \A v, u \in Versions : v <= u => Stamp[v] <= Stamp[u]
    /\ Closed \in [Versions -> BOOLEAN]
    /\ Threads \subseteq Nat /\ NULL \notin Threads /\ NULL \notin Syncs
    /\ MaxManual \in Nat /\ MaxDeletes \in Nat /\ MaxFaults \in Nat

VARIABLES
    gh,       \* the version GitHub is at, 0 before the issue is opened
    owed,     \* deliveries not handled yet
    stored,   \* the version the row holds, 0 while there is no row
    last,     \* last_delivery_id, 0 for null
    pointer,  \* discord_thread_id
    note,     \* discord_thread_locked: "shut", "open" or "unknown" (null)
    lock,     \* the sync holding the item's advisory lock
    live,     \* threads that exist on Discord
    used,     \* ids Discord has given
    block,    \* block[t]: the version t's block shows, 0 if there is none
    shut,     \* shut[t]: t is locked and archived
    pc,       \* pc[p]: where the sync is
    job,      \* job[p]: the version its payload carries
    manual,   \* manual[p]: a command's sync, with no delivery behind it
    target,   \* target[p]: the thread the row named when last read
    handle,   \* handle[p]: the thread the sync opened or writes to
    shown,    \* shown[p]: the version the block is rendered from
    rebuild,  \* rebuild[p]: shown was read off the row (shut_from_the_row)
    counts,   \* how often each bounded kind of event has happened
    excuses,  \* history: troubles whose effects are accepted
    lost      \* history: threads a sync left behind when it died

github  == <<gh, owed>>
row     == <<stored, last, pointer, note>>
discord == <<live, used, block, shut>>
local   == <<job, manual, target, handle, shown, rebuild>>
book    == <<counts, excuses, lost>>
vars    == <<github, row, lock, discord, pc, local, book>>

Opening == {"claim", "reclaim", "discard", "take_back"}
PCs == {"idle", "waiting", "record", "insert", "unlock", "note_open", "write",
        "closing", "settle", "shut", "note_shut", "done"} \cup Opening

Bounded == {"manual", "deletes", "faults"}

Init ==
    /\ gh = 0 /\ owed = {}
    /\ stored = 0 /\ last = 0 /\ pointer = NULL /\ note = "unknown"
    /\ lock = NULL
    /\ live = {} /\ used = {}
    /\ block   = [t \in Threads |-> 0]
    /\ shut    = [t \in Threads |-> FALSE]
    /\ pc      = [p \in Syncs |-> "idle"]
    /\ job     = [p \in Syncs |-> 0]
    /\ manual  = [p \in Syncs |-> FALSE]
    /\ target  = [p \in Syncs |-> NULL]
    /\ handle  = [p \in Syncs |-> NULL]
    /\ shown   = [p \in Syncs |-> 0]
    /\ rebuild = [p \in Syncs |-> FALSE]
    /\ counts  = [k \in Bounded |-> 0]
    /\ excuses = {} /\ lost = {}

Goto(p, where) == pc' = [pc EXCEPT ![p] = where]
Fault == /\ counts["faults"] < MaxFaults
         /\ counts' = [counts EXCEPT !["faults"] = @ + 1]

(***************************************************************************)
(* GitHub, and a sync taking up a payload and the item's lock.             *)
(***************************************************************************)

Change ==
    /\ gh < MaxVersion
    /\ gh' = gh + 1
    /\ owed' = owed \cup {gh + 1}
    /\ UNCHANGED <<row, lock, discord, pc, local, book>>

Begin(p, v, byHand) ==
    /\ pc[p] = "idle"
    /\ Goto(p, "waiting")
    /\ job'    = [job EXCEPT ![p] = v]
    /\ manual' = [manual EXCEPT ![p] = byHand]
    /\ UNCHANGED <<github, row, lock, discord, target, handle, shown, rebuild>>

Deliver(p, v) ==
    /\ v \in owed
    /\ \A q \in Syncs : job[q] = v => manual[q]
    /\ Begin(p, v, FALSE)
    /\ UNCHANGED book

\* The fetch comes before the lock, so the version may be old when it is held.
SyncByHand(p) ==
    /\ gh # 0
    /\ counts["manual"] < MaxManual
    /\ Begin(p, gh, TRUE)
    /\ counts' = [counts EXCEPT !["manual"] = @ + 1]
    /\ UNCHANGED <<excuses, lost>>

TakeLock(p) ==
    /\ pc[p] = "waiting" /\ lock = NULL
    /\ lock' = p
    /\ Goto(p, "record")
    /\ UNCHANGED <<github, row, discord, local, book>>

\* Mutant: a sync that ends by raising keeps the item.
NotReleased(p) == lock' = lock

ReleaseLock(p) == lock' = IF lock = p THEN NULL ELSE lock

\* The sync is over; what it carried is dropped.
Rest(p) ==
    /\ Goto(p, "idle")
    /\ job'     = [job EXCEPT ![p] = 0]
    /\ manual'  = [manual EXCEPT ![p] = FALSE]
    /\ target'  = [target EXCEPT ![p] = NULL]
    /\ handle'  = [handle EXCEPT ![p] = NULL]
    /\ shown'   = [shown EXCEPT ![p] = 0]
    /\ rebuild' = [rebuild EXCEPT ![p] = FALSE]
    /\ ReleaseLock(p)

\* ItemBusyError: another writer held the item for longer than the wait.
Busy(p) ==
    /\ pc[p] = "waiting" /\ lock # NULL
    /\ Rest(p)
    /\ UNCHANGED <<github, row, discord, book>>

(***************************************************************************)
(* The database half: one transaction, with the row locked.                *)
(***************************************************************************)

\* is_superseded(), with a row to compare with.
Superseded(p) ==
    \/ Stamp[job[p]] < Stamp[stored]
    \/ Stamp[job[p]] = Stamp[stored] /\ ~manual[p] /\ job[p] < last

\* _say_it() gives the thread back first when the issue is open.
AfterRecord(v, t) == IF ~Closed[v] /\ t # NULL THEN "unlock" ELSE "write"

Apply(p) ==
    /\ stored' = job[p]
    /\ last'   = IF manual[p] THEN last ELSE job[p]
    /\ shown'  = [shown EXCEPT ![p] = job[p]]
    /\ target' = [target EXCEPT ![p] = pointer]
    /\ Goto(p, AfterRecord(job[p], pointer))
    /\ UNCHANGED <<handle, rebuild>>

\* Turned away as STALE: only a lock still owed is looked at.
TurnAway(p) ==
    /\ handle' = [handle EXCEPT ![p] = pointer]
    /\ Goto(p, "settle")
    /\ UNCHANGED <<stored, last, target, shown, rebuild>>

\* No thread: one is built from the row, and the payload is not believed.
RebuildFromRow(p) ==
    /\ shown'   = [shown EXCEPT ![p] = stored]
    /\ rebuild' = [rebuild EXCEPT ![p] = TRUE]
    /\ target'  = [target EXCEPT ![p] = NULL]
    /\ Goto(p, "write")
    /\ UNCHANGED <<stored, last, handle>>

Judge(p) ==
    \/ ~Superseded(p) /\ Apply(p)
    \/ Superseded(p) /\ pointer # NULL /\ TurnAway(p)
    \/ Superseded(p) /\ pointer = NULL /\ RebuildFromRow(p)

Record(p) ==
    /\ pc[p] = "record"
    /\ IF stored # 0
       THEN Judge(p)
       ELSE /\ Goto(p, "insert")
            /\ UNCHANGED <<stored, last, target, handle, shown, rebuild>>
    /\ UNCHANGED <<github, pointer, note, lock, discord, job, manual, book>>

\* Mutant: the row another sync inserted first is taken to be this one's.
JudgeInserted(p) == Apply(p)

\* get_or_create() found or made the row; the question is asked again of it.
AskAgain(p) == IF stored = 0 THEN Apply(p) ELSE Judge(p)

Insert(p) ==
    /\ pc[p] = "insert"
    /\ AskAgain(p)
    /\ UNCHANGED <<github, pointer, note, lock, discord, job, manual, book>>

(***************************************************************************)
(* The Discord half.  What is written to the row about a thread is written *)
(* only while the row still names that thread.                             *)
(***************************************************************************)

\* Mutant: the row is written whichever thread it names.
Unguarded(t) == TRUE

Guarded(t) == pointer = t

\* Giving a deleted thread back is stepped over: the write below rebuilds it.
Unlock(p) ==
    LET t == target[p] IN
    /\ pc[p] = "unlock"
    /\ shut' = [shut EXCEPT ![t] = FALSE]
    /\ Goto(p, IF t \in live THEN "note_open" ELSE "write")
    /\ UNCHANGED <<github, row, lock, live, used, block, local, book>>

\* A permission nobody has granted is stepped over too.
UnlockRefused(p) ==
    /\ pc[p] = "unlock" /\ target[p] \in live
    /\ Fault
    /\ excuses' = excuses \cup {"refused"}
    /\ Goto(p, "write")
    /\ UNCHANGED <<github, row, lock, discord, local, lost>>

NoteTheLock(t, state) == note' = IF Guarded(t) THEN state ELSE note

NoteOpen(p) ==
    /\ pc[p] = "note_open"
    /\ NoteTheLock(target[p], "open")
    /\ Goto(p, "write")
    /\ UNCHANGED <<github, stored, last, pointer, lock, discord, local, book>>

\* An archived thread is woken before anything is written in it (_wake).
Update(p) ==
    LET t == target[p] IN
    /\ pc[p] = "write" /\ t \in live
    /\ block'  = [block EXCEPT ![t] = shown[p]]
    /\ shut'   = [shut EXCEPT ![t] = FALSE]
    /\ handle' = [handle EXCEPT ![p] = t]
    /\ Goto(p, "closing")
    /\ UNCHANGED <<github, row, lock, live, used, job, manual, target, shown,
                   rebuild, book>>

\* Ids grow.  A thread may come back open and empty: its first message was
\* refused.  Where it was rebuilt from the row, nobody is bound to write again.
Open(p, t) ==
    /\ pc[p] = "write" /\ target[p] \notin live
    /\ t \in Threads \ used /\ \A u \in Threads \ used : t <= u
    /\ live' = live \cup {t}
    /\ used' = used \cup {t}
    /\ \/ block' = [block EXCEPT ![t] = shown[p]] /\ UNCHANGED <<counts, excuses>>
       \/ /\ Fault
          /\ excuses' = excuses \cup (IF rebuild[p] THEN {"empty"} ELSE {})
          /\ UNCHANGED block
    /\ handle' = [handle EXCEPT ![p] = t]
    /\ Goto(p, "claim")
    /\ UNCHANGED <<github, row, lock, shut, job, manual, target, shown, rebuild, lost>>

\* Mutant: the pointer is written whatever it is by then.
SwapBlind(p, replacing) ==
    /\ pointer' = handle[p]
    /\ note' = "unknown"

\* claim_thread(): the pointer moves only from the thread that was replaced.
Swap(p, replacing) ==
    /\ pointer' = IF pointer = replacing THEN handle[p] ELSE pointer
    /\ note'    = IF pointer = replacing THEN "unknown" ELSE note

StartedEmpty(p) == block[handle[p]] = 0

\* The sync failed.  A delivery stays owed; nothing comes after a command.
Raise(p) ==
    /\ Rest(p)
    /\ excuses' = excuses \cup (IF manual[p] THEN {"unfinished"} ELSE {})

\* The swap went through, and the row was read back: the sync has its thread
\* (a thread that started empty is recorded and the failure raised after),
\* found the item without an owner, or was beaten by another sync.
ReadBack(p) ==
    \/ /\ pointer' = handle[p] /\ ~StartedEmpty(p)
       /\ Goto(p, "closing")
       /\ UNCHANGED <<lock, local, excuses>>
    \/ pointer' = handle[p] /\ StartedEmpty(p) /\ Raise(p)
    \/ /\ pointer' = NULL
       /\ Goto(p, "reclaim")
       /\ UNCHANGED <<lock, local, excuses>>
    \/ /\ pointer' \notin {handle[p], NULL}
       /\ target' = [target EXCEPT ![p] = pointer']
       /\ Goto(p, "discard")
       /\ UNCHANGED <<lock, job, manual, handle, shown, rebuild, excuses>>

Claim(p) ==
    /\ pc[p] = "claim"
    /\ Swap(p, target[p])
    /\ ReadBack(p)
    /\ UNCHANGED <<github, stored, last, discord, counts, lost>>

\* Somebody let go of the dead thread meanwhile, so this one takes the item.
Reclaim(p) ==
    /\ pc[p] = "reclaim"
    /\ Swap(p, NULL)
    /\ ReadBack(p)
    /\ UNCHANGED <<github, stored, last, discord, counts, lost>>

Remove(t) ==
    /\ live'  = live \ {t}
    /\ block' = [block EXCEPT ![t] = 0]
    /\ shut'  = [shut EXCEPT ![t] = FALSE]
    /\ UNCHANGED used

\* gateway.delete() swallows a refusal, and the thread stays behind.
TakeAway(p) ==
    \/ Remove(handle[p]) /\ UNCHANGED <<counts, lost>>
    \/ Fault /\ lost' = lost \cup {handle[p]} /\ UNCHANGED discord

\* Another sync attached a thread first: this one's goes, and the sync goes on
\* with that one unless its own had started empty.
Discard(p) ==
    /\ pc[p] = "discard"
    /\ TakeAway(p)
    /\ \/ /\ ~StartedEmpty(p)
          /\ handle' = [handle EXCEPT ![p] = target[p]]
          /\ Goto(p, "closing")
          /\ UNCHANGED <<lock, job, manual, target, shown, rebuild, excuses>>
       \/ StartedEmpty(p) /\ Raise(p)
    /\ UNCHANGED <<github, row>>

\* The swap raised, and may have committed before it did.
ClaimFails(p) ==
    /\ pc[p] \in {"claim", "reclaim"}
    /\ Fault
    /\ \/ Swap(p, IF pc[p] = "claim" THEN target[p] ELSE NULL)
       \/ UNCHANGED <<pointer, note>>
    /\ Goto(p, "take_back")
    /\ UNCHANGED <<github, stored, last, lock, discord, local, excuses, lost>>

TakeBack(p) ==
    /\ pc[p] = "take_back"
    /\ TakeAway(p)
    /\ Raise(p)
    /\ UNCHANGED <<github, row>>

(***************************************************************************)
(* The lock, last of all.                                                  *)
(***************************************************************************)

\* _still_current(): no newer sync has been through since this one's record.
StillCurrent(p) == Stamp[job[p]] >= Stamp[stored]

Closing(p) ==
    /\ pc[p] = "closing"
    /\ Goto(p, IF Closed[shown[p]] /\ (rebuild[p] \/ StillCurrent(p))
               THEN "shut" ELSE "done")
    /\ UNCHANGED <<github, row, lock, discord, local, book>>

\* Mutant: a delivery turned away asks for nothing.
NothingOwed == FALSE

\* What a delivery turned away still sees to, read off the row.
LockOwed == note # "shut" /\ Closed[stored]

Settle(p) ==
    /\ pc[p] = "settle"
    /\ Goto(p, IF LockOwed THEN "shut" ELSE "done")
    /\ UNCHANGED <<github, row, lock, discord, local, book>>

\* A thread that has gone by now fails the sync, and the retry rebuilds it.
Shut(p) ==
    LET t == handle[p] IN
    /\ pc[p] = "shut"
    /\ \/ /\ t \in live
          /\ shut' = [shut EXCEPT ![t] = TRUE]
          /\ Goto(p, "note_shut")
          /\ UNCHANGED <<lock, local, excuses>>
       \/ t \notin live /\ Raise(p) /\ UNCHANGED shut
    /\ UNCHANGED <<github, row, live, used, block, counts, lost>>

ShutRefused(p) ==
    /\ pc[p] = "shut" /\ handle[p] \in live
    /\ Fault
    /\ excuses' = excuses \cup {"refused"}
    /\ Goto(p, "done")
    /\ UNCHANGED <<github, row, lock, discord, local, lost>>

NoteShut(p) ==
    /\ pc[p] = "note_shut"
    /\ NoteTheLock(handle[p], "shut")
    /\ Goto(p, "done")
    /\ UNCHANGED <<github, stored, last, pointer, lock, discord, local, book>>

Finish(p) ==
    /\ pc[p] = "done"
    /\ owed' = IF manual[p] THEN owed ELSE owed \ {job[p]}
    /\ Rest(p)
    /\ UNCHANGED <<gh, row, discord, book>>

(***************************************************************************)
(* What befalls a sync, and Discord.                                       *)
(***************************************************************************)

\* A call raised, the deadline passed or the process died.  A thread being
\* opened is then in the channel with nothing pointing at it.
Abort(p) ==
    /\ pc[p] # "idle"
    /\ Fault
    /\ Raise(p)
    /\ lost' = lost \cup {t \in {handle[p]} \cap live : pc[p] \in Opening /\ pointer # t}
    /\ UNCHANGED <<github, row, discord>>

\* The connection that held the advisory lock died; the sync does not notice.
LoseLock(p) ==
    /\ lock = p
    /\ Fault
    /\ lock' = NULL
    /\ excuses' = excuses \cup {"lock_lost"}
    /\ UNCHANGED <<github, row, discord, pc, local, lost>>

Delete(t) ==
    /\ t \in live
    /\ counts["deletes"] < MaxDeletes
    /\ counts' = [counts EXCEPT !["deletes"] = @ + 1]
    /\ live' = live \ {t}
    /\ UNCHANGED <<github, row, lock, used, block, shut, pc, local, excuses, lost>>

\* forget_thread(), from Discord's report or a comment that found t gone.
Forget(t) ==
    /\ t \in used \ live
    /\ pointer # NULL
    /\ pointer' = IF Guarded(t) THEN NULL ELSE pointer
    /\ note'    = IF Guarded(t) THEN "unknown" ELSE note
    /\ UNCHANGED <<github, stored, last, lock, discord, pc, local, book>>

Environment == Change \/ \E t \in Threads : Delete(t) \/ Forget(t)

Take(p) == SyncByHand(p) \/ \E v \in Versions : Deliver(p, v)

Step(p) ==
    \/ TakeLock(p) \/ Record(p) \/ Insert(p) \/ Unlock(p) \/ NoteOpen(p)
    \/ Update(p) \/ (\E t \in Threads : Open(p, t))
    \/ Claim(p) \/ Reclaim(p) \/ Discard(p) \/ TakeBack(p)
    \/ Closing(p) \/ Settle(p) \/ Shut(p) \/ NoteShut(p) \/ Finish(p)

Trouble(p) ==
    \/ Busy(p) \/ UnlockRefused(p) \/ ShutRefused(p) \/ ClaimFails(p)
    \/ Abort(p) \/ LoseLock(p)

Next == Environment \/ \E p \in Syncs : Take(p) \/ Step(p) \/ Trouble(p)

Spec == Init /\ [][Next]_vars

\* A sync that is running goes on, and the queue hands out what is owed.
Fairness ==
    \A p \in Syncs : /\ WF_vars(Step(p))
                     /\ \A v \in Versions : SF_vars(Deliver(p, v))

FairSpec == Spec /\ Fairness

(***************************************************************************)
(* Properties.                                                             *)
(***************************************************************************)

RowKinds ==
    /\ gh \in 0 .. MaxVersion /\ owed \subseteq 1 .. gh
    /\ stored \in 0 .. MaxVersion /\ last \in 0 .. MaxVersion
    /\ note \in {"shut", "open", "unknown"}
    /\ lock \in Syncs \cup {NULL}

ThreadKinds ==
    /\ live \subseteq used /\ used \subseteq Threads
    /\ block   \in [Threads -> 0 .. MaxVersion]
    /\ shut    \in [Threads -> BOOLEAN]
    /\ pointer \in used \cup {NULL}
    /\ target  \in [Syncs -> used \cup {NULL}]
    /\ handle  \in [Syncs -> used \cup {NULL}]
    /\ lost \subseteq used

SyncKinds ==
    /\ pc      \in [Syncs -> PCs]
    /\ job     \in [Syncs -> 0 .. MaxVersion]
    /\ shown   \in [Syncs -> 0 .. MaxVersion]

FlagKinds ==
    /\ manual  \in [Syncs -> BOOLEAN]
    /\ rebuild \in [Syncs -> BOOLEAN]
    /\ counts  \in [Bounded -> Nat]
    /\ excuses \subseteq {"refused", "lock_lost", "unfinished", "empty"}

\* What a sync holds at each place: a payload once begun, something to show, a
\* thread to write to.  A sync that is not running does not hold the item.
Places ==
    /\ lock # NULL => pc[lock] \notin {"idle", "waiting"}
    /\ \A p \in Syncs :
         /\ pc[p] # "idle" => job[p] \in 1 .. gh
         /\ pc[p] \in {"unlock", "note_open"} => target[p] # NULL
         /\ pc[p] \in {"unlock", "note_open", "write", "closing"} \cup Opening => shown[p] # 0
         /\ pc[p] \in {"settle", "shut", "note_shut", "closing"} \cup Opening => handle[p] # NULL
         /\ pc[p] = "discard" => target[p] # NULL

\* Every variable has its type, and what a sync holds fits its place (ItemSync,
\* ItemThreads, ItemLock.held).
TypeOK == RowKinds /\ ThreadKinds /\ SyncKinds /\ FlagKinds /\ Places

Quiet == owed = {} /\ (\A p \in Syncs : pc[p] = "idle")

\* Once every delivery is handled the row is at GitHub's version, and its thread,
\* unless people deleted it, is there and shows that version: late, tied, retried
\* and crashed deliveries included (is_superseded, _write, ItemThreads.write).
ShownWhenQuiet ==
    Quiet /\ excuses \subseteq {"refused"} =>
        /\ stored = gh
        /\ gh # 0 /\ counts["deletes"] = 0 => pointer \in live
        /\ pointer \in live => block[pointer] = gh

\* Once every delivery is handled the thread is shut exactly when the issue is
\* closed, whatever thread it has been given since (_settle_a_lock_still_owed).
LockedWhenQuiet ==
    Quiet /\ excuses = {} /\ pointer \in live =>
        /\ shut[pointer] = Closed[gh]
        /\ note = "shut" => shut[pointer]

\* The thread ends as GitHub has the issue, in what it shows and in whether it is shut.
MirroredWhenQuiet == ShownWhenQuiet /\ LockedWhenQuiet

\* What _create_and_claim says of a thread that started empty, "the retry writes
\* into it": once every delivery is handled, the item's thread is not empty.
RetryWritesIntoIt ==
    Quiet /\ excuses \subseteq {"empty"} /\ pointer \in live => block[pointer] # 0

\* No thread is left over: one that exists is the item's, is being attached by
\* the sync that opened it, or that sync died or could not take it back.  This
\* holds with the advisory lock lost too (_claim, forget_thread).
EveryThreadIsOwned ==
    \A t \in live : \/ t = pointer
                    \/ t \in lost
                    \/ \E p \in Syncs : pc[p] \in Opening /\ handle[p] = t

\* The row never goes back to an older version, in whatever order deliveries come
\* and even for syncs that run at once (is_superseded, _resolve, _write).
NeverRollsBack == [][stored' >= stored]_vars

\* A delivery is handled in the end, unless the row names a thread that is gone
\* and nobody reported it (ItemLock.held, the retries of the queue).
EventuallyHandled ==
    \A v \in Versions : (v \in owed) ~> (v \notin owed \/ pointer \notin live \cup {NULL})
=============================================================================
