------------------------------- MODULE Notes -------------------------------
(***************************************************************************)
(* Saying things in the thread of one tracked issue.                       *)
(*                                                                         *)
(*   services/notes.py, services/sync/announcements.py,                    *)
(*   services/sync/state_lines.py, services/sync/shutting.py,              *)
(*   services/sync/locating.py, db/stores/mirrored_notes.py                *)
(*                                                                         *)
(* Two kinds of thing are said.  A note (a comment, a review) has versions *)
(* 1, 2, ...: version 1 is the delivery "created", later ones are "edited".*)
(* A line (the header that an issue closed or reopened) goes with one      *)
(* delivery of the issue itself and is never edited; the n-th delivery     *)
(* closes the issue when n is odd and reopens it when n is even.  Both are *)
(* claimed in mirrored_notes, posted, and the thread is shut again if the  *)
(* row says so.  The issue's own sync, which ItemSync models step by step, *)
(* is here its record of the row and its two writes of the lock.           *)
(***************************************************************************)
EXTENDS Naturals, Sequences, FiniteSets

CONSTANTS
    Remarks,      \* comments and reviews on the issue
    MaxVersion,   \* bound: versions of a remark
    MaxFlips,     \* bound: times the issue is closed or reopened
    Threads,      \* ids Discord may give a thread
    Workers,      \* deliveries that may be handled at once
    MaxFaults,    \* bound: failures, lost answers, dead workers
    MaxPeople,    \* bound: threads and messages people delete, threads they
                  \* tell to keep quiet or to speak
    NULL

Flips == 1 .. MaxFlips
Keys  == Remarks \cup Flips

ASSUME NotesAssumption ==
    /\ Remarks \cap Nat = {}
    /\ MaxVersion \in Nat /\ MaxFlips \in Nat
    /\ Threads \subseteq Nat /\ NULL \notin Threads /\ NULL \notin Workers
    /\ NULL \notin Keys
    /\ MaxFaults \in Nat /\ MaxPeople \in Nat

VARIABLES
    version,  \* version[k]: versions GitHub has sent of k, 0 before the first
    owed,     \* deliveries <<k, v>> not handled yet
    stored,   \* the delivery of the issue the row was last written from
    pointer,  \* discord_thread_id
    note,     \* discord_thread_locked: "shut", "open" or "unknown" (null)
    speaks,   \* the thread wants comments and state changes said (tracking)
    claimed,  \* keys with a row in mirrored_notes
    message,  \* message[k]: which of posted[k] the row remembers, 0 for null
    lock,     \* the worker holding the item's advisory lock
    live,     \* threads that exist on Discord
    used,     \* ids Discord has given
    shut,     \* shut[t]: t is locked and archived
    posted,   \* posted[k]: the messages k was posted as, in order
    pc,       \* pc[p]: where the worker is
    job,      \* job[p]: the delivery in its hands
    thread,   \* thread[p]: the thread it read off the row
    picked,   \* picked[p]: the message it wrote or means to rewrite
    refused,  \* refused[p]: Discord would not shut the thread for it
    faults,   \* how many faults there have been
    people,   \* how often people have done something
    excuses   \* history: <<reason, k>>, troubles whose effects are accepted

github  == <<version, owed>>
row     == <<stored, pointer, note, speaks>>
claims  == <<claimed, message>>
discord == <<live, used, shut, posted>>
local   == <<job, thread, picked, refused>>
book    == <<faults, people, excuses>>
vars    == <<github, row, claims, lock, discord, pc, local, book>>

\* Where the claim is held and nothing is known to have been said.
HandingBack == {"back_gone", "back_refused", "back_failed"}
Holding     == {"post"} \cup HandingBack

PCs == {"idle", "sync", "write", "turned_away", "set_lock", "note_lock", "look", "locate", "claim",
        "forget", "remember", "again", "shut_again", "read_message",
        "revise"} \cup Holding

Reasons == {"stuck", "moved", "quiet", "refused", "overlap", "forgot", "early",
            "unshut", "woken", "raced", "half"}

Closed(n) == n % 2 = 1
Nobody    == <<NULL, 0>>
IsLine(p) == job[p][1] \in Flips
Key(p)    == job[p][1]

Init ==
    /\ version = [k \in Keys |-> 0] /\ owed = {}
    /\ stored = 0 /\ note = "unknown" /\ speaks = TRUE
    /\ claimed = {} /\ message = [k \in Keys |-> 0]
    /\ lock = NULL
    /\ pointer \in Threads /\ \A t \in Threads : pointer <= t
    /\ live = {pointer} /\ used = {pointer}
    /\ shut    = [t \in Threads |-> FALSE]
    /\ posted  = [k \in Keys |-> <<>>]
    /\ pc      = [p \in Workers |-> "idle"]
    /\ job     = [p \in Workers |-> Nobody]
    /\ thread  = [p \in Workers |-> NULL]
    /\ picked  = [p \in Workers |-> 0]
    /\ refused = [p \in Workers |-> FALSE]
    /\ faults = 0 /\ people = 0
    /\ excuses = {}

Goto(p, where) == pc' = [pc EXCEPT ![p] = where]
Fault  == faults < MaxFaults /\ faults' = faults + 1 /\ UNCHANGED people
Person == people < MaxPeople /\ people' = people + 1 /\ UNCHANGED faults
Excuse(reasons, k) == excuses' = excuses \cup {<<r, k>> : r \in reasons}

(***************************************************************************)
(* GitHub, and a worker taking up a delivery.                              *)
(***************************************************************************)

\* The issue closes and reopens in order; its deliveries are handled in any.
Arrive(k) ==
    /\ \/ k \in Remarks /\ version[k] < MaxVersion
       \/ k \in Flips /\ version[k] = 0 /\ \A n \in Flips : n < k => version[n] = 1
    /\ version' = [version EXCEPT ![k] = @ + 1]
    /\ owed' = owed \cup {<<k, version[k] + 1>>}
    /\ UNCHANGED <<row, claims, lock, discord, pc, local, book>>

Begin(p, d) ==
    /\ pc[p] = "idle" /\ d \in owed
    /\ job' = [job EXCEPT ![p] = d]
    /\ Goto(p, IF d[1] \in Flips THEN "sync" ELSE "locate")
    /\ UNCHANGED <<github, row, claims, lock, discord, thread, picked, refused>>

Deliver(p, d) ==
    /\ \A q \in Workers : job[q] # d
    /\ Begin(p, d)
    /\ UNCHANGED book

\* A lease ran out on a worker that goes on: two handle one delivery.
DeliverAgain(p, d) ==
    /\ \E q \in Workers : job[q] = d
    /\ Begin(p, d)
    /\ Fault /\ Excuse({"overlap"}, d[1])

\* Mutant: a sync that ends by raising keeps the item.
NotReleased(p) == lock' = lock

ReleaseLock(p) == lock' = IF lock = p THEN NULL ELSE lock

\* The handler is left, by returning or by raising; the worker is free.
Rest(p) ==
    /\ Goto(p, "idle")
    /\ job'     = [job EXCEPT ![p] = Nobody]
    /\ thread'  = [thread EXCEPT ![p] = NULL]
    /\ picked'  = [picked EXCEPT ![p] = 0]
    /\ refused' = [refused EXCEPT ![p] = FALSE]
    /\ ReleaseLock(p)

\* Handled, or refused for good: the delivery is owed no more.
Finish(p) == Rest(p) /\ owed' = owed \ {job[p]} /\ UNCHANGED version

\* It raised and is handled again from the top.
Raise(p) == Rest(p) /\ UNCHANGED github

(***************************************************************************)
(* The issue's sync, as far as what is said depends on it.                 *)
(***************************************************************************)

\* A line's sync carries its delivery; a rebuild fetches the issue as it is.
Carried(p) == IF IsLine(p) THEN Key(p)
              ELSE Cardinality({n \in Flips : version[n] = 1})

\* The sync is over: a line is said next, and a note is handled again.
Synced(p, t, openAgainstOrders) ==
    IF IsLine(p)
    THEN /\ Goto(p, "look")
         /\ ReleaseLock(p)
         /\ thread'  = [thread EXCEPT ![p] = t]
         /\ refused' = [refused EXCEPT ![p] = openAgainstOrders]
         /\ UNCHANGED <<github, job, picked>>
    ELSE Raise(p)

\* A delivery that is superseded writes nothing while the row names a thread,
\* and sees only to a lock still owed.
Record(p) ==
    LET late == Carried(p) < stored IN
    /\ pc[p] = "sync" /\ lock = NULL
    /\ lock' = p
    /\ stored' = IF late THEN stored ELSE Carried(p)
    /\ thread' = [thread EXCEPT ![p] = pointer]
    /\ Goto(p, IF (~late \/ pointer = NULL) THEN "write"
               ELSE IF Closed(stored) /\ note # "shut" THEN "set_lock"
               ELSE "turned_away")
    /\ UNCHANGED <<github, pointer, note, speaks, claims, discord, job, picked,
                   refused, book>>

TurnAway(p) ==
    /\ pc[p] = "turned_away"
    /\ Synced(p, thread[p], FALSE)
    /\ UNCHANGED <<row, claims, discord, book>>

\* ItemBusyError: another sync of this issue holds it.
Busy(p) ==
    /\ pc[p] = "sync" /\ lock # NULL
    /\ Raise(p)
    /\ UNCHANGED <<row, claims, discord, book>>

\* A worker that has read off the row that the thread is to be shut.
AboutToShut(t) == \E q \in Workers : pc[q] = "shut_again" /\ thread[q] = t

\* The block is written, in a thread that is awake: given back if the issue is
\* open, reopened to write to if it is closed.
Write(p) ==
    LET t == thread[p] IN
    /\ pc[p] = "write" /\ t \in live
    /\ shut' = [shut EXCEPT ![t] = FALSE]
    /\ Goto(p, IF Closed(stored) THEN "set_lock" ELSE "note_lock")
    /\ Excuse(IF ~Closed(stored) /\ AboutToShut(t) THEN {"raced"} ELSE {}, Key(p))
    /\ UNCHANGED <<github, row, claims, lock, live, used, posted, local, faults, people>>

\* Under the item's lock nobody else attaches a thread meanwhile (ItemSync).
Open(p, t) ==
    /\ pc[p] = "write" /\ thread[p] \notin live
    /\ t \in Threads \ used /\ \A u \in Threads \ used : t <= u
    /\ live' = live \cup {t} /\ used' = used \cup {t}
    /\ pointer' = t /\ note' = "unknown"
    /\ IF Closed(stored)
       THEN /\ Goto(p, "set_lock")
            /\ thread' = [thread EXCEPT ![p] = t]
            /\ UNCHANGED <<github, lock, job, picked, refused>>
       ELSE Synced(p, t, FALSE)
    /\ UNCHANGED <<stored, speaks, claims, shut, posted, book>>

SetLock(p) ==
    LET t == thread[p] IN
    /\ pc[p] = "set_lock"
    /\ \/ /\ t \in live
          /\ shut' = [shut EXCEPT ![t] = TRUE]
          /\ Goto(p, "note_lock")
          /\ UNCHANGED <<github, lock, local>>
       \/ t \notin live /\ Raise(p) /\ UNCHANGED shut
    /\ UNCHANGED <<row, claims, live, used, posted, book>>

LockRefused(p) ==
    /\ pc[p] = "set_lock" /\ thread[p] \in live
    /\ Fault /\ Excuse({"unshut"}, Key(p))
    /\ Synced(p, thread[p], TRUE)
    /\ UNCHANGED <<row, claims, discord>>

NoteLock(p) ==
    /\ pc[p] = "note_lock"
    /\ note' = IF pointer # thread[p] THEN note
               ELSE IF Closed(stored) THEN "shut" ELSE "open"
    /\ Synced(p, thread[p], FALSE)
    /\ UNCHANGED <<stored, pointer, speaks, claims, discord, book>>

(***************************************************************************)
(* Where to say it, and whether.                                           *)
(***************************************************************************)

\* StateLine.say(): unless the issue has moved on, or the thread keeps quiet; a
\* thread that could not be shut is told of all the same.
Look(p) ==
    LET moved == Closed(stored) # Closed(Key(p))
        told  == speaks \/ (refused[p] /\ note # "shut" /\ Closed(Key(p))) IN
    /\ pc[p] = "look"
    /\ IF ~moved /\ told
       THEN Goto(p, "claim") /\ UNCHANGED <<github, lock, local, excuses>>
       ELSE Finish(p) /\ Excuse({IF moved THEN "moved" ELSE "quiet"}, Key(p))
    /\ UNCHANGED <<row, claims, discord, faults, people>>

\* An item without a thread raises ItemNotReadyError and is rebuilt.
Locate(p) ==
    /\ pc[p] = "locate"
    /\ \/ /\ pointer = NULL
          /\ Goto(p, "sync")
          /\ UNCHANGED <<github, lock, local, excuses>>
       \/ /\ pointer # NULL /\ speaks
          /\ thread' = [thread EXCEPT ![p] = pointer]
          /\ Goto(p, "claim")
          /\ UNCHANGED <<github, lock, job, picked, refused, excuses>>
       \/ /\ pointer # NULL /\ ~speaks
          /\ Finish(p) /\ Excuse({"quiet"}, Key(p))
    /\ UNCHANGED <<row, claims, discord, faults, people>>

(***************************************************************************)
(* Claim, post, remember.                                                  *)
(***************************************************************************)

\* Mutant: posted first and recorded after.
ClaimAnyway(k) == TRUE

\* The insert that settles who posts: on_conflict_do_nothing.
Unclaimed(k) == k \notin claimed

\* What is claimed already is in the thread: only an edit has more to do.
IsEdit(p) == job[p][2] > 1

Claim(p) ==
    /\ pc[p] = "claim"
    /\ \/ /\ Unclaimed(Key(p))
          /\ claimed' = claimed \cup {Key(p)}
          /\ Goto(p, "post")
          /\ UNCHANGED <<github, lock, local>>
       \/ /\ ~Unclaimed(Key(p)) /\ IsEdit(p)
          /\ Goto(p, "read_message")
          /\ UNCHANGED <<github, claimed, lock, local>>
       \/ /\ ~Unclaimed(Key(p)) /\ ~IsEdit(p)
          /\ Finish(p) /\ UNCHANGED claimed
    /\ UNCHANGED <<row, message, discord, book>>

\* The claim committed and the worker never learned it.
ClaimLost(p) ==
    /\ pc[p] = "claim" /\ Unclaimed(Key(p))
    /\ Fault /\ Excuse({"stuck"}, Key(p))
    /\ claimed' = claimed \cup {Key(p)}
    /\ Raise(p)
    /\ UNCHANGED <<row, message, discord>>

\* _wake(): every write reopens an archived thread first.
Wake(t) == shut' = [shut EXCEPT ![t] = FALSE]

\* The message lands, in a thread woken for it.
Land(p, heard) ==
    /\ posted' = [posted EXCEPT ![Key(p)] = Append(@,
                    [version |-> job[p][2], thread |-> thread[p], heard |-> heard])]
    /\ Wake(thread[p])

\* A line's message is not remembered: it is never edited.
Post(p) ==
    /\ pc[p] = "post" /\ thread[p] \in live
    /\ Land(p, TRUE)
    /\ picked' = [picked EXCEPT ![p] = Len(posted[Key(p)]) + 1]
    /\ Goto(p, IF IsLine(p) THEN "again" ELSE "remember")
    /\ UNCHANGED <<github, row, claims, lock, live, used, job, thread, refused, book>>

\* The call failed or was cancelled, before or after the message was there.
PostLost(p) ==
    /\ pc[p] = "post" /\ thread[p] \in live
    /\ Fault
    /\ \/ Land(p, FALSE) /\ Excuse({"half"}, Key(p))
       \/ Wake(thread[p]) /\ Excuse({"half"}, Key(p)) /\ UNCHANGED posted
       \/ UNCHANGED <<shut, posted, excuses>>
    /\ Goto(p, "back_failed")
    /\ UNCHANGED <<github, row, claims, lock, live, used, local>>

PostRefused(p) ==
    /\ pc[p] = "post"
    /\ Fault
    /\ Goto(p, "back_refused")
    /\ UNCHANGED <<github, row, claims, lock, discord, local, excuses>>

\* Only a note lets go of the thread; a line's retry syncs the issue first.
PostGone(p) ==
    /\ pc[p] = "post" /\ thread[p] \notin live
    /\ Goto(p, IF IsLine(p) THEN "back_failed" ELSE "back_gone")
    /\ UNCHANGED <<github, row, claims, lock, discord, local, book>>

\* The failure that led here is raised once the claim is back.
OnwardFrom(p) ==
    \/ /\ pc[p] = "back_gone"
       /\ Goto(p, "forget")
       /\ UNCHANGED <<github, lock, local>>
    \/ pc[p] = "back_refused" /\ Finish(p)
    \/ pc[p] = "back_failed" /\ Raise(p)

\* Mutant: the claim is kept although nothing was said.
KeepClaim(k) == claimed' = claimed

Release(k) == claimed' = claimed \ {k}

HandBack(p) ==
    /\ pc[p] \in HandingBack
    /\ Release(Key(p))
    /\ message' = [message EXCEPT ![Key(p)] = 0]
    /\ OnwardFrom(p)
    /\ Excuse(IF pc[p] = "back_refused" THEN {"refused"} ELSE {}, Key(p))
    /\ UNCHANGED <<row, discord, faults, people>>

\* _hand_back() swallows its own failure, and says what it cost.
HandBackFails(p) ==
    /\ pc[p] \in HandingBack
    /\ Fault /\ Excuse({"stuck"}, Key(p))
    /\ OnwardFrom(p)
    /\ UNCHANGED <<row, claims, discord>>

\* Mutant: the pointer is cleared whichever thread it names by now.
NamesSome(t) == pointer # NULL

Names(t) == pointer = t

Forget(t) ==
    /\ pointer' = IF Names(t) THEN NULL ELSE pointer
    /\ note'    = IF Names(t) THEN "unknown" ELSE note

\* The note that found its thread gone lets go of it, and has it rebuilt.
ForgetThread(p) ==
    /\ pc[p] = "forget"
    /\ Forget(thread[p])
    /\ Goto(p, "sync")
    /\ UNCHANGED <<github, stored, speaks, claims, lock, discord, local, book>>

Remember(p) ==
    /\ pc[p] = "remember"
    /\ message' = [message EXCEPT ![Key(p)] = IF Key(p) \in claimed THEN picked[p] ELSE @]
    /\ Goto(p, "again")
    /\ UNCHANGED <<github, row, claimed, lock, discord, local, book>>

(***************************************************************************)
(* An edit, and the lock put back.                                         *)
(***************************************************************************)

ReadMessage(p) ==
    /\ pc[p] = "read_message"
    /\ IF message[Key(p)] = 0
       THEN Finish(p) /\ Excuse({"early"}, Key(p))
       ELSE /\ picked' = [picked EXCEPT ![p] = message[Key(p)]]
            /\ Goto(p, "revise")
            /\ UNCHANGED <<github, lock, job, thread, refused, excuses>>
    /\ UNCHANGED <<row, claims, discord, faults, people>>

StillThere(p) == posted[Key(p)][picked[p]].thread = thread[p]

\* The thread is woken before the message is looked for, and a message that has
\* been deleted ends the delivery there.
Revise(p) ==
    /\ pc[p] = "revise" /\ thread[p] \in live
    /\ Wake(thread[p])
    /\ IF StillThere(p)
       THEN /\ posted' = [posted EXCEPT ![Key(p)][picked[p]].version = job[p][2]]
            /\ Goto(p, "again")
            /\ UNCHANGED <<github, lock, local, excuses>>
       ELSE /\ Finish(p) /\ Excuse({"woken"}, Key(p))
            /\ UNCHANGED posted
    /\ UNCHANGED <<row, claims, live, used, faults, people>>

\* ThreadNotFoundError is raised as it is: nothing is rebuilt for an edit.
ReviseGone(p) ==
    /\ pc[p] = "revise" /\ thread[p] \notin live
    /\ Raise(p)
    /\ UNCHANGED <<row, claims, discord, book>>

ReviseFails(p) ==
    /\ pc[p] = "revise" /\ thread[p] \in live
    /\ Fault
    /\ shut' = shut \/ Wake(thread[p])
    /\ \/ Raise(p) /\ Excuse({"half"}, Key(p))
       \/ Finish(p) /\ Excuse({"half", "refused"}, Key(p))
    /\ UNCHANGED <<row, claims, live, used, posted>>

\* The row is asked, not the caller (_should_be_shut).
RowSaysShut == note = "shut"

BeingNoted(t) == \E q \in Workers : pc[q] = "note_lock" /\ thread[q] = t

Again(p) ==
    /\ pc[p] = "again"
    /\ IF RowSaysShut
       THEN Goto(p, "shut_again") /\ UNCHANGED <<github, lock, local>>
       ELSE Finish(p)
    /\ Excuse(IF BeingNoted(thread[p]) THEN {"raced"} ELSE {}, Key(p))
    /\ UNCHANGED <<row, claims, discord, faults, people>>

\* A thread that is gone by now is a refusal, and refusals are swallowed.
ShutAgain(p) ==
    /\ pc[p] = "shut_again"
    /\ \/ thread[p] \in live /\ shut' = [shut EXCEPT ![thread[p]] = TRUE]
       \/ thread[p] \notin live /\ UNCHANGED shut
    /\ Finish(p)
    /\ UNCHANGED <<row, claims, live, used, posted, book>>

ShutAgainRefused(p) ==
    /\ pc[p] = "shut_again"
    /\ Fault /\ Excuse({"unshut"}, Key(p))
    /\ Finish(p)
    /\ UNCHANGED <<row, claims, discord>>

(***************************************************************************)
(* What befalls a worker, and Discord.                                     *)
(***************************************************************************)

\* What it costs to stop at a place where nothing is undone.  A line's sync is
\* done again; a rebuild a note asked for is not, once the thread is there.
Cost(p) ==
    CASE pc[p] \in Holding                                  -> {"stuck"}
      [] pc[p] = "remember"                                 -> {"forgot", "unshut"}
      [] pc[p] \in {"again", "shut_again"}                  -> {"unshut"}
      [] pc[p] \in {"set_lock", "note_lock"} /\ IsLine(p)   -> {"half"}
      [] pc[p] \in {"set_lock", "note_lock"} /\ ~IsLine(p)  -> {"unshut"}
      [] OTHER                                              -> {}

\* The process died, or a call raised where no handler gives anything back.
Abort(p) ==
    /\ pc[p] # "idle"
    /\ Fault /\ Excuse(Cost(p), Key(p))
    /\ Raise(p)
    /\ UNCHANGED <<row, claims, discord>>

Delete(t) ==
    /\ t \in live
    /\ Person
    /\ live' = live \ {t}
    /\ UNCHANGED <<github, row, claims, lock, used, shut, posted, pc, local, excuses>>

DeleteMessage(k, i) ==
    /\ posted[k][i].thread # NULL
    /\ Person
    /\ posted' = [posted EXCEPT ![k][i].thread = NULL]
    /\ UNCHANGED <<github, row, claims, lock, live, used, shut, pc, local, excuses>>

\* Discord reports a deleted thread to Container.forget_thread.
Report(t) ==
    /\ t \in used \ live /\ pointer = t
    /\ Forget(t)
    /\ UNCHANGED <<github, stored, speaks, claims, lock, discord, pc, local, book>>

\* Somebody turns the thread's comments and state changes off, or on.
Toggle ==
    /\ Person
    /\ speaks' = ~speaks
    /\ UNCHANGED <<github, stored, pointer, note, claims, lock, discord, pc, local, excuses>>

Environment ==
    \/ \E k \in Keys : Arrive(k) \/ \E i \in DOMAIN posted[k] : DeleteMessage(k, i)
    \/ \E t \in Threads : Delete(t) \/ Report(t)
    \/ Toggle

Deliveries == Keys \X (1 .. MaxVersion)

Sync(p) ==
    \/ Record(p) \/ TurnAway(p) \/ Write(p) \/ (\E t \in Threads : Open(p, t))
    \/ SetLock(p) \/ NoteLock(p)

Say(p) ==
    \/ Look(p) \/ Locate(p) \/ Claim(p) \/ Post(p) \/ PostGone(p) \/ HandBack(p)
    \/ ForgetThread(p) \/ Remember(p) \/ ReadMessage(p) \/ Revise(p)
    \/ ReviseGone(p) \/ Again(p) \/ ShutAgain(p)

Trouble(p) ==
    \/ Busy(p) \/ LockRefused(p) \/ ClaimLost(p) \/ PostLost(p) \/ PostRefused(p)
    \/ HandBackFails(p) \/ ReviseFails(p) \/ ShutAgainRefused(p) \/ Abort(p)
    \/ \E d \in Deliveries : DeliverAgain(p, d)

Next ==
    \/ Environment
    \/ \E p \in Workers : \/ \E d \in Deliveries : Deliver(p, d)
                          \/ Sync(p) \/ Say(p) \/ Trouble(p)

Spec == Init /\ [][Next]_vars

(***************************************************************************)
(* Properties.                                                             *)
(***************************************************************************)

RowKinds ==
    /\ stored \in 0 .. MaxFlips
    /\ pointer \in used \cup {NULL}
    /\ note \in {"shut", "open", "unknown"} /\ speaks \in BOOLEAN
    /\ lock \in Workers \cup {NULL}
    /\ live \subseteq used /\ used \subseteq Threads
    /\ shut \in [Threads -> BOOLEAN]

Messages == [version : Nat, thread : Threads \cup {NULL}, heard : BOOLEAN]

NoteKinds ==
    /\ version \in [Keys -> Nat]
    /\ owed \subseteq Keys \X (Nat \ {0})
    /\ claimed \subseteq Keys /\ message \in [Keys -> Nat]
    /\ posted \in [Keys -> Seq(Messages)]

WorkerKinds ==
    /\ pc \in [Workers -> PCs]
    /\ job \in [Workers -> (Keys \X (Nat \ {0})) \cup {Nobody}]
    /\ thread  \in [Workers -> used \cup {NULL}]
    /\ picked  \in [Workers -> Nat]
    /\ refused \in [Workers -> BOOLEAN]

BookKinds ==
    /\ faults \in Nat /\ people \in Nat
    /\ excuses \subseteq Reasons \X Keys

\* A worker at work has a delivery, and a thread once it writes there; only a
\* sync holds the item's lock, and the row remembers only what was posted.
Places ==
    /\ \A p \in Workers :
         /\ pc[p] # "idle" => job[p] \in Keys \X (Nat \ {0})
         /\ pc[p] \in {"set_lock", "note_lock", "forget", "remember", "again",
                       "shut_again", "revise"} \cup Holding => thread[p] # NULL
    /\ lock # NULL => pc[lock] \in {"write", "turned_away", "set_lock", "note_lock"}
    /\ \A k \in Keys : message[k] <= Len(posted[k])

\* Every variable has its type, and what a worker holds fits its place
\* (ItemNoteMirror._post, ClaimedLine.say_once, MirroredNoteStore).
TypeOK == RowKinds /\ NoteKinds /\ WorkerKinds /\ BookKinds /\ Places

Heard(k)   == \E i \in DOMAIN posted[k] : posted[k][i].heard
Excused(k, reasons) == \E r \in reasons : <<r, k>> \in excuses
Quiet      == owed = {} /\ \A p \in Workers : pc[p] = "idle"

\* Once a message is known to be there nothing more is posted for the same note
\* or line: not by the delivery handled again, not by a second worker with the
\* same delivery, not by an edit beside the creation (claim, then post).
SaidOnce == [][\A k \in Keys : Heard(k) => Len(posted'[k]) = Len(posted[k])]_vars

\* Between claim and outcome one worker has a note or line.
OneHolder ==
    \A p, q \in Workers :
        p # q /\ pc[p] \in Holding /\ pc[q] \in Holding => Key(p) # Key(q)

\* Once every delivery is handled each note and line has been said, unless its
\* claim was left behind, the thread was told to keep quiet, the issue had moved
\* on, Discord refused for good or two workers had the delivery.
SaidWhenQuiet ==
    Quiet => \A k \in Keys : \/ version[k] = 0
                             \/ posted[k] # <<>>
                             \/ Excused(k, {"stuck", "quiet", "moved", "refused", "overlap"})

\* The pointer to a thread that exists is never dropped or replaced by what a
\* worker learned of another one (forget_thread, guarded on the dead id).
LiveThreadKept == [][pointer' # pointer => pointer \notin live]_vars

ShowsNewest(k) ==
    /\ message[k] \in DOMAIN posted[k]
    /\ LET m == posted[k][message[k]] IN m.thread \in live => m.version = version[k]

\* Once every delivery is handled the message the row remembers shows the newest
\* version of the note, if the message is still there and the note had one edit.
NewestWhenQuiet ==
    Quiet => \A k \in Remarks : \/ version[k] \notin 1 .. 2
                                \/ Excused(k, Reasons \ {"woken", "raced", "unshut", "half"})
                                \/ ShowsNewest(k)

\* What _revise() says, "an edit needs no guard of its own to be safe", of a note
\* edited any number of times.
EditNeedsNoGuard ==
    Quiet /\ excuses = {} => \A k \in Remarks : version[k] # 0 => ShowsNewest(k)

\* Its message was refused halfway, and it was given up before a retry landed.
GivenUpHalfway(k) ==
    Excused(k, {"half"}) /\ Excused(k, {"stuck", "quiet", "moved", "refused", "overlap"})

\* Once every delivery is handled the thread is shut exactly when the row says
\* so, however many messages have opened it (KeepsThreadsShut.again).  Excused:
\* shutting it was refused, an edit woke it for a message that had been deleted,
\* or the lock was moved by the issue's sync between the reading and the shutting.
ShutWhenQuiet ==
    \/ ~Quiet
    \/ \E k \in Keys : Excused(k, {"unshut", "raced", "woken"}) \/ GivenUpHalfway(k)
    \/ pointer \in live /\ note # "unknown" => (shut[pointer] <=> note = "shut")

\* The newest version is what is shown, in a thread that is shut when it should be.
MirroredWhenQuiet == NewestWhenQuiet /\ ShutWhenQuiet

=============================================================================
