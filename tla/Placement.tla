----------------------------- MODULE Placement -----------------------------
(***************************************************************************)
(* Which channel the thread of an item belongs in, and moving one that a   *)
(* change left behind.                                                     *)
(*                                                                         *)
(*   services/channels.py, services/sync/relocation.py,                    *)
(*   services/sync/threads.py, services/registration.py,                   *)
(*   services/unregistration.py, db/stores/channel_mappings.py             *)
(*                                                                         *)
(* One server, and one item, of some kind.  Pull requests have a channel   *)
(* from /register on; issues borrow it until somebody maps one for them;   *)
(* a board's tickets have one when they are given it, and cannot be read   *)
(* back from GitHub.  /set_channel changes a mapping and then moves what   *)
(* is in the wrong place, by a sync that may replace the thread; ordinary  *)
(* syncs write wherever the thread is.  Whatever waits lets others run.    *)
(***************************************************************************)
EXTENDS Naturals, Sequences

CONSTANTS
    Channels,
    Movers,      \* /set_channel commands
    Visits,      \* deliveries being handled, and passes of the poller
    MaxMappings, \* bound: /set_channel
    MaxEdits,    \* bound: changes of the item on GitHub
    MaxBreaks,   \* bound: refusals, failures, deaths, threads somebody deletes, /unregister
    MaxThreads,  \* bound: threads opened
    NULL

Kinds == {"pr", "issue", "ticket"}
Procs == Movers \cup Visits

\* What is written down of an item: its thread, the channel that is in, and GitHub's stamp.
Rows == [thread : (1..MaxThreads) \cup {NULL}, at : Channels \cup {NULL}, stamp : 0..MaxEdits]

PlacementAssumption ==
    /\ {MaxMappings, MaxEdits, MaxBreaks} \subseteq Nat /\ MaxThreads \in Nat \ {0}
    /\ Movers \cap Visits = {}
    /\ NULL \notin Nat \cup Kinds \cup Channels \cup Procs \cup Rows

VARIABLES
    kind,     \* of the item
    binding,  \* the id of the repository's row, 0 when there is none
    lastId,   \* the newest of those ids
    mapped,   \* mapped[k]: the channel written down for k, or NULL
    entry,    \* the tracked item, or NULL
    threads,  \* Discord: the threads opened, in that order
    holder,   \* who has the lock of the item
    errand,   \* errand[p]: the sync p is in
    cmd,      \* cmd[m]: the command m is in
    version,  \* GitHub's latest of the item
    unread,   \* deliveries to handle
    mappings, edits, breaks,
    unmoved,  \* history: the newest command for the kind could not move it, or was overtaken
    late,     \* history: threads attached for a mapping changed since it was read
    alone     \* history: threads nobody has, for a reason

tables  == <<binding, lastId, mapped, entry>>
hub     == <<version, unread, edits>>
history == <<unmoved, late, alone>>
placementVars ==
    <<kind, tables, threads, holder, errand, cmd, hub, mappings, breaks, history>>

Resting == [step |-> "idle", moves |-> FALSE, version |-> 0, binding |-> 0, to |-> NULL,
            old |-> NULL, oldAt |-> NULL, new |-> NULL, empty |-> FALSE]
NoOrder == [step |-> "idle", kind |-> "pr", to |-> NULL, thread |-> NULL, at |-> NULL]

\* A kind with no channel of its own goes where another kind's does.
Lender(k) == IF k = "issue" THEN "pr" ELSE NULL

InForce ==
    IF mapped[kind] # NULL \/ Lender(kind) = NULL THEN mapped[kind] ELSE mapped[Lender(kind)]

NewThread(c) == [channel |-> c, live |-> TRUE, told |-> FALSE, shut |-> FALSE]

\* Rows written before the column existed remember no channel.
Init ==
    /\ kind \in Kinds
    /\ binding = 1 /\ lastId = 1
    /\ \E c \in Channels :
          /\ mapped = [k \in Kinds |-> IF k = "issue" THEN NULL ELSE c]
          /\ \/ entry = NULL /\ threads = <<>>
             \/ /\ \E at \in {NULL, c} : entry = [thread |-> 1, at |-> at, stamp |-> 0]
                /\ threads = <<NewThread(c)>>
    /\ holder = NULL
    /\ errand = [p \in Procs |-> Resting] /\ cmd = [m \in Movers |-> NoOrder]
    /\ version = 0 /\ unread = {}
    /\ mappings = 0 /\ edits = 0 /\ breaks = 0
    /\ unmoved = FALSE /\ late = {} /\ alone = {}

Break == breaks < MaxBreaks /\ breaks' = breaks + 1

Live(t)     == t # NULL /\ threads[t].live
PointsAt(t) == entry # NULL /\ entry.thread = t
Alone(T)    == alone' = alone \cup (T \ {NULL})

(***************************************************************************)
(* The world outside.                                                      *)
(***************************************************************************)

\* A card's change is for the poller to notice.
Edit ==
    /\ edits < MaxEdits /\ edits' = edits + 1
    /\ version' = version + 1
    /\ unread' = IF kind = "ticket" THEN unread ELSE unread \cup {version + 1}
    /\ UNCHANGED <<kind, tables, threads, holder, errand, cmd, mappings, breaks, history>>

\* Somebody deletes a thread, which Discord may report.
Delete(t) ==
    /\ Break /\ threads[t].live
    /\ threads' = [threads EXCEPT ![t].live = FALSE]
    /\ \/ UNCHANGED entry
       \/ PointsAt(t) /\ entry' = [entry EXCEPT !.thread = NULL, !.at = NULL]
    /\ UNCHANGED <<kind, binding, lastId, mapped, holder, errand, cmd, hub, mappings, history>>

(***************************************************************************)
(* /register and /unregister.                                              *)
(***************************************************************************)

\* Checks and insert are one transaction, and the unique constraints settle the rest.
Register(c) ==
    /\ binding = 0
    /\ binding' = lastId + 1 /\ lastId' = lastId + 1
    /\ mapped' = [k \in Kinds |-> IF k = "pr" THEN c ELSE NULL]
    /\ UNCHANGED <<kind, entry, threads, holder, errand, cmd, hub, mappings, breaks, history>>

\* unregister() and _unbind(): the rows go with the binding, and the thread stays with nobody.
Unregister ==
    /\ Break /\ binding # 0
    /\ binding' = 0
    /\ mapped' = [k \in Kinds |-> NULL] /\ entry' = NULL
    /\ Alone(IF entry = NULL THEN {} ELSE {entry.thread})
    /\ UNCHANGED <<kind, lastId, threads, holder, errand, cmd, hub, mappings, unmoved, late>>

(***************************************************************************)
(* A sync, as much of it as has to do with where the thread is.            *)
(***************************************************************************)

Steps(p, s) == errand' = [errand EXCEPT ![p].step = s]

Freed(p) == holder' = IF holder = p THEN NULL ELSE holder

CardDue == IF entry = NULL THEN TRUE ELSE entry.thread = NULL \/ entry.stamp < version

Begin(p, v, moves) ==
    errand' = [errand EXCEPT ![p] = [Resting EXCEPT !.step = "waiting", !.version = v, !.moves = moves]]

\* A delivery is taken; or the poller mirrors a card that changed, or that has no thread.
Deliver(s) ==
    /\ errand[s].step = "idle"
    /\ \/ \E v \in unread : unread' = unread \ {v} /\ Begin(s, v, FALSE)
       \/ /\ kind = "ticket" /\ CardDue /\ mapped["ticket"] # NULL
          /\ Begin(s, version, FALSE) /\ UNCHANGED unread
    /\ UNCHANGED <<kind, tables, threads, holder, cmd, version, edits, mappings, breaks, history>>

\* A sync that raises is retried if it was a delivery's, and counted if it was a command's.
Raises(p) ==
    /\ errand' = [errand EXCEPT ![p] = Resting] /\ Freed(p)
    /\ IF p \in Movers
       THEN cmd' = [cmd EXCEPT ![p] = NoOrder] /\ unmoved' = TRUE /\ UNCHANGED unread
       ELSE /\ unread' = IF kind = "ticket" THEN unread ELSE unread \cup {errand[p].version}
            /\ UNCHANGED <<cmd, unmoved>>

\* ThreadRelocation._move(): a thread left behind is told where the item went, and everything
\* else counts as moved, what the sync turned away included.
Returns(p, left, turnedAway) ==
    /\ errand' = [errand EXCEPT ![p] = Resting] /\ Freed(p) /\ UNCHANGED unread
    /\ IF p \notin Movers THEN UNCHANGED <<cmd, unmoved>>
       ELSE IF left # NULL
       THEN cmd' = [cmd EXCEPT ![p].step = "posting", ![p].thread = left] /\ UNCHANGED unmoved
       ELSE cmd' = [cmd EXCEPT ![p] = NoOrder] /\ unmoved' = (unmoved \/ turnedAway)

NotTracked(p) == Returns(p, NULL, TRUE)

\* With the lock, _resolve() reads the channel of the kind, and if it has none reads again.
Place(p) ==
    /\ errand[p].step = "waiting" /\ holder = NULL
    /\ IF mapped[kind] = NULL /\ (Lender(kind) = NULL \/ binding = 0)
       THEN NotTracked(p)
       ELSE /\ holder' = p
            /\ errand' = [errand EXCEPT ![p].binding = binding, ![p].to = mapped[kind],
                                  ![p].step = IF mapped[kind] = NULL THEN "borrowing" ELSE "recording"]
            /\ UNCHANGED <<cmd, unread, unmoved>>
    /\ UNCHANGED <<kind, tables, threads, version, edits, mappings, breaks, late, alone>>

\* The second read may be of a mapping changed since the first.
Borrow(p) ==
    /\ errand[p].step = "borrowing"
    /\ IF errand[p].binding # binding THEN NotTracked(p)
       ELSE /\ errand' = [errand EXCEPT ![p].to = mapped[Lender(kind)], ![p].step = "recording"]
            /\ UNCHANGED <<holder, cmd, unread, unmoved>>
    /\ UNCHANGED <<kind, tables, threads, version, edits, mappings, breaks, late, alone>>

Stored(v) ==
    IF entry = NULL THEN [thread |-> NULL, at |-> NULL, stamp |-> v]
    ELSE [entry EXCEPT !.stamp = IF v > @ THEN v ELSE @]

\* The row is read locked and written; a payload behind it is turned away if there is a thread.
Record(p) ==
    LET v == errand[p].version
        stale == IF entry = NULL THEN FALSE ELSE v < entry.stamp /\ entry.thread # NULL
    IN
    /\ errand[p].step = "recording"
    /\ IF errand[p].binding # binding THEN Raises(p) /\ UNCHANGED entry
       ELSE IF stale THEN Returns(p, NULL, TRUE) /\ UNCHANGED entry
       ELSE /\ entry' = Stored(v)
            /\ errand' = [errand EXCEPT ![p].old = entry'.thread, ![p].oldAt = entry'.at,
                                        ![p].step = "writing"]
            /\ UNCHANGED <<holder, cmd, unread, unmoved>>
    /\ UNCHANGED <<kind, binding, lastId, mapped, threads, version, edits, mappings, breaks, late, alone>>

\* ThreadTarget.is_stranded.
Stranded(p) == errand[p].oldAt # NULL /\ errand[p].oldAt # errand[p].to

\* ItemThreads.write().
Write(p) ==
    /\ errand[p].step = "writing"
    /\ IF Live(errand[p].old) /\ ~(errand[p].moves /\ Stranded(p))
       THEN Returns(p, NULL, FALSE)
       ELSE Steps(p, "opening") /\ UNCHANGED <<holder, cmd, unread, unmoved>>
    /\ UNCHANGED <<kind, tables, threads, version, edits, mappings, breaks, late, alone>>

\* The thread starts, and its first message may be refused.
Open(p) ==
    /\ errand[p].step = "opening" /\ Len(threads) < MaxThreads
    /\ threads' = Append(threads, NewThread(errand[p].to))
    /\ \E empty \in BOOLEAN :
          /\ errand' = [errand EXCEPT ![p].new = Len(threads'), ![p].empty = empty, ![p].step = "claiming"]
          /\ IF empty THEN Break ELSE UNCHANGED breaks
    /\ UNCHANGED <<kind, tables, holder, cmd, hub, mappings, history>>

\* What a write that opened a thread leaves behind, when it may move one.
Displaced(p) == IF errand[p].moves /\ Stranded(p) THEN errand[p].old ELSE NULL

\* A sync that opened an empty thread raises, and says nothing of the one it left behind.
Opened(p) ==
    IF errand[p].empty
    THEN Raises(p) /\ Alone({Displaced(p)})
    ELSE Returns(p, Displaced(p), FALSE) /\ UNCHANGED alone

\* ThreadPointerStore.claim_thread(), and what _claim() makes of its answer.
Swap(p, replacing, otherwise) ==
    LET had == IF entry = NULL \/ errand[p].binding # binding THEN NULL ELSE entry.thread
        mine == entry # NULL /\ errand[p].binding = binding
    IN
    /\ IF mine /\ had = replacing
       THEN /\ entry' = [entry EXCEPT !.thread = errand[p].new, !.at = errand[p].to]
            /\ Opened(p)
            /\ late' = IF errand[p].to = InForce THEN late ELSE late \cup {errand[p].new}
       ELSE /\ Steps(p, IF had = NULL THEN otherwise ELSE "discarding")
            /\ UNCHANGED <<entry, holder, cmd, unread, unmoved, alone, late>>
    /\ UNCHANGED <<kind, binding, lastId, mapped, threads, version, edits, mappings, breaks>>

\* _claim(): from the thread the item had, and else from none.
Claim(p)      == errand[p].step = "claiming" /\ Swap(p, errand[p].old, "claiming_again")
ClaimAgain(p) == errand[p].step = "claiming_again" /\ Swap(p, NULL, "discarding")

Gone(t) == threads' = [threads EXCEPT ![t].live = FALSE]

\* Another thread is the item's, or the item has gone and the delivery is tried again.
Discard(p) ==
    /\ errand[p].step = "discarding"
    /\ Gone(errand[p].new)
    /\ IF errand[p].binding # binding THEN Raises(p) /\ Alone({Displaced(p)}) ELSE Opened(p)
    /\ UNCHANGED <<kind, tables, version, edits, mappings, breaks, late>>

\* A claim that cannot be written down is undone, as far as Discord answers.
ClaimFails(p) ==
    /\ errand[p].step \in {"claiming", "claiming_again", "discarding"} /\ Break
    /\ Raises(p)
    /\ \/ Gone(errand[p].new) /\ UNCHANGED alone
       \/ Alone({errand[p].new}) /\ UNCHANGED threads
    /\ UNCHANGED <<kind, tables, version, edits, mappings, late>>

\* The item is busy, GitHub or Discord refuses, or the database does.
Fails(p) ==
    /\ errand[p].step \in {"waiting", "recording", "writing", "opening"}
    /\ Break /\ Raises(p)
    /\ UNCHANGED <<kind, tables, threads, version, edits, mappings, late, alone>>

(***************************************************************************)
(* /set_channel: the mapping, and then what it left behind.                *)
(***************************************************************************)

Borrowers(k) == {b \in Kinds : Lender(b) = k}

\* Mutant: a borrower that has a row of its own is pinned again.
PinnedAnyway(k) == [b \in Kinds |-> IF b \in Borrowers(k) THEN mapped[k] ELSE mapped[b]]

\* _pin_the_borrowers(): a kind that borrows the channel is given it, before it changes.
Pinned(k) ==
    [b \in Kinds |-> IF b \in Borrowers(k) /\ mapped[b] = NULL THEN mapped[k] ELSE mapped[b]]

Assign(m, k, c) ==
    /\ cmd[m].step = "idle" /\ mappings < MaxMappings /\ mappings' = mappings + 1
    /\ binding # 0
    /\ mapped' = [Pinned(k) EXCEPT ![k] = c]
    /\ cmd' = [cmd EXCEPT ![m] = [NoOrder EXCEPT !.step = "listing", !.kind = k, !.to = c]]
    /\ unmoved' = (unmoved /\ k # kind)
    /\ UNCHANGED <<kind, binding, lastId, entry, threads, holder, errand, hub, breaks, late, alone>>

Done(m) == cmd' = [cmd EXCEPT ![m] = NoOrder]

\* stranded_threads(): a thread not known to be where it belongs.
List(m) ==
    /\ cmd[m].step = "listing"
    /\ IF cmd[m].kind = kind /\ entry # NULL /\ entry.thread # NULL /\ entry.at # cmd[m].to
       THEN cmd' = [cmd EXCEPT ![m].thread = entry.thread, ![m].at = entry.at,
                               ![m].step = IF entry.at = NULL THEN "asking" ELSE "moving"]
       ELSE Done(m)
    /\ UNCHANGED <<kind, tables, threads, holder, errand, hub, mappings, breaks, history>>

Whereabouts(t) == IF Live(t) THEN threads[t].channel ELSE NULL

\* _where_it_is(): Discord is asked, or will not say, which is counted as a failure.
AskDiscord(m) ==
    /\ cmd[m].step = "asking"
    /\ \/ /\ cmd' = [cmd EXCEPT ![m].step = "noting", ![m].at = Whereabouts(cmd[m].thread)]
          /\ UNCHANGED <<breaks, unmoved>>
       \/ Break /\ Done(m) /\ unmoved' = TRUE
    /\ UNCHANGED <<kind, tables, threads, holder, errand, hub, mappings, late, alone>>

\* forget_thread() and remember_channel(), both only against the thread asked about.
NoteWhere(m) ==
    LET gone == cmd[m].at = NULL IN
    /\ cmd[m].step = "noting"
    /\ entry' = IF ~PointsAt(cmd[m].thread) THEN entry
              ELSE [entry EXCEPT !.at = cmd[m].at, !.thread = IF gone THEN NULL ELSE @]
    /\ IF gone \/ cmd[m].at = cmd[m].to THEN Done(m)
       ELSE cmd' = [cmd EXCEPT ![m].step = "moving"]
    /\ UNCHANGED <<kind, binding, lastId, mapped, threads, holder, errand, hub, mappings, breaks, history>>

\* _move(): the item as GitHub has it now, through a sync that may replace the thread.
Move(m) ==
    /\ cmd[m].step = "moving" /\ kind # "ticket"
    /\ cmd' = [cmd EXCEPT ![m].step = "syncing"]
    /\ Begin(m, version, TRUE)
    /\ UNCHANGED <<kind, tables, threads, holder, hub, mappings, breaks, history>>

\* _release_for_the_poller(): a card has nothing to be read back from.
ReleaseForThePoller(m) ==
    /\ cmd[m].step = "moving" /\ kind = "ticket"
    /\ entry' = IF PointsAt(cmd[m].thread) THEN [entry EXCEPT !.thread = NULL, !.at = NULL] ELSE entry
    /\ cmd' = [cmd EXCEPT ![m].step = "posting"]
    /\ UNCHANGED <<kind, binding, lastId, mapped, threads, holder, errand, hub, mappings, breaks, history>>

Signposted(t) == [threads EXCEPT ![t].told = TRUE, ![t].shut = TRUE]

\* _say_where_it_went(): a line, and then the shut; either may be refused.
SayWhere(m) ==
    LET t == cmd[m].thread IN
    /\ cmd[m].step = "posting"
    /\ Done(m)
    /\ \/ Live(t) /\ threads' = Signposted(t) /\ UNCHANGED <<breaks, alone>>
       \/ ~Live(t) /\ UNCHANGED <<threads, breaks, alone>>
       \/ /\ Break /\ Alone({t})
          /\ \E told \in BOOLEAN : threads' = [threads EXCEPT ![t].told = @ \/ told]
    /\ UNCHANGED <<kind, tables, holder, errand, hub, mappings, unmoved, late>>

\* A process dies between any two of these, and what it had in hand is lost.
Die(p) ==
    /\ Break
    /\ \/ errand[p].step # "idle" /\ Raises(p)
       \/ /\ p \in Movers /\ errand[p].step = "idle" /\ cmd[p].step # "idle"
          /\ Done(p) /\ unmoved' = TRUE
          /\ UNCHANGED <<errand, holder, unread>>
    /\ Alone({errand[p].new} \cup IF p \in Movers THEN {cmd[p].thread} ELSE {})
    /\ UNCHANGED <<kind, tables, threads, version, edits, mappings, late>>

Visit(p) ==
    \/ Place(p) \/ Borrow(p) \/ Record(p) \/ Write(p) \/ Open(p)
    \/ Claim(p) \/ ClaimAgain(p) \/ Discard(p) \/ ClaimFails(p) \/ Fails(p) \/ Die(p)

Command(m) ==
    \/ \E k \in Kinds, c \in Channels : Assign(m, k, c)
    \/ List(m) \/ AskDiscord(m) \/ NoteWhere(m) \/ Move(m) \/ ReleaseForThePoller(m)
    \/ SayWhere(m)

Next ==
    \/ Edit
    \/ \E t \in DOMAIN threads : Delete(t)
    \/ \E c \in Channels : Register(c)
    \/ Unregister
    \/ \E s \in Visits : Deliver(s)
    \/ \E p \in Procs : Visit(p)
    \/ \E m \in Movers : Command(m)

Spec == Init /\ [][Next]_placementVars

Discussions == [channel : Channels, live : BOOLEAN, told : BOOLEAN, shut : BOOLEAN]

TypeOK ==
    /\ kind \in Kinds
    /\ binding \in {0, lastId} /\ lastId \in 1..(MaxBreaks + 1)
    /\ mapped \in [Kinds -> Channels \cup {NULL}]
    /\ entry = NULL \/ entry \in Rows
    /\ threads \in Seq(Discussions)
    /\ \A p \in Procs : holder = p <=> errand[p].step \notin {"idle", "waiting"}
    /\ \A m \in Movers : errand[m].step # "idle" <=> cmd[m].step = "syncing"
    /\ unread \subseteq 1..MaxEdits /\ unmoved \in BOOLEAN
    /\ late \subseteq DOMAIN threads /\ alone \subseteq DOMAIN threads

Quiet == (\A p \in Procs : errand[p].step = "idle") /\ \A m \in Movers : cmd[m].step = "idle"

\* Every thread is the item's, or says where the item went and is shut: none is left open that
\* nothing writes to, unless Discord or a process failed, or the server unregistered.
NoThreadLeftBehind ==
    Quiet => \A t \in DOMAIN threads :
        threads[t].live => PointsAt(t) \/ (threads[t].told /\ threads[t].shut) \/ t \in alone

\* The item's thread is in the channel its kind has now, unless the command that was to move it
\* owned up to a failure or was overtaken by a delivery, or the thread was attached for a
\* mapping read before it changed.
WhereItsKindBelongs ==
    Quiet /\ entry # NULL /\ Live(entry.thread) =>
        threads[entry.thread].channel = InForce \/ unmoved \/ entry.thread \in late
=============================================================================
