---------------------------- MODULE Conversations ----------------------------
(***************************************************************************)
(* Which threads are captured (shannon/services/transcripts/log.py): the   *)
(* rows of logged_conversations, the set of threads a process captures,    *)
(* and the notices that tell a thread what is done with its words.  One    *)
(* item, whose thread may be deleted and replaced, and one process, which  *)
(* may be restarted.  What becomes of what is kept is Transcripts.         *)
(***************************************************************************)
EXTENDS Naturals, FiniteSets

CONSTANTS
    Commands,        \* /log_conversation and /stop_conversation, one run each at a time
    MaxOrders,       \* how many are given
    Messages,
    MaxRestarts

ConversationsAssumption == MaxOrders \in Nat /\ MaxRestarts \in Nat

\* The item's thread, and the one opened in its place; 0 for none.
Threads == {1, 2}

VARIABLES
    pointer,         \* the thread the item names
    gone,            \* the threads deleted in Discord
    gateway,         \* what is done about that event: "quiet", "told", "ending", "disarming"
    open,            \* the thread of the item's open conversation
    live,            \* the threads the process captures: _live
    notice,          \* the threads told that logging is on, and not since that it is off
    at, where,       \* where each command is, and the thread it was given in
    message, said,   \* where each message is, and the thread it was said in
    told,            \* the messages said under a notice, while the set was ahead of the rows,
                     \* or where a notice of a stop had crossed a start
    orders, restarts,
    crossed,         \* the threads told last that logging is off, by a stop that began before
                     \* the start they are logged by had ended
    late,            \* the set was told of a row what was no longer so
    astray           \* a conversation opened for a thread that had gone, or one whose item
                     \* had another when the event was handled

vars == <<pointer, gone, gateway, open, live, notice, at, where, message, said, told, orders,
          restarts, crossed, late, astray>>
discord == <<pointer, gone, gateway, astray>>
command == <<at, where, orders>>
words   == <<message, said, told>>

Init ==
    /\ pointer = 1 /\ gone = {} /\ gateway = "quiet"
    /\ open = 0 /\ live = {} /\ notice = {}
    /\ at = [c \in Commands |-> "idle"] /\ where = [c \in Commands |-> 0]
    /\ message = [m \in Messages |-> "unsaid"] /\ said = [m \in Messages |-> 0]
    /\ told = {}
    /\ orders = 0 /\ restarts = 0
    /\ crossed = {} /\ late = FALSE /\ astray = FALSE

Goes(c, to) == at' = [at EXCEPT ![c] = to]

\* Whoever disarms a thread read its rows, or wrote them, a moment before.
Disarms(t) ==
    /\ live' = live \ {t}
    /\ late' = (late \/ open = t)

------------------------------------------------------------------------------
(* Starting.                                                               *)

\* The thread is looked up; the one it names goes with the command.
Order(c, t) ==
    /\ at[c] = "idle" /\ orders < MaxOrders /\ t \notin gone
    /\ orders' = orders + 1
    /\ pointer = t
    /\ \E what \in {"checking", "stopping"} : Goes(c, what)
    /\ where' = [where EXCEPT ![c] = t]
    /\ UNCHANGED <<discord, open, live, notice, crossed, words, restarts, late>>

\* Nobody is told twice, but by two commands at once.
Checks(c) ==
    /\ at[c] = "checking"
    /\ Goes(c, IF open = where[c] THEN "idle" ELSE "telling")
    /\ UNCHANGED <<discord, open, live, notice, crossed, where, orders, words, restarts, late>>

\* The notice goes in before anything is armed; a thread that takes none is not logged.
Tells(c) ==
    /\ at[c] = "telling"
    /\ \/ /\ where[c] \notin gone /\ Goes(c, "opening")
          /\ notice' = notice \cup {where[c]} /\ crossed' = crossed \ {where[c]}
       \/ Goes(c, "idle") /\ UNCHANGED <<notice, crossed>>
    /\ UNCHANGED <<discord, open, live, where, orders, words, restarts, late>>

\* An item has one open conversation.
Opens(c) ==
    /\ at[c] = "opening"
    /\ IF open = 0
       THEN /\ open' = where[c] /\ Goes(c, "arming")
            /\ astray' = (astray \/ where[c] \in gone)
       ELSE Goes(c, "idle") /\ UNCHANGED <<open, astray>>
    /\ UNCHANGED <<pointer, gone, gateway, live, notice, crossed, where, orders, words, restarts, late>>

\* After the commit, never before.
Arms(c) ==
    /\ at[c] = "arming"
    /\ live' = live \cup {where[c]}
    /\ late' = (late \/ open # where[c])
    /\ Goes(c, "idle")
    /\ UNCHANGED <<discord, open, notice, crossed, where, orders, words, restarts>>

------------------------------------------------------------------------------
(* Stopping.                                                               *)

\* The conversation is the item's, in whichever thread it was started.
Closes(c) ==
    /\ at[c] = "stopping"
    /\ open' = 0
    /\ Goes(c, IF open = 0 THEN "idle" ELSE "disarming")
    /\ UNCHANGED <<discord, live, notice, crossed, where, orders, words, restarts, late>>

DisarmsIt(c) ==
    /\ at[c] = "disarming"
    /\ Disarms(where[c])
    /\ Goes(c, "signing off")
    /\ UNCHANGED <<discord, open, notice, crossed, where, orders, words, restarts>>

\* Another command has told the thread that logging is on, and starts it or has done so.
OnAgain(t) == open = t \/ \E c \in Commands : at[c] = "opening" /\ where[c] = t

\* Whatever has been started since; a thread that does not take the notice is none the worse.
SignsOff(c) ==
    /\ at[c] = "signing off"
    /\ \/ /\ where[c] \notin gone
          /\ notice' = notice \ {where[c]}
          /\ crossed' = IF OnAgain(where[c]) THEN crossed \cup {where[c]} ELSE crossed \ {where[c]}
       \/ UNCHANGED <<notice, crossed>>
    /\ Goes(c, "idle")
    /\ UNCHANGED <<discord, open, live, where, orders, words, restarts, late>>

------------------------------------------------------------------------------
(* Capturing.                                                              *)

Moves(m, to) == message' = [message EXCEPT ![m] = to]

\* Every message of every channel is asked about, and nothing but the set answers.
IsLogging(t) == t \in live

\* capture() says that it may be so, a conversation being stopped meanwhile.
Ahead(t) == t \in live /\ open # t

\* Bots are not captured, nor what has no words.
Says(m, t, wanted) ==
    /\ message[m] = "unsaid" /\ t \notin gone /\ (t = 2 => pointer = 2)
    /\ Moves(m, IF IsLogging(t) /\ wanted THEN "caught" ELSE "let by")
    /\ said' = [said EXCEPT ![m] = t]
    /\ told' = IF t \in notice \cup crossed \/ Ahead(t) THEN told \cup {m} ELSE told
    /\ UNCHANGED <<discord, open, live, notice, crossed, command, restarts, late>>

\* The set may be ahead of the rows.
Captures(m) ==
    /\ message[m] = "caught"
    /\ Moves(m, IF open = said[m] THEN "kept" ELSE "unwanted")
    /\ UNCHANGED <<discord, open, live, notice, crossed, command, said, told, restarts, late>>

Drops(m) ==
    /\ message[m] = "unwanted"
    /\ Disarms(said[m])
    /\ Moves(m, "let by")
    /\ UNCHANGED <<discord, open, notice, crossed, command, said, told, restarts>>

------------------------------------------------------------------------------
(* A thread that goes, and a process that restarts.                        *)

Deleted ==
    /\ pointer = 1 /\ gone = {} /\ gone' = {1}
    /\ gateway' = "told"
    /\ UNCHANGED <<pointer, open, live, notice, crossed, command, words, restarts, late, astray>>

\* A delivery finds the thread gone before the event is handled, and opens another.
Rebuilt ==
    /\ 1 \in gone /\ pointer # 2 /\ pointer' = 2
    /\ UNCHANGED <<gone, gateway, open, live, notice, crossed, command, words, restarts, late, astray>>

\* The item is found by its thread, and lets go of it.
LetsGo ==
    /\ gateway = "told"
    /\ IF pointer = 1
       THEN pointer' = 0 /\ gateway' = "ending" /\ UNCHANGED astray
       ELSE gateway' = "quiet" /\ astray' = TRUE /\ UNCHANGED pointer
    /\ UNCHANGED <<gone, open, live, notice, crossed, command, words, restarts, late>>

\* Nothing stays armed against a thread that has gone.
Ends ==
    /\ gateway = "ending" /\ gateway' = "disarming"
    /\ open' = IF open = 1 THEN 0 ELSE open
    /\ UNCHANGED <<pointer, gone, live, notice, crossed, command, words, restarts, late, astray>>

DisarmsGone ==
    /\ gateway = "disarming" /\ gateway' = "quiet"
    /\ Disarms(1)
    /\ UNCHANGED <<pointer, gone, open, notice, crossed, command, words, restarts, astray>>

\* The set is left empty.
NothingReloaded == {}
Reloaded == IF open = 0 THEN {} ELSE {open}

\* The set is filled before the gateway connects, so that no message meets it half filled.
Restart ==
    /\ restarts < MaxRestarts /\ restarts' = restarts + 1
    /\ live' = Reloaded
    /\ at' = [c \in Commands |-> "idle"]
    /\ message' = [m \in Messages |->
                     IF message[m] \in {"caught", "unwanted"} THEN "let by" ELSE message[m]]
    /\ astray' = (astray \/ gateway # "quiet") /\ gateway' = "quiet"
    /\ late' = FALSE
    /\ UNCHANGED <<pointer, gone, open, notice, crossed, where, orders, said, told>>

Next ==
    \/ \E c \in Commands :
           \/ \E t \in Threads : Order(c, t)
           \/ Checks(c) \/ Tells(c) \/ Opens(c) \/ Arms(c)
           \/ Closes(c) \/ DisarmsIt(c) \/ SignsOff(c)
    \/ \E m \in Messages :
           \/ \E t \in Threads, wanted \in BOOLEAN : Says(m, t, wanted)
           \/ Captures(m) \/ Drops(m)
    \/ Deleted \/ Rebuilt \/ LetsGo \/ Ends \/ DisarmsGone \/ Restart

Spec == Init /\ [][Next]_vars

------------------------------------------------------------------------------
TypeOK ==
    /\ pointer \in 0..2 /\ open \in 0..2
    /\ gone \subseteq Threads /\ live \subseteq Threads /\ notice \cup crossed \subseteq Threads
    /\ gateway \in {"quiet", "told", "ending", "disarming"}
    /\ at \in [Commands -> {"idle", "checking", "telling", "opening", "arming", "stopping",
                            "disarming", "signing off"}]
    /\ where \in [Commands -> 0..2]
    /\ message \in [Messages -> {"unsaid", "caught", "unwanted", "kept", "let by"}]
    /\ said \in [Messages -> 0..2] /\ told \subseteq Messages
    /\ orders \in 0..MaxOrders /\ restarts \in 0..MaxRestarts
    /\ late \in BOOLEAN /\ astray \in BOOLEAN

Quiet ==
    /\ \A c \in Commands : at[c] = "idle"
    /\ \A m \in Messages : message[m] \notin {"caught", "unwanted"}
    /\ gateway = "quiet"

\* What is kept was said by people who had been told that it would be.  The excuse is the race
\* of a stop and a start: the stop's notice is posted when its row and the set are done with,
\* and may be the last a thread hears that another command has begun to log again.
NobodyUntold == \A m \in Messages : message[m] = "kept" => m \in told

\* What is said in a thread being logged is captured.
Armed == Quiet /\ open # 0 /\ ~late => open \in live

\* No thread that has gone stays armed.
NotOfTheDead == Quiet /\ open \in gone => astray

(* The rows, the set and the notices go together: nobody is captured who   *)
(* was not told, and nobody was told who is not captured, but where the    *)
(* set is ahead of the rows, heard of a row after it had changed again, or *)
(* a stop says that logging is off after another command has said that it  *)
(* is on (shannon/services/transcripts/log.py:1-5, 82-171).                *)
HeardAsTold == NobodyUntold /\ Armed /\ NotOfTheDead
==============================================================================
