----------------------------- MODULE Installations -----------------------------
(***************************************************************************)
(* Which installation of the App covers an account, and the tokens minted  *)
(* for it.                                                                 *)
(*                                                                         *)
(*   github/installations.py, github/webhooks/installations.py,            *)
(*   db/stores/installations.py, services/registration.py                  *)
(*                                                                         *)
(* One account.  The App is installed on it, paused, resumed and removed   *)
(* on GitHub, and each of these sends a delivery, which the queue may hand *)
(* over late, out of order, or never.  Every request to GitHub asks for a  *)
(* token first, and a wait of that asking - for the database, for a lock,  *)
(* for GitHub - lets the others run.                                       *)
(***************************************************************************)
EXTENDS Naturals, FiniteSets

CONSTANTS
    Callers,     \* tasks that ask for a token
    MaxChanges,  \* bound: changes of the installation on GitHub
    MaxCalls,    \* bound: tokens asked for, and /register
    MaxBreaks,   \* bound: requests and writes that fail, deliveries that are lost
    NULL

InstallationsAssumption ==
    {MaxChanges, MaxCalls, MaxBreaks} \subseteq Nat /\ NULL \notin Nat \cup Callers

Numbers == 1..(MaxChanges + 1)

VARIABLES
    app,       \* GitHub: the installation, its id 0 when there is none
    lastId,    \* GitHub: the newest id; a reinstall brings another
    mail,      \* deliveries not handled yet
    entry,     \* the row in github_installations, or NULL
    minted,    \* minted[i]: the token kept, "fresh", "due" within REFRESH_MARGIN of its end, or NULL
    call,      \* call[c]: the token_for() of c
    discovery, \* who has the discovery lock, or NULL
    minting,   \* minting[i]: who has the lock of i, or NULL
    signup,    \* the /register that wrote down what covers the account
    changes, calls, breaks,
    learnt,    \* history: the ids GitHub has told a caller are gone, and nobody wrote since
    spent,     \* history: a token was minted while a fresh one was kept
    muddled    \* history: the row may be behind for good: a delivery was lost or overtaken, or
               \* somebody wrote what GitHub had said before a change

hub  == <<app, lastId, changes>>
kept == <<entry, minted>>
installationVars ==
    <<hub, mail, kept, call, discovery, minting, signup, calls, breaks, learnt, spent, muddled>>

None == [id |-> 0, paused |-> FALSE]
Idle == [step |-> "idle", says |-> NULL, id |-> 0, found |-> None, as |-> 0]

Init ==
    /\ app = [id |-> 1, paused |-> FALSE] /\ lastId = 1
    /\ mail = {}
    /\ entry \in {NULL, app}
    /\ minted = [i \in Numbers |-> NULL]
    /\ call = [c \in Callers |-> Idle]
    /\ discovery = NULL /\ minting = [i \in Numbers |-> NULL]
    /\ signup = Idle
    /\ changes = 0 /\ calls = 0 /\ breaks = 0
    /\ learnt = {} /\ spent = FALSE /\ muddled = FALSE

Break == breaks < MaxBreaks /\ breaks' = breaks + 1

(***************************************************************************)
(* The App on GitHub, and what is heard of it.                             *)
(***************************************************************************)

Change(action, new) ==
    /\ changes < MaxChanges /\ changes' = changes + 1
    /\ app' = new
    /\ mail' = mail \cup {[action |-> action, at |-> changes + 1,
                           id |-> IF new.id # 0 THEN new.id ELSE app.id]}
    /\ UNCHANGED <<kept, call, discovery, minting, signup, calls, breaks, learnt, spent, muddled>>

Install   == app.id = 0 /\ Change("created", [id |-> lastId + 1, paused |-> FALSE]) /\ lastId' = lastId + 1
Uninstall == app.id # 0 /\ Change("deleted", None) /\ UNCHANGED lastId
Suspend   == app.id # 0 /\ ~app.paused /\ Change("suspend", [app EXCEPT !.paused = TRUE]) /\ UNCHANGED lastId
Resume    == app.paused /\ Change("unsuspend", [app EXCEPT !.paused = FALSE]) /\ UNCHANGED lastId

\* InstallationStore.forget(): only a row with that id.
Without(id) == IF entry # NULL /\ entry.id = id THEN NULL ELSE entry

\* build_installation_handler(): remember() replaces whatever row the account has.
Hear(l) ==
    /\ mail' = mail \ {l}
    /\ entry' = IF l.action = "deleted" THEN Without(l.id)
                ELSE [id |-> l.id, paused |-> l.action = "suspend"]
    /\ learnt' = IF l.action = "deleted" THEN learnt ELSE learnt \ {l.id}
    /\ muddled' = (muddled \/ \E k \in mail' : k.at < l.at)
    /\ UNCHANGED <<hub, minted, call, discovery, minting, signup, calls, breaks, spent>>

Lose(l) ==
    /\ Break
    /\ mail' = mail \ {l} /\ muddled' = TRUE
    /\ UNCHANGED <<hub, kept, call, discovery, minting, signup, calls, learnt, spent>>

(***************************************************************************)
(* InstallationTokens.token_for().                                         *)
(***************************************************************************)

Goes(c, step) == call' = [call EXCEPT ![c].step = step]
Answered(c)   == call' = [call EXCEPT ![c] = Idle]

\* InstallationDirectory.installation_for(), which is also read under the lock.
Says == IF entry = NULL THEN "nothing" ELSE IF entry.paused THEN "a suspension" ELSE "an installation"
Read(c, step) ==
    call' = [call EXCEPT ![c] = [@ EXCEPT !.step = step, !.says = Says,
                                          !.id = IF Says = "an installation" THEN entry.id ELSE 0]]

Ask(c) ==
    /\ call[c].step = "idle" /\ calls < MaxCalls /\ calls' = calls + 1
    /\ Read(c, "told")
    /\ UNCHANGED <<hub, mail, kept, discovery, minting, signup, breaks, learnt, spent, muddled>>

Fresh(i) == minted[i] = "fresh"

\* With an id: the token kept if it lasts, and otherwise the lock of that id.
Decide(c) ==
    /\ call[c].step = "told"
    /\ CASE call[c].says = "a suspension"    -> Answered(c)
         [] call[c].says = "nothing"         -> Goes(c, "unknown")
         [] call[c].says = "an installation" -> IF Fresh(call[c].id) THEN Answered(c) ELSE Goes(c, "stale")
    /\ UNCHANGED <<hub, mail, kept, discovery, minting, signup, calls, breaks, learnt, spent, muddled>>

\* Mutant: nobody waits for whoever asks already.
DiscoverBeside(c) ==
    /\ call[c].step = "unknown"
    /\ discovery' = c
    /\ Read(c, "looking")
    /\ UNCHANGED <<hub, mail, kept, minting, signup, calls, breaks, learnt, spent, muddled>>

\* _discover(): one at a time, and the map is read again.
Discover(c) ==
    /\ call[c].step = "unknown" /\ discovery = NULL
    /\ discovery' = c
    /\ Read(c, "looking")
    /\ UNCHANGED <<hub, mail, kept, minting, signup, calls, breaks, learnt, spent, muddled>>

Looked(c) ==
    /\ call[c].step = "looking"
    /\ IF call[c].says = "nothing" THEN Goes(c, "listing") /\ UNCHANGED discovery
       ELSE discovery' = NULL /\ Goes(c, "told")
    /\ UNCHANGED <<hub, mail, kept, minting, signup, calls, breaks, learnt, spent, muddled>>

\* _covering_installation(): not found and not answered are both told as no token.
List(c) ==
    /\ call[c].step = "listing"
    /\ \/ /\ app.id # 0
          /\ call' = [call EXCEPT ![c] = [@ EXCEPT !.step = "noting", !.found = app, !.as = changes]]
          /\ UNCHANGED <<discovery, breaks>>
       \/ /\ (app.id = 0 /\ UNCHANGED breaks) \/ Break
          /\ Answered(c) /\ discovery' = NULL
    /\ UNCHANGED <<hub, mail, kept, minting, signup, calls, learnt, spent, muddled>>

\* What GitHub said is written down whatever was heard since.
Note(c) ==
    /\ call[c].step = "noting"
    /\ discovery' = NULL
    /\ \/ /\ entry' = call[c].found
          /\ call' = [call EXCEPT ![c] =
                IF call[c].found.paused THEN Idle ELSE [@ EXCEPT !.step = "told", !.says = "an installation", !.id = call[c].found.id]]
          /\ muddled' = (muddled \/ call[c].as # changes)
          /\ learnt' = learnt \ {call[c].found.id}
          /\ UNCHANGED breaks
       \/ Break /\ Answered(c) /\ UNCHANGED <<entry, learnt, muddled>>
    /\ UNCHANGED <<hub, mail, minted, minting, signup, calls, spent>>

Again(i) == Fresh(i)

Queue(c) ==
    LET i == call[c].id IN
    /\ call[c].step = "stale" /\ minting[i] = NULL
    /\ IF Again(i) THEN Answered(c) /\ UNCHANGED minting
       ELSE minting' = [minting EXCEPT ![i] = c] /\ Goes(c, "minting")
    /\ UNCHANGED <<hub, mail, kept, discovery, signup, calls, breaks, learnt, spent, muddled>>

Released(c) == minting' = [minting EXCEPT ![call[c].id] = NULL] /\ Answered(c)

\* _mint(): an installation GitHub does not have is forgotten; a refusal and an outage are raised.
Mint(c) ==
    LET i == call[c].id IN
    /\ call[c].step = "minting"
    /\ \/ /\ app = [id |-> i, paused |-> FALSE]
          /\ minted' = [minted EXCEPT ![i] = "fresh"] /\ spent' = (spent \/ Fresh(i))
          /\ Released(c) /\ UNCHANGED <<learnt, breaks>>
       \/ /\ app.id # i
          /\ minted' = [minted EXCEPT ![i] = NULL] /\ learnt' = learnt \cup {i}
          /\ Goes(c, "forgetting") /\ UNCHANGED <<minting, spent, breaks>>
       \/ /\ (app = [id |-> i, paused |-> TRUE] /\ UNCHANGED breaks) \/ Break
          /\ Released(c) /\ UNCHANGED <<minted, learnt, spent>>
    /\ UNCHANGED <<hub, mail, entry, discovery, signup, calls, muddled>>

\* Mutant: the token is dropped and the row is not.
KeptRow(i) == entry

Forgotten(i) == Without(i)

Forget(c) ==
    /\ call[c].step = "forgetting"
    /\ \/ entry' = Forgotten(call[c].id) /\ UNCHANGED <<breaks, learnt>>
       \/ Break /\ learnt' = learnt \ {call[c].id} /\ UNCHANGED entry
    /\ Released(c)
    /\ UNCHANGED <<hub, mail, minted, discovery, signup, calls, spent, muddled>>

\* Time passes: a token comes within the margin of its end, which is soon enough.
Age(i) ==
    /\ minted[i] = "fresh"
    /\ minted' = [minted EXCEPT ![i] = "due"]
    /\ UNCHANGED <<hub, mail, entry, call, discovery, minting, signup, calls, breaks, learnt, spent, muddled>>

(***************************************************************************)
(* /register asks GitHub what covers the repository, and writes it down    *)
(* as not suspended.                                                       *)
(***************************************************************************)

SignUp ==
    /\ signup.step = "idle" /\ calls < MaxCalls /\ calls' = calls + 1
    /\ app.id # 0
    /\ signup' = [Idle EXCEPT !.step = "noting", !.found = app, !.as = changes]
    /\ UNCHANGED <<hub, mail, kept, call, discovery, minting, breaks, learnt, spent, muddled>>

Remember ==
    /\ signup.step = "noting"
    /\ entry' = [id |-> signup.found.id, paused |-> FALSE]
    /\ learnt' = learnt \ {signup.found.id}
    /\ muddled' = (muddled \/ signup.as # changes \/ signup.found.paused)
    /\ signup' = Idle
    /\ UNCHANGED <<hub, mail, minted, call, discovery, minting, calls, breaks, spent>>

\* The process ends: what it kept in memory is gone.
Restart ==
    /\ Break
    /\ call' = [c \in Callers |-> Idle] /\ signup' = Idle
    /\ discovery' = NULL /\ minting' = [i \in Numbers |-> NULL]
    /\ minted' = [i \in Numbers |-> NULL]
    /\ learnt' = learnt \ {call[c].id : c \in {c \in Callers : call[c].step = "forgetting"}}
    /\ UNCHANGED <<hub, mail, entry, calls, spent, muddled>>

Next ==
    \/ Install \/ Uninstall \/ Suspend \/ Resume
    \/ \E l \in mail : Hear(l) \/ Lose(l)
    \/ \E c \in Callers :
          \/ Ask(c) \/ Decide(c) \/ Discover(c) \/ Looked(c) \/ List(c) \/ Note(c)
          \/ Queue(c) \/ Mint(c) \/ Forget(c)
    \/ \E i \in Numbers : Age(i)
    \/ SignUp \/ Remember \/ Restart

Spec == Init /\ [][Next]_installationVars

Steps == {"idle", "told", "unknown", "looking", "listing", "noting", "stale", "minting", "forgetting"}

TypeOK ==
    /\ app \in [id : 0..(MaxChanges + 1), paused : BOOLEAN] /\ lastId \in Numbers
    /\ mail \subseteq [action : {"created", "deleted", "suspend", "unsuspend"}, at : 1..MaxChanges, id : Numbers]
    /\ entry = NULL \/ entry \in [id : Numbers, paused : BOOLEAN]
    /\ minted \in [Numbers -> {"fresh", "due", NULL}]
    /\ \A c \in Callers : call[c].step \in Steps
    /\ discovery \in Callers \cup {NULL} /\ minting \in [Numbers -> Callers \cup {NULL}]
    /\ \A c \in Callers : call[c].step \in {"looking", "listing", "noting"} <=> discovery = c
    /\ signup.step \in {"idle", "noting"}
    /\ changes \in 0..MaxChanges /\ calls \in 0..MaxCalls /\ breaks \in 0..MaxBreaks
    /\ learnt \subseteq Numbers /\ spent \in BOOLEAN /\ muddled \in BOOLEAN

(***************************************************************************)
(* What it promises.                                                       *)
(***************************************************************************)

\* "a burst for one repository mints once": nothing is minted while a fresh token is kept.
MintsOnce == ~spent

Quiet == mail = {} /\ signup = Idle /\ \A c \in Callers : call[c] = Idle

\* The map refuses an account the App may read: it says suspended, and a suspension is
\* never asked about.
ShutOut == entry # NULL /\ entry.paused /\ app.id # 0 /\ ~app.paused

\* "a missing or stale row costs one request": once every delivery was handled, no row
\* keeps the App out of an account where it is installed and not paused.
StaleRowCostsOneRequest == Quiet => ~ShutOut

\* The map ends where GitHub is if no delivery was lost or overtaken and nobody wrote an
\* answer GitHub gave before a change, or of a suspended installation as if it were not.
\* Even then a row whose installation is gone is asked for once: it outlives no caller that
\* GitHub told so, unless deleting it failed.
MapFollowsGitHub ==
    Quiet =>
        /\ muddled \/ entry = NULL \/ entry = app
        /\ entry = NULL \/ entry.id \notin learnt
=============================================================================
