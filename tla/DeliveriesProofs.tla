--------------------------- MODULE DeliveriesProofs ---------------------------
(***************************************************************************)
(* What is proved of the three parts of MCDeliveries beside the queue: who *)
(* is asked to review and rung for it, the App's installations, the        *)
(* threads being logged, and the types of all three.  Each has an          *)
(* inductive invariant of its own, kept by each step of its own, and the   *)
(* steps of the others leave its variables alone.  And what is proved of   *)
(* the lease a batch of deliveries runs under.                             *)
(***************************************************************************)
EXTENDS MCDeliveries, Sequences, FiniteSetTheorems, TLAPS

----
(* Who is asked to review. *)

Stages  == {"idle", "waiting", "claiming", "pinging", "giving_back"}
Letters == [review : BOOLEAN, named : BOOLEAN, listed : BOOLEAN, stamp : Nat \ {0}]
Loads   == [arrived : Nat, stamp : Nat, listed : BOOLEAN, named : BOOLEAN]
Assignments == [told : BOOLEAN, since : Nat \ {0}, answered : Nat]

\* Nothing carries a moment before the first, and no event is recorded before it is sent.
HubKinds ==
    /\ second \in Nat \ {0} /\ asked \in BOOLEAN /\ letters \in Seq(Letters)
    /\ unread \subseteq 1 .. Len(letters)
TableKinds ==
    /\ row = NULL \/ row \in Assignments
    /\ mark \in Nat /\ applied \in 0 .. Len(letters)
SyncKinds ==
    /\ item \in Syncs \cup {NULL}
    /\ doing \in [Syncs -> Stages]
    /\ payload \in [Syncs -> Loads]
    /\ \A s \in Syncs : /\ payload[s].arrived <= Len(letters)
                        /\ (doing[s] = "idle") <=> (payload[s].stamp = 0)
                        /\ doing[s] = "idle" => payload[s] = Requests!NoLoad

RequestsInv == HubKinds /\ TableKinds /\ SyncKinds

LEMMA RequestsInit == Requests!Init => RequestsInv
<1>. SUFFICES ASSUME Requests!Init PROVE RequestsInv OBVIOUS
<1>. USE DEF Requests!Init
<1>1. HubKinds
  <2>1. << >> \in Seq(Letters) /\ second \in Nat \ {0} /\ unread \subseteq 1 .. Len(letters) OBVIOUS
  <2>2. asked \in BOOLEAN OBVIOUS
  <2>. QED BY <2>1, <2>2 DEF HubKinds
<1>2. TableKinds BY DEF TableKinds
<1>3. SyncKinds
  <2>1. Requests!NoLoad \in Loads /\ Requests!NoLoad.arrived = 0 /\ Requests!NoLoad.stamp = 0
    BY DEF Requests!NoLoad, Loads
  <2>2. doing \in [Syncs -> Stages] BY DEF Stages
  <2>3. letters = << >> /\ Len(letters) = 0 OBVIOUS
  <2>. QED BY <2>1, <2>2, <2>3 DEF SyncKinds
<1>. QED BY <1>1, <1>2, <1>3 DEF RequestsInv

LEMMA RequestsAre == RequestsInv => Requests!TypeOK
<1>. SUFFICES ASSUME RequestsInv PROVE Requests!TypeOK OBVIOUS
<1>. USE DEF RequestsInv
<1>1. asked \in BOOLEAN /\ unread \subseteq DOMAIN letters BY DEF HubKinds
<1>2. \A s \in Syncs : payload[s] = Requests!NoLoad <=> doing[s] = "idle"
  <2>. SUFFICES ASSUME NEW s \in Syncs PROVE payload[s] = Requests!NoLoad <=> doing[s] = "idle" OBVIOUS
  <2>1. Requests!NoLoad.stamp = 0 BY DEF Requests!NoLoad
  <2>. QED BY <2>1 DEF SyncKinds
<1>3. \A s \in Syncs : doing[s] \in {"idle", "waiting", "claiming", "pinging", "giving_back"}
  BY DEF SyncKinds, Stages
<1>. QED BY <1>1, <1>2, <1>3 DEF Requests!TypeOK, TableKinds, SyncKinds, Assignments

\* GitHub sends one event more, and its clock does not go back.
LEMMA Sent ==
  ASSUME HubKinds, NEW review \in BOOLEAN, NEW named \in BOOLEAN, NEW now \in BOOLEAN,
         Requests!Send(review, named, now)
  PROVE  HubKinds' /\ Len(letters') = Len(letters) + 1
<1>1. second' \in Nat \ {0} BY DEF Requests!Send, Requests!Later, HubKinds
<1>. DEFINE l == [review |-> review, named |-> named, listed |-> now \/ named, stamp |-> second']
<1>2. l \in Letters BY <1>1 DEF Letters
<1>3. letters' = Append(letters, l) BY DEF Requests!Send
<1>. HIDE DEF l
<1>4. letters' \in Seq(Letters) /\ Len(letters') = Len(letters) + 1 BY <1>2, <1>3 DEF HubKinds
<1>5. asked' \in BOOLEAN BY DEF Requests!Send
<1>6. unread' \subseteq 1 .. Len(letters')
  <2>1. unread' = unread \cup {Len(letters) + 1} /\ unread \subseteq 1 .. Len(letters) /\ Len(letters) \in Nat
    BY DEF Requests!Send, HubKinds
  <2>2. 1 .. Len(letters') = 1 .. Len(letters) \cup {Len(letters) + 1} BY <1>4, <2>1
  <2>. QED BY <2>1, <2>2
<1>. QED BY <1>1, <1>4, <1>5, <1>6 DEF HubKinds

LEMMA HubStep ==
  ASSUME RequestsInv, Requests!GitHub PROVE RequestsInv'
<1>. USE DEF RequestsInv
<1>1. UNCHANGED <<Requests!table, Requests!sync>>
  BY DEF Requests!GitHub, Requests!Ask, Requests!Review, Requests!TeamAnswered, Requests!Withdraw
<1>2. HubKinds' /\ Len(letters') >= Len(letters) /\ Len(letters) \in Nat
  <2>0. Len(letters) \in Nat BY DEF HubKinds
  <2>1. ASSUME NEW review \in BOOLEAN, NEW named \in BOOLEAN, NEW now \in BOOLEAN, Requests!Send(review, named, now)
        PROVE  HubKinds' /\ Len(letters') >= Len(letters)
    <3>1. HubKinds' /\ Len(letters') = Len(letters) + 1 BY <2>1, Sent
    <3>. QED BY <2>0, <3>1
  <2>2. CASE Requests!TeamAnswered
    <3>1. second' \in {second, second + 1} /\ UNCHANGED <<letters, unread>> /\ asked' = FALSE
      BY <2>2 DEF Requests!TeamAnswered, Requests!Later
    <3>2. second' \in Nat \ {0} BY <3>1 DEF HubKinds
    <3>3. letters' \in Seq(Letters) /\ unread' \subseteq 1 .. Len(letters') BY <3>1 DEF HubKinds
    <3>4. asked' \in BOOLEAN /\ Len(letters') = Len(letters) BY <3>1
    <3>. QED BY <2>0, <3>2, <3>3, <3>4 DEF HubKinds
  <2>3. TRUE \in BOOLEAN /\ FALSE \in BOOLEAN OBVIOUS
  <2>. QED BY <2>0, <2>1, <2>2, <2>3 DEF Requests!GitHub, Requests!Ask, Requests!Review, Requests!Withdraw
<1>3. TableKinds' BY <1>1, <1>2 DEF Requests!table, TableKinds
<1>4. SyncKinds' BY <1>1, <1>2 DEF Requests!sync, SyncKinds, Loads
<1>. QED BY <1>2, <1>3, <1>4

\* What the row may become.
LEMMA RowKinds ==
  ASSUME NEW r, r = NULL \/ r \in Assignments, NEW load \in Loads, load.stamp # 0
  PROVE  /\ Requests!Fresh(load.stamp) \in Assignments
         /\ Requests!Reopened(r, load) = NULL \/ Requests!Reopened(r, load) \in Assignments
<1>1. Requests!Fresh(load.stamp) \in Assignments BY DEF Requests!Fresh, Assignments, Loads
<1>. QED BY <1>1 DEF Requests!Reopened

\* A sync moves, and no other with it.
LEMMA Moved ==
  ASSUME SyncKinds, NEW s \in Syncs, NEW d \in Stages, NEW p \in Loads,
         doing' = [doing EXCEPT ![s] = d], payload' = [payload EXCEPT ![s] = p]
  PROVE  /\ doing' \in [Syncs -> Stages] /\ payload' \in [Syncs -> Loads]
         /\ doing'[s] = d /\ payload'[s] = p
         /\ \A t \in Syncs \ {s} : doing'[t] = doing[t] /\ payload'[t] = payload[t]
BY DEF SyncKinds

LEMMA Kept ==
  ASSUME SyncKinds, NEW s \in Syncs, item' \in {item, s, NULL}, letters' = letters,
         doing' \in [Syncs -> Stages], payload' \in [Syncs -> Loads],
         \A t \in Syncs \ {s} : doing'[t] = doing[t] /\ payload'[t] = payload[t],
         payload'[s].arrived <= Len(letters), (doing'[s] = "idle") <=> (payload'[s].stamp = 0),
         doing'[s] = "idle" => payload'[s] = Requests!NoLoad
  PROVE  SyncKinds' BY DEF SyncKinds

LEMMA Left ==
  ASSUME SyncKinds, HubKinds, NEW s \in Syncs, Requests!Leave(s), letters' = letters PROVE SyncKinds'
<1>1. Requests!NoLoad \in Loads /\ Requests!NoLoad.arrived = 0 /\ Requests!NoLoad.stamp = 0 /\ Len(letters) \in Nat
  BY DEF Requests!NoLoad, Loads, HubKinds
<1>2. /\ doing' = [doing EXCEPT ![s] = "idle"] /\ payload' = [payload EXCEPT ![s] = Requests!NoLoad]
      /\ item' \in {item, s, NULL} /\ Requests!NoLoad.arrived <= Len(letters) /\ "idle" \in Stages
  BY <1>1 DEF Requests!Leave, Stages
<1>. QED BY <1>1, <1>2, Moved, Kept

LEMMA Went ==
  ASSUME SyncKinds, NEW s \in Syncs, NEW d \in {"waiting", "claiming", "pinging", "giving_back"},
         doing[s] # "idle", Requests!Goto(s, d), payload' = payload, item' \in {item, s}, letters' = letters
  PROVE  SyncKinds'
<1>1. /\ payload[s] \in Loads /\ payload[s].arrived <= Len(letters) /\ payload[s].stamp # 0
      /\ payload' = [payload EXCEPT ![s] = payload[s]] BY DEF SyncKinds
<1>2. doing' = [doing EXCEPT ![s] = d] /\ item' \in {item, s, NULL} /\ d # "idle" /\ d \in Stages
  BY DEF Requests!Goto, Stages
<1>. QED BY <1>1, <1>2, Moved, Kept

LEMMA SyncStep ==
  ASSUME RequestsInv, NEW s \in Syncs, Requests!Sync(s) PROVE RequestsInv'
<1>. USE DEF RequestsInv
<1>1. UNCHANGED <<second, asked, letters>> /\ unread' \subseteq unread
  BY DEF Requests!Sync, Requests!Deliver, Requests!Fetch, Requests!Record, Requests!ClaimNone,
    Requests!ClaimPing, Requests!Ping, Requests!PingFails, Requests!GiveBack, Requests!GiveBackFails,
    Requests!Abort, Requests!LoseLock, Requests!Handled, Requests!Raise, Requests!hub
<1>2. HubKinds' BY <1>1 DEF HubKinds
<1>3. TableKinds'
  <2>1. CASE Requests!Record(s)
    <3>. DEFINE load == payload[s]
    <3>1. load \in Loads /\ load.stamp # 0 /\ load.arrived <= Len(letters)
      BY <2>1 DEF Requests!Record, SyncKinds
    <3>. HIDE DEF load
    <3>2. CASE Requests!Superseded(load)
      <4>. DEFINE less == [load EXCEPT !.listed = FALSE]
      <4>1. less \in Loads /\ less.stamp = load.stamp BY <3>1 DEF Loads
      <4>2. row' = Requests!Reopened(row, less) /\ UNCHANGED <<mark, applied>>
        BY <2>1, <3>2 DEF Requests!Record, load
      <4>. HIDE DEF less
      <4>. QED BY <1>1, <3>1, <4>1, <4>2, RowKinds DEF TableKinds
    <3>3. CASE ~Requests!Superseded(load)
      <4>1. row' = Requests!Reopened(Requests!Replaced(load), load) /\ mark' = load.stamp
            /\ applied' = (IF load.arrived = 0 THEN applied ELSE load.arrived)
        BY <2>1, <3>3 DEF Requests!Record, load
      <4>2. Requests!Replaced(load) = NULL \/ Requests!Replaced(load) \in Assignments
        BY <3>1, RowKinds DEF Requests!Replaced, TableKinds
      <4>3. row' = NULL \/ row' \in Assignments BY <3>1, <4>1, <4>2, RowKinds
      <4>4. mark' \in Nat /\ applied' \in 0 .. Len(letters) BY <3>1, <4>1 DEF Loads, TableKinds, HubKinds
      <4>. QED BY <1>1, <4>3, <4>4 DEF TableKinds
    <3>. QED BY <3>2, <3>3
  <2>2. CASE ~Requests!Record(s)
    <3>1. UNCHANGED <<mark, applied>>
          /\ (row' = row \/ (row' = [row EXCEPT !.told = TRUE] /\ row # NULL) \/ row' = Requests!Released)
      BY <2>2 DEF Requests!Sync, Requests!Deliver, Requests!Fetch, Requests!ClaimNone, Requests!ClaimPing, Requests!Ping, Requests!PingFails, Requests!GiveBack, Requests!GiveBackFails, Requests!Abort,
         Requests!LoseLock, Requests!table, Requests!OwedAPing
    <3>2. row # NULL => [row EXCEPT !.told = TRUE] \in Assignments /\ [row EXCEPT !.told = FALSE] \in Assignments
      BY DEF TableKinds, Assignments
    <3>. QED BY <1>1, <3>1, <3>2 DEF Requests!Released, TableKinds
  <2>. QED BY <2>1, <2>2
<1>4. SyncKinds'
  <2>1. ASSUME NEW n \in unread, Requests!Deliver(s, n) PROVE SyncKinds'
    <3>. DEFINE p == [arrived |-> n, stamp |-> letters[n].stamp,
                      listed |-> letters[n].listed, named |-> letters[n].named]
    <3>1. letters[n] \in Letters /\ n \in Nat /\ n <= Len(letters)
      <4>1. n \in 1 .. Len(letters) /\ letters \in Seq(Letters) /\ Len(letters) \in Nat BY <2>1 DEF HubKinds
      <4>. QED BY <4>1
    <3>2. p \in Loads /\ p.stamp # 0 /\ p.arrived <= Len(letters) BY <3>1 DEF Letters, Loads
    <3>3. doing' = [doing EXCEPT ![s] = "waiting"] /\ payload' = [payload EXCEPT ![s] = p] /\ item' = item
      BY <2>1 DEF Requests!Deliver, Requests!Goto
    <3>. HIDE DEF p
    <3>4. SyncKinds /\ letters' = letters /\ item' \in {item, s, NULL} /\ "waiting" \in Stages
      BY <1>1, <3>3 DEF Stages
    <3>7. /\ doing' \in [Syncs -> Stages] /\ payload' \in [Syncs -> Loads]
          /\ doing'[s] = "waiting" /\ payload'[s] = p
          /\ \A t \in Syncs \ {s} : doing'[t] = doing[t] /\ payload'[t] = payload[t]
      BY <3>2, <3>3, <3>4, Moved
    <3>. QED BY <3>2, <3>4, <3>7, Kept
  <2>2. CASE Requests!Fetch(s)
    <3>. DEFINE p == [Requests!NoLoad EXCEPT !.stamp = second, !.listed = asked]
    <3>0. Len(letters) \in Nat /\ second \in Nat \ {0} BY DEF HubKinds
    <3>5. asked \in BOOLEAN BY DEF HubKinds
    <3>6. p.arrived = 0 /\ p.stamp = second BY DEF Requests!NoLoad
    <3>8. Requests!NoLoad \in Loads BY DEF Requests!NoLoad, Loads
    <3>9. p \in Loads BY <3>0, <3>5, <3>8 DEF Loads
    <3>1. p \in Loads /\ p.stamp # 0 /\ p.arrived <= Len(letters) BY <3>0, <3>6, <3>9
    <3>2. doing' = [doing EXCEPT ![s] = "waiting"] /\ payload' = [payload EXCEPT ![s] = p] /\ item' = item
      BY <2>2 DEF Requests!Fetch, Requests!Goto
    <3>. HIDE DEF p
    <3>4. SyncKinds /\ letters' = letters /\ item' \in {item, s, NULL} /\ "waiting" \in Stages
      BY <1>1, <3>2 DEF Stages
    <3>7. /\ doing' \in [Syncs -> Stages] /\ payload' \in [Syncs -> Loads]
          /\ doing'[s] = "waiting" /\ payload'[s] = p
          /\ \A t \in Syncs \ {s} : doing'[t] = doing[t] /\ payload'[t] = payload[t]
      BY <3>1, <3>2, <3>4, Moved
    <3>. QED BY <3>1, <3>4, <3>7, Kept
  <2>3. CASE Requests!Record(s)
    <3>1. CASE Requests!Leave(s) BY <1>1, <3>1, Left
    <3>2. CASE Requests!Goto(s, "claiming") /\ payload' = payload /\ item' = s
      BY <1>1, <2>3, <3>2, Went DEF Requests!Record
    <3>. QED BY <2>3, <3>1, <3>2 DEF Requests!Record, Requests!Handled
  <2>4. CASE Requests!ClaimNone(s) \/ Requests!Ping(s) \/ Requests!GiveBack(s) \/ Requests!GiveBackFails(s) \/ Requests!Abort(s)
    BY <1>1, <2>4, Left DEF Requests!ClaimNone, Requests!Ping, Requests!GiveBack, Requests!GiveBackFails, Requests!Abort, Requests!Handled, Requests!Raise
  <2>5. CASE Requests!ClaimPing(s) BY <1>1, <2>5, Went DEF Requests!ClaimPing
  <2>6. CASE Requests!PingFails(s) BY <1>1, <2>6, Went DEF Requests!PingFails
  <2>7. CASE Requests!LoseLock(s) BY <1>1, <2>7 DEF Requests!LoseLock, SyncKinds
  <2>. QED BY <2>1, <2>2, <2>3, <2>4, <2>5, <2>6, <2>7 DEF Requests!Sync
<1>. QED BY <1>2, <1>3, <1>4

LEMMA FulfilStep ==
  ASSUME RequestsInv, NEW n \in unread, Requests!Fulfil(n) PROVE RequestsInv'
<1>. USE DEF RequestsInv
<1>1. UNCHANGED <<second, asked, letters, mark, applied, item, doing, payload>> /\ unread' \subseteq unread
  BY DEF Requests!Fulfil, Requests!hub, Requests!sync
<1>2. letters[n].stamp \in Nat
  <2>1. n \in 1 .. Len(letters) /\ letters \in Seq(Letters) /\ Len(letters) \in Nat BY DEF HubKinds
  <2>2. letters[n] \in Letters BY <2>1
  <2>. QED BY <2>2 DEF Letters
<1>3. row' = row \/ (row # NULL /\ row' = [row EXCEPT !.answered = letters[n].stamp])
  BY DEF Requests!Fulfil, Requests!AskedByThen
<1>4. TableKinds'
  <2>1. row # NULL => [row EXCEPT !.answered = letters[n].stamp] \in Assignments
    BY <1>2 DEF TableKinds, Assignments
  <2>. QED BY <1>1, <1>3, <2>1 DEF TableKinds
<1>. QED BY <1>1, <1>4 DEF HubKinds, SyncKinds

LEMMA RequestsStep == RequestsInv /\ [Requests!Next]_(Requests!requestsVars) => RequestsInv'
<1>1. ASSUME RequestsInv, UNCHANGED Requests!requestsVars PROVE RequestsInv'
  BY <1>1 DEF Requests!requestsVars, Requests!hub, Requests!table, Requests!sync, RequestsInv, HubKinds, TableKinds, SyncKinds
<1>. QED BY <1>1, HubStep, SyncStep, FulfilStep DEF Requests!Next

----
(* The App's installations. *)

\* The App on GitHub: one installation at a time, and each has an id of its own.
AppKinds ==
    /\ app \in [id : Nat, paused : BOOLEAN] /\ lastId \in Tokens!Numbers /\ lastId <= changes + 1
    /\ app.id \in {0, lastId} /\ (app.id = 0 => app = Tokens!None)
    /\ changes \in 0 .. MaxChanges /\ calls \in 0 .. MaxCalls /\ breaks \in 0 .. MaxBreaks

Mails == [action : {"created", "deleted", "suspend", "unsuspend"}, at : 1..MaxChanges, id : Tokens!Numbers]

RowsKinds ==
    /\ mail \subseteq Mails /\ \A m \in mail : m.at <= changes /\ m.id <= lastId
    /\ entry = NULL \/ entry \in [id : Tokens!Numbers, paused : BOOLEAN]
    /\ learnt \subseteq Tokens!Numbers /\ spent \in BOOLEAN /\ muddled \in BOOLEAN

Asking == [step : Tokens!Steps, says : {NULL, "nothing", "a suspension", "an installation"},
           id : Nat, found : [id : Nat, paused : BOOLEAN], as : Nat]

\* What a caller was told of, and what GitHub told it.
Knows(k) ==
    /\ k.step \in {"told", "looking"} => k.says \in {"nothing", "a suspension", "an installation"}
    /\ k.step \in {"told", "looking"} /\ k.says = "an installation" => k.id \in Tokens!Numbers
    /\ k.step \in {"stale", "minting", "forgetting"} => k.id \in Tokens!Numbers
    /\ k.step = "noting" => /\ k.found.id \in Tokens!Numbers /\ k.as <= changes
                            /\ k.as = changes => k.found = app

CallKinds ==
    /\ call \in [Callers -> Asking] /\ \A c \in Callers : Knows(call[c])
    /\ signup \in Asking /\ signup.step \in {"idle", "noting"} /\ Knows(signup)

LockKinds ==
    /\ minted \in [Tokens!Numbers -> {"fresh", "due", NULL}]
    /\ discovery \in Callers \cup {NULL} /\ minting \in [Tokens!Numbers -> Callers \cup {NULL}]
    /\ \A c \in Callers : call[c].step \in {"looking", "listing", "noting"} <=> discovery = c

\* Who mints for an installation has its lock, and found no token that lasts.
MintsAlone ==
    \A c \in Callers :
        /\ call[c].step \in {"minting", "forgetting"} => minting[call[c].id] = c
        /\ call[c].step = "minting" => minted[call[c].id] # "fresh"

\* What GitHub told a caller is gone is being forgotten, if the row has it.
GoneIsForgotten ==
    entry # NULL /\ entry.id \in learnt =>
        \E c \in Callers : call[c].step = "forgetting" /\ call[c].id = entry.id

\* The mail on its way, while none of it was lost or overtaken: it ends with the
\* last change, and says when the newest installation was made if it has any older.
MailInOrder ==
    /\ \A m, k \in mail : m.at = k.at => m = k
    /\ mail # {} => \E m \in mail : m.at = changes
    /\ \A m \in mail : m.at = changes =>
          /\ m.id = lastId
          /\ IF m.action = "deleted" THEN app.id = 0
             ELSE app = [id |-> m.id, paused |-> m.action = "suspend"]
    /\ \A m \in mail : m.id < lastId => \E k \in mail : k.at > m.at /\ k.id = lastId /\ k.action = "created"

\* A row that is not GitHub's is put right by the mail, last by the deletion.
RowCatchesUp ==
    entry # NULL /\ entry # app =>
        /\ mail # {}
        /\ app.id # 0 \/ entry.id = lastId \/ \E m \in mail : m.id = lastId /\ m.action # "deleted"

TokensInv ==
    /\ AppKinds /\ RowsKinds /\ CallKinds /\ LockKinds /\ MintsAlone /\ GoneIsForgotten
    /\ ~spent /\ (~muddled => MailInOrder /\ RowCatchesUp)

LEMMA TokensInit == Tokens!Init => TokensInv
<1>. SUFFICES ASSUME Tokens!Init PROVE TokensInv OBVIOUS
<1>. USE DeliveriesAssumption DEF Tokens!InstallationsAssumption, Tokens!Init, Tokens!None, Tokens!Idle
<1>0. {MaxChanges, MaxCalls, MaxBreaks} \subseteq Nat /\ 1 \in Tokens!Numbers BY DEF Tokens!Numbers
<1>1. AppKinds BY <1>0 DEF AppKinds
<1>2. RowsKinds
  <2>1. app \in [id : Tokens!Numbers, paused : BOOLEAN] BY <1>0
  <2>. QED BY <2>1 DEF RowsKinds
<1>3. CallKinds BY DEF CallKinds, Asking, Knows, Tokens!Steps
<1>4. LockKinds BY DEF LockKinds
<1>. QED BY <1>1, <1>2, <1>3, <1>4 DEF TokensInv, MintsAlone, GoneIsForgotten, MailInOrder, RowCatchesUp


Anyone(c) ==
    Tokens!Ask(c) \/ Tokens!Decide(c) \/ Tokens!Discover(c) \/ Tokens!Looked(c) \/ Tokens!List(c) \/ Tokens!Note(c) \/ Tokens!Queue(c) \/ Tokens!Mint(c) \/ Tokens!Forget(c)

LEMMA Bounds == MaxChanges \in Nat /\ MaxCalls \in Nat /\ MaxBreaks \in Nat
BY DeliveriesAssumption DEF Tokens!InstallationsAssumption

\* The installation is made, paused, resumed or removed.
LEMMA AppChanges ==
  ASSUME AppKinds, Tokens!Install \/ Tokens!Uninstall \/ Tokens!Suspend \/ Tokens!Resume
  PROVE  \E action \in {"created", "deleted", "suspend", "unsuspend"}, new \in [id : Nat, paused : BOOLEAN] :
           /\ Tokens!Change(action, new) /\ new.id \in {0, lastId'} /\ (new.id = 0 => new = Tokens!None)
           /\ (action = "deleted" <=> new.id = 0)
           /\ (new.id # 0 => new.paused = (action = "suspend"))
           /\ lastId' \in Tokens!Numbers /\ lastId' <= changes + 2 /\ lastId' >= lastId
           /\ (app.id = 0 => lastId' = lastId + 1 /\ action = "created")
           /\ (app.id # 0 => lastId' = lastId /\ action # "created")
<1>. USE Bounds DEF AppKinds, Tokens!Numbers, Tokens!None
<1>1. CASE Tokens!Install
  <2>. DEFINE new == [id |-> lastId + 1, paused |-> FALSE]
  <2>1. new \in [id : Nat, paused : BOOLEAN] /\ new.id = lastId + 1 /\ new.paused = FALSE OBVIOUS
  <2>2. Tokens!Change("created", new) /\ app.id = 0 /\ lastId' = lastId + 1 /\ lastId' \in Tokens!Numbers
    BY <1>1 DEF Tokens!Install, Tokens!Change
  <2>. HIDE DEF new
  <2>. QED BY <2>1, <2>2
<1>2. CASE Tokens!Uninstall
  <2>. DEFINE new == Tokens!None
  <2>1. new \in [id : Nat, paused : BOOLEAN] /\ new.id = 0 OBVIOUS
  <2>2. Tokens!Change("deleted", new) /\ app.id # 0 /\ lastId' = lastId /\ new = Tokens!None
    BY <1>2 DEF Tokens!Uninstall
  <2>3. lastId' \in Tokens!Numbers /\ lastId' <= changes + 2 /\ lastId' >= lastId /\ (new.id = 0 => new = Tokens!None)
    BY <2>2
  <2>. HIDE DEF new
  <2>. QED BY <2>1, <2>2, <2>3
<1>3. CASE Tokens!Suspend
  <2>1. [app EXCEPT !.paused = TRUE] \in [id : Nat, paused : BOOLEAN] OBVIOUS
  <2>2. [app EXCEPT !.paused = TRUE].id = app.id /\ [app EXCEPT !.paused = TRUE].paused = TRUE OBVIOUS
  <2>. QED BY <1>3, <2>1, <2>2 DEF Tokens!Suspend
<1>4. CASE Tokens!Resume
  <2>1. [app EXCEPT !.paused = FALSE] \in [id : Nat, paused : BOOLEAN] OBVIOUS
  <2>2. [app EXCEPT !.paused = FALSE].id = app.id /\ [app EXCEPT !.paused = FALSE].paused = FALSE OBVIOUS
  <2>3. app.id # 0 BY <1>4 DEF Tokens!Resume
  <2>. QED BY <1>4, <2>1, <2>2, <2>3 DEF Tokens!Resume
<1>. QED BY <1>1, <1>2, <1>3, <1>4

LEMMA AppStep == TokensInv /\ [Tokens!Next]_(Tokens!installationVars) => AppKinds'
<1>. SUFFICES ASSUME TokensInv, [Tokens!Next]_(Tokens!installationVars) PROVE AppKinds' OBVIOUS
<1>. USE Bounds DEF TokensInv
<1>1. CASE Tokens!Install \/ Tokens!Uninstall \/ Tokens!Suspend \/ Tokens!Resume
  <2>1. PICK action \in {"created", "deleted", "suspend", "unsuspend"}, new \in [id : Nat, paused : BOOLEAN] :
             /\ Tokens!Change(action, new) /\ new.id \in {0, lastId'} /\ (new.id = 0 => new = Tokens!None)
             /\ lastId' \in Tokens!Numbers /\ lastId' <= changes + 2
    BY <1>1, AppChanges
  <2>. QED BY <2>1 DEF Tokens!Change, AppKinds
<1>2. CASE UNCHANGED Tokens!installationVars BY <1>2 DEF Tokens!installationVars, Tokens!hub, AppKinds
<1>3. ASSUME UNCHANGED Tokens!hub, calls' = calls \/ (calls < MaxCalls /\ calls' = calls + 1), breaks' = breaks \/ Tokens!Break
      PROVE  AppKinds' BY <1>3 DEF AppKinds, Tokens!hub, Tokens!Break
<1>4. ASSUME NEW l \in mail, Tokens!Hear(l) \/ Tokens!Lose(l)
      PROVE  AppKinds' BY <1>3, <1>4 DEF Tokens!Hear, Tokens!Lose
<1>5. ASSUME NEW c \in Callers, Anyone(c) PROVE AppKinds'
  BY <1>3, <1>5 DEF Anyone, Tokens!Ask, Tokens!Decide, Tokens!Discover, Tokens!Looked, Tokens!List, Tokens!Note, Tokens!Queue, Tokens!Mint, Tokens!Forget
<1>6. CASE (\E i \in Tokens!Numbers : Tokens!Age(i)) \/ Tokens!SignUp \/ Tokens!Remember \/ Tokens!Restart
  BY <1>3, <1>6 DEF Tokens!Age, Tokens!SignUp, Tokens!Remember, Tokens!Restart
<1>. QED BY <1>1, <1>2, <1>4, <1>5, <1>6 DEF Tokens!Next, Anyone

LEMMA RowsChange ==
  ASSUME AppKinds, RowsKinds, NEW action \in {"created", "deleted", "suspend", "unsuspend"}, NEW new \in [id : Nat, paused : BOOLEAN],
         Tokens!Change(action, new), lastId' \in Tokens!Numbers, lastId' >= lastId, new.id \in {0, lastId'}, app.id # 0 \/ new.id # 0
  PROVE  RowsKinds'
<1>. USE Bounds DEF AppKinds, RowsKinds, Tokens!Numbers
<1>. DEFINE m == [action |-> action, at |-> changes + 1, id |-> IF new.id # 0 THEN new.id ELSE app.id]
<1>1. m \in Mails /\ m.id <= lastId' /\ m.at = changes + 1 BY DEF Tokens!Change, Mails
<1>. HIDE DEF m
<1>2. mail' = mail \cup {m} /\ changes' = changes + 1 /\ UNCHANGED <<entry, learnt, spent, muddled>>
  BY DEF Tokens!Change, m, Tokens!kept
<1>3. \A k \in mail : k.at \in Nat /\ k.id \in Nat BY DEF Mails
<1>. QED BY <1>1, <1>2, <1>3

LEMMA RowsStep == TokensInv /\ [Tokens!Next]_(Tokens!installationVars) => RowsKinds'
<1>. SUFFICES ASSUME TokensInv, [Tokens!Next]_(Tokens!installationVars) PROVE RowsKinds' OBVIOUS
<1>. USE Bounds DEF TokensInv
<1>1. CASE Tokens!Install \/ Tokens!Uninstall \/ Tokens!Suspend \/ Tokens!Resume
  <2>1. PICK action \in {"created", "deleted", "suspend", "unsuspend"}, new \in [id : Nat, paused : BOOLEAN] :
             /\ Tokens!Change(action, new) /\ new.id \in {0, lastId'} /\ lastId' \in Tokens!Numbers /\ lastId' >= lastId
             /\ (app.id = 0 => lastId' = lastId + 1 /\ action = "created")
             /\ (action = "deleted" <=> new.id = 0) BY <1>1, AppChanges
  <2>. QED BY <2>1, RowsChange
<1>2. CASE UNCHANGED Tokens!installationVars
  BY <1>2 DEF Tokens!installationVars, Tokens!hub, Tokens!kept, RowsKinds
<1>3. ASSUME NEW l \in mail, Tokens!Hear(l) PROVE RowsKinds'
  <2>1. l \in Mails BY <1>3 DEF RowsKinds
  <2>2. entry' = NULL \/ entry' \in [id : Tokens!Numbers, paused : BOOLEAN]
    BY <1>3, <2>1 DEF RowsKinds, Tokens!Hear, Tokens!Without, Mails
  <2>. QED BY <1>3, <2>2 DEF RowsKinds, Tokens!Hear, Tokens!hub
<1>4. ASSUME NEW l \in mail, Tokens!Lose(l) PROVE RowsKinds'
  BY <1>4 DEF Tokens!Lose, RowsKinds, Tokens!hub, Tokens!kept
<1>5. ASSUME NEW c \in Callers, Anyone(c) PROVE RowsKinds'
  <2>0. Knows(call[c]) /\ call[c] \in Asking BY <1>5 DEF CallKinds
  <2>1. UNCHANGED <<Tokens!hub, mail>>
    BY <1>5 DEF Anyone, Tokens!Ask, Tokens!Decide, Tokens!Discover, Tokens!Looked, Tokens!List, Tokens!Note, Tokens!Queue, Tokens!Mint, Tokens!Forget
  <2>2. entry' = NULL \/ entry' \in [id : Tokens!Numbers, paused : BOOLEAN]
    <3>1. CASE Tokens!Note(c) BY <2>0, <3>1 DEF Tokens!Note, Knows, Asking, RowsKinds
    <3>2. CASE ~Tokens!Note(c)
      BY <1>5, <3>2 DEF RowsKinds, Anyone, Tokens!Ask, Tokens!Decide, Tokens!Discover, Tokens!Looked, Tokens!List, Tokens!Queue, Tokens!Mint, Tokens!Forget, Tokens!Forgotten, Tokens!Without, Tokens!kept
    <3>. QED BY <3>1, <3>2
  <2>3. learnt' \subseteq Tokens!Numbers
    BY <1>5, <2>0 DEF RowsKinds, Anyone, Tokens!Ask, Tokens!Decide, Tokens!Discover, Tokens!Looked, Tokens!List, Tokens!Note, Tokens!Queue, Tokens!Mint, Tokens!Forget, Knows
  <2>4. spent' \in BOOLEAN /\ muddled' \in BOOLEAN
    BY <1>5 DEF RowsKinds, Anyone, Tokens!Ask, Tokens!Decide, Tokens!Discover, Tokens!Looked, Tokens!List, Tokens!Note, Tokens!Queue, Tokens!Mint, Tokens!Forget
  <2>. QED BY <2>1, <2>2, <2>3, <2>4 DEF RowsKinds, Tokens!hub
<1>6. CASE (\E i \in Tokens!Numbers : Tokens!Age(i)) \/ Tokens!SignUp \/ Tokens!Remember \/ Tokens!Restart
  <2>1. UNCHANGED <<Tokens!hub, mail>> BY <1>6 DEF Tokens!Age, Tokens!SignUp, Tokens!Remember, Tokens!Restart
  <2>2. entry' = NULL \/ entry' \in [id : Tokens!Numbers, paused : BOOLEAN]
    <3>1. CASE Tokens!Remember BY <3>1 DEF Tokens!Remember, CallKinds, Knows
    <3>2. CASE ~Tokens!Remember
      BY <1>6, <3>2 DEF RowsKinds, Tokens!Age, Tokens!SignUp, Tokens!Restart, Tokens!kept
    <3>. QED BY <3>1, <3>2
  <2>3. learnt' \subseteq Tokens!Numbers /\ spent' \in BOOLEAN /\ muddled' \in BOOLEAN
    BY <1>6 DEF RowsKinds, Tokens!Age, Tokens!SignUp, Tokens!Remember, Tokens!Restart
  <2>. QED BY <2>1, <2>2, <2>3 DEF RowsKinds, Tokens!hub
<1>. QED BY <1>1, <1>2, <1>3, <1>4, <1>5, <1>6 DEF Tokens!Next, Anyone

LEMMA CallKindsStep == TokensInv /\ [Tokens!Next]_(Tokens!installationVars) => CallKinds'
<1>. SUFFICES ASSUME TokensInv, [Tokens!Next]_(Tokens!installationVars) PROVE CallKinds' OBVIOUS
<1>. USE Bounds DEF TokensInv
<1>1. CASE Tokens!Install \/ Tokens!Uninstall \/ Tokens!Suspend \/ Tokens!Resume
  <2>1. changes' = changes + 1 /\ UNCHANGED <<call, signup>> /\ changes \in Nat
    BY <1>1 DEF Tokens!Install, Tokens!Uninstall, Tokens!Suspend, Tokens!Resume, Tokens!Change, AppKinds
  <2>2. ASSUME NEW k \in Asking, Knows(k) PROVE Knows(k)'
    <3>1. k.as \in Nat BY DEF Asking
    <3>2. k.step = "noting" => k.as <= changes' /\ k.as # changes' BY <2>1, <2>2, <3>1 DEF Knows
    <3>. QED BY <2>2, <3>2 DEF Knows
  <2>. QED BY <2>1, <2>2 DEF CallKinds
<1>2. CASE UNCHANGED Tokens!installationVars \/ (\E l \in mail : Tokens!Hear(l) \/ Tokens!Lose(l)) \/ \E i \in Tokens!Numbers : Tokens!Age(i)
  BY <1>2 DEF Tokens!installationVars, Tokens!hub, Tokens!Hear, Tokens!Lose, Tokens!Age, CallKinds, Knows
<1>3. ASSUME NEW c \in Callers, NEW k \in Asking, Knows(k), \A d \in Callers : call'[d] = IF d = c THEN k ELSE call[d],
             call' \in [Callers -> Asking], UNCHANGED <<Tokens!hub, signup>>
      PROVE  CallKinds' BY <1>3 DEF CallKinds, Knows, Tokens!hub
<1>4. ASSUME NEW c \in Callers, Anyone(c) PROVE CallKinds'
  <2>0. call[c] \in Asking /\ Knows(call[c]) /\ UNCHANGED <<Tokens!hub, signup>> /\ call \in [Callers -> Asking]
    BY <1>4 DEF CallKinds, Anyone, Tokens!Ask, Tokens!Decide, Tokens!Discover, Tokens!Looked, Tokens!List, Tokens!Note, Tokens!Queue, Tokens!Mint, Tokens!Forget
  <2>1. ASSUME NEW k \in Asking, Knows(k), call' = [call EXCEPT ![c] = k] PROVE CallKinds' BY <1>3, <2>0, <2>1
  <2>2. Tokens!Idle \in Asking /\ Knows(Tokens!Idle)
    BY <2>0 DEF Asking, Tokens!Idle, Tokens!None, Tokens!Steps, Knows
  <2>3. CASE Tokens!Answered(c) BY <2>1, <2>2, <2>3 DEF Tokens!Answered
  <2>4. ASSUME NEW to \in Tokens!Steps, Tokens!Goes(c, to), to \in {"told", "looking"} => call[c].step \in {"told", "looking"},
               to \in {"stale", "minting", "forgetting"} => call[c].id \in Tokens!Numbers, to # "noting"
        PROVE  CallKinds'
    <3>. DEFINE k == [call[c] EXCEPT !.step = to]
    <3>1. /\ k \in Asking /\ k.step = to /\ k.says = call[c].says /\ k.id = call[c].id
          /\ call' = [call EXCEPT ![c] = k]
      BY <2>0, <2>4 DEF Asking, Tokens!Goes
    <3>. HIDE DEF k
    <3>2. Knows(k) BY <2>0, <2>4, <3>1 DEF Knows
    <3>. QED BY <2>1, <3>1, <3>2
  <2>5. ASSUME NEW to \in {"told", "looking"}, Tokens!Read(c, to) PROVE CallKinds'
    <3>. DEFINE i == IF Tokens!Says = "an installation" THEN entry.id ELSE 0
                k == [call[c] EXCEPT !.step = to, !.says = Tokens!Says, !.id = i]
    <3>0. Tokens!Says \in {"nothing", "a suspension", "an installation"} /\ i \in Nat
          /\ (Tokens!Says = "an installation" => i \in Tokens!Numbers)
      BY DEF Tokens!Says, RowsKinds, Tokens!Numbers
    <3>1. k \in Asking /\ k.step = to /\ k.says = Tokens!Says /\ k.id = i /\ call' = [call EXCEPT ![c] = k]
      BY <2>0, <2>5, <3>0 DEF Asking, Tokens!Read, Tokens!Steps
    <3>. HIDE DEF k, i
    <3>2. Knows(k) BY <2>0, <2>5, <3>0, <3>1 DEF Knows
    <3>. QED BY <2>1, <3>1, <3>2
  <2>6. CASE Tokens!Ask(c) BY <2>5, <2>6 DEF Tokens!Ask
  <2>7. CASE Tokens!Decide(c) BY <2>0, <2>3, <2>4, <2>7 DEF Tokens!Decide, Knows, Asking, Tokens!Steps
  <2>8. CASE Tokens!Discover(c) BY <2>5, <2>8 DEF Tokens!Discover
  <2>9. CASE Tokens!Looked(c) BY <2>0, <2>4, <2>9 DEF Tokens!Looked, Tokens!Steps
  <2>10. CASE Tokens!List(c)
    <3>. DEFINE k == [call[c] EXCEPT !.step = "noting", !.found = app, !.as = changes]
    <3>1. CASE app.id # 0 /\ call' = [call EXCEPT ![c] = k]
      <4>0. app \in [id : Nat, paused : BOOLEAN] /\ changes \in Nat /\ app.id \in Tokens!Numbers
        BY <3>1 DEF AppKinds
      <4>1. k \in Asking /\ k.step = "noting" /\ k.found = app /\ k.as = changes
        BY <2>0, <4>0 DEF Asking, Tokens!Steps
      <4>. HIDE DEF k
      <4>2. Knows(k) BY <4>0, <4>1 DEF Knows
      <4>. QED BY <2>1, <3>1, <4>1, <4>2
    <3>. QED BY <2>3, <2>10, <3>1 DEF Tokens!List
  <2>11. CASE Tokens!Note(c)
    <3>. DEFINE k == [call[c] EXCEPT !.step = "told", !.says = "an installation", !.id = call[c].found.id]
    <3>1. CASE call' = [call EXCEPT ![c] = k]
      <4>1. k \in Asking /\ k.step = "told" /\ k.says = "an installation" /\ k.id \in Tokens!Numbers
        BY <2>0, <2>11 DEF Asking, Tokens!Note, Knows, Tokens!Steps
      <4>. HIDE DEF k
      <4>2. Knows(k) BY <4>1 DEF Knows
      <4>. QED BY <2>1, <3>1, <4>1, <4>2
    <3>. QED BY <2>1, <2>2, <2>3, <2>11, <3>1 DEF Tokens!Note
  <2>12. CASE Tokens!Queue(c) \/ Tokens!Mint(c) \/ Tokens!Forget(c)
    BY <2>0, <2>3, <2>4, <2>12 DEF Tokens!Queue, Tokens!Mint, Tokens!Forget, Tokens!Released, Knows, Tokens!Steps
  <2>. QED BY <1>4, <2>6, <2>7, <2>8, <2>9, <2>10, <2>11, <2>12 DEF Anyone
<1>5. CASE Tokens!SignUp
  <2>. DEFINE k == [Tokens!Idle EXCEPT !.step = "noting", !.found = app, !.as = changes]
  <2>0. app \in [id : Nat, paused : BOOLEAN] /\ changes \in Nat /\ app.id \in Tokens!Numbers
    BY <1>5 DEF AppKinds, Tokens!SignUp
  <2>1. k \in Asking /\ k.step = "noting" /\ k.found = app /\ k.as = changes
    BY <2>0 DEF Asking, Tokens!Steps, Tokens!Idle, Tokens!None
  <2>2. signup' = k /\ UNCHANGED <<Tokens!hub, call>> BY <1>5 DEF Tokens!SignUp
  <2>. HIDE DEF k
  <2>3. Knows(k) BY <2>0, <2>1 DEF Knows
  <2>. QED BY <2>1, <2>2, <2>3 DEF CallKinds, Knows, Tokens!hub
<1>6. CASE Tokens!Remember \/ Tokens!Restart
  <2>1. Tokens!Idle \in Asking /\ Knows(Tokens!Idle) /\ Tokens!Idle.step = "idle"
    BY DEF Asking, Tokens!Idle, Tokens!None, Tokens!Steps, Knows
  <2>2. UNCHANGED Tokens!hub /\ signup' = Tokens!Idle /\ (call' = call \/ call' = [c \in Callers |-> Tokens!Idle])
    BY <1>6 DEF Tokens!Remember, Tokens!Restart
  <2>3. Knows(Tokens!Idle)' BY <2>1, <2>2 DEF Knows, Tokens!hub
  <2>. QED BY <2>1, <2>2, <2>3 DEF CallKinds, Knows, Tokens!hub
<1>. QED BY <1>1, <1>2, <1>4, <1>5, <1>6 DEF Tokens!Next, Anyone

Others(c) == \A d \in Callers \ {c} : call'[d] = call[d]

\* Where each step takes its caller.
LEMMA CallerMoves ==
  ASSUME CallKinds, NEW c \in Callers
  PROVE  /\ \A to \in Tokens!Steps : Tokens!Goes(c, to) =>
              Others(c) /\ call'[c].step = to /\ call'[c].id = call[c].id
         /\ Tokens!Answered(c) => Others(c) /\ call'[c].step = "idle"
         /\ \A to \in Tokens!Steps : Tokens!Read(c, to) => Others(c) /\ call'[c].step = to
         /\ Tokens!List(c) => Others(c) /\ call'[c].step \in {"noting", "idle"}
                       /\ (call'[c].step = "idle" => discovery' = NULL)
                       /\ (call'[c].step = "noting" => discovery' = discovery)
         /\ Tokens!Note(c) => Others(c) /\ call'[c].step \in {"told", "idle"}
<1>1. call \in [Callers -> Asking] /\ call[c] \in Asking BY DEF CallKinds
<1>2. ASSUME NEW to \in Tokens!Steps, Tokens!Goes(c, to)
      PROVE  Others(c) /\ call'[c].step = to /\ call'[c].id = call[c].id
  BY <1>1, <1>2 DEF Tokens!Goes, Asking, Others
<1>3. Tokens!Idle.step = "idle" BY DEF Tokens!Idle
<1>4. ASSUME Tokens!Answered(c) PROVE Others(c) /\ call'[c].step = "idle"
  BY <1>1, <1>3, <1>4 DEF Tokens!Answered, Others
<1>5. ASSUME NEW to \in Tokens!Steps, Tokens!Read(c, to) PROVE Others(c) /\ call'[c].step = to
  BY <1>1, <1>5 DEF Tokens!Read, Asking, Others
<1>6. ASSUME Tokens!List(c)
      PROVE  Others(c) /\ call'[c].step \in {"noting", "idle"}
             /\ (call'[c].step = "idle" => discovery' = NULL)
             /\ (call'[c].step = "noting" => discovery' = discovery)
  <2>1. CASE call' = [call EXCEPT ![c] = [@ EXCEPT !.step = "noting", !.found = app, !.as = changes]]
             /\ UNCHANGED discovery
    <3>1. call'[c].step = "noting" /\ Others(c) BY <1>1, <2>1 DEF Asking, Others
    <3>. QED BY <2>1, <3>1
  <2>. QED BY <1>4, <1>6, <2>1 DEF Tokens!List
<1>7. ASSUME Tokens!Note(c) PROVE Others(c) /\ call'[c].step \in {"told", "idle"}
  <2>. DEFINE k == [call[c] EXCEPT !.step = "told", !.says = "an installation", !.id = call[c].found.id]
  <2>1. CASE call' = [call EXCEPT ![c] = k]
    <3>1. k.step = "told" BY <1>1 DEF Asking
    <3>. QED BY <1>1, <2>1, <3>1 DEF Others
  <2>2. CASE call' = [call EXCEPT ![c] = Tokens!Idle] BY <1>4, <2>2 DEF Tokens!Answered
  <2>. QED BY <1>4, <1>7, <2>1, <2>2 DEF Tokens!Note
<1>. QED BY <1>2, <1>4, <1>5, <1>6, <1>7

LEMMA CallerAlone ==
  ASSUME CallKinds, NEW c \in Callers, Anyone(c) PROVE Others(c)
<1>1. CASE Tokens!Ask(c) \/ Tokens!Discover(c)
  BY <1>1, CallerMoves DEF Tokens!Ask, Tokens!Discover, Tokens!Steps
<1>2. CASE Tokens!Decide(c)
  <2>1. Knows(call[c]) BY DEF CallKinds
  <2>. QED BY <1>2, <2>1, CallerMoves DEF Tokens!Decide, Knows, Tokens!Steps
<1>3. CASE Tokens!Looked(c) \/ Tokens!Queue(c) \/ Tokens!Mint(c) \/ Tokens!Forget(c)
  BY <1>3, CallerMoves DEF Tokens!Looked, Tokens!Queue, Tokens!Mint, Tokens!Forget, Tokens!Released, Tokens!Steps
<1>. QED BY <1>1, <1>2, <1>3, CallerMoves DEF Anyone

Looks == {"looking", "listing", "noting"}

LEMMA LockStep ==
  TokensInv /\ [Tokens!Next]_(Tokens!installationVars) => LockKinds' /\ MintsAlone' /\ ~spent'
<1>. SUFFICES ASSUME TokensInv, [Tokens!Next]_(Tokens!installationVars) PROVE LockKinds' /\ MintsAlone' /\ ~spent'
  OBVIOUS
<1>. USE DEF TokensInv
<1>1. CASE \/ UNCHANGED Tokens!installationVars
           \/ Tokens!Install \/ Tokens!Uninstall \/ Tokens!Suspend \/ Tokens!Resume
           \/ \E l \in mail : Tokens!Hear(l) \/ Tokens!Lose(l)
           \/ Tokens!SignUp \/ Tokens!Remember
  <2>1. UNCHANGED <<minted, call, discovery, minting, spent>>
    BY <1>1 DEF Tokens!installationVars, Tokens!kept, Tokens!Install, Tokens!Uninstall, Tokens!Suspend, Tokens!Resume, Tokens!Change, Tokens!Hear, Tokens!Lose, Tokens!SignUp, Tokens!Remember
  <2>. QED BY <2>1 DEF LockKinds, MintsAlone
<1>2. ASSUME NEW i \in Tokens!Numbers, Tokens!Age(i) PROVE LockKinds' /\ MintsAlone' /\ ~spent'
  BY <1>2 DEF Tokens!Age, LockKinds, MintsAlone
<1>3. CASE Tokens!Restart
  <2>1. /\ \A c \in Callers : call'[c].step = "idle"
        /\ discovery' = NULL /\ minting' = [i \in Tokens!Numbers |-> NULL] /\ minted' = [i \in Tokens!Numbers |-> NULL]
        /\ spent' = spent BY <1>3 DEF Tokens!Restart, Tokens!Idle
  <2>. QED BY <2>1, DeliveriesAssumption DEF Tokens!InstallationsAssumption, LockKinds, MintsAlone
<1>4. ASSUME NEW c \in Callers, Anyone(c) PROVE LockKinds' /\ MintsAlone' /\ ~spent'
  <2>0. call[c] \in Asking /\ Knows(call[c]) /\ Others(c) /\ c # NULL /\ Knows(call[c])'
    BY <1>4, CallerAlone, CallKindsStep, DeliveriesAssumption DEF Tokens!Next, Anyone, CallKinds, Tokens!InstallationsAssumption
  <2>1. CASE Tokens!Ask(c) \/ Tokens!Decide(c)
    <3>1. UNCHANGED <<minted, discovery, minting, spent>> BY <2>1 DEF Tokens!Ask, Tokens!Decide, Tokens!kept
    <3>2. call[c].step \in {"idle", "told"} /\ call'[c].step \in {"told", "idle", "unknown", "stale"}
      BY <2>0, <2>1, CallerMoves DEF Tokens!Ask, Tokens!Decide, Knows, Tokens!Steps
    <3>. QED BY <2>0, <3>1, <3>2 DEF LockKinds, MintsAlone, Others
  <2>2. CASE Tokens!Discover(c) \/ Tokens!Looked(c) \/ Tokens!List(c) \/ Tokens!Note(c)
    <3>1. UNCHANGED <<minted, minting, spent>>
      BY <2>2 DEF Tokens!Discover, Tokens!Looked, Tokens!List, Tokens!Note, Tokens!kept
    <3>2. call[c].step \in {"unknown"} \cup Looks /\ call'[c].step \in Looks \cup {"told", "idle"}
      BY <2>0, <2>2, CallerMoves DEF Tokens!Discover, Tokens!Looked, Tokens!List, Tokens!Note, Tokens!Steps, Looks
    <3>3. /\ discovery' \in {c, NULL} /\ (discovery' = c <=> call'[c].step \in Looks)
          /\ discovery \in {c, NULL}
      <4>1. CASE Tokens!Discover(c) BY <2>0, <4>1, CallerMoves DEF Tokens!Discover, Tokens!Steps, Looks
      <4>2. CASE Tokens!Looked(c)
        <5>1. discovery = c BY <4>2 DEF Tokens!Looked, LockKinds
        <5>. QED BY <2>0, <4>2, <5>1, CallerMoves DEF Tokens!Looked, Tokens!Steps, Looks
      <4>3. CASE Tokens!List(c)
        <5>1. discovery = c BY <4>3 DEF Tokens!List, LockKinds
        <5>. QED BY <2>0, <4>3, <5>1, CallerMoves DEF Tokens!List, Tokens!Steps, Looks
      <4>4. CASE Tokens!Note(c)
        <5>1. discovery = c BY <4>4 DEF Tokens!Note, LockKinds
        <5>. QED BY <2>0, <4>4, <5>1, CallerMoves DEF Tokens!Note, Tokens!Steps, Looks
      <4>. QED BY <2>2, <4>1, <4>2, <4>3, <4>4
    <3>4. call'[c].step \notin {"minting", "forgetting"} BY <3>2 DEF Looks
    <3>5. \A d \in Callers : call'[d].step \in Looks <=> discovery' = d
      <4>. SUFFICES ASSUME NEW d \in Callers PROVE call'[d].step \in Looks <=> discovery' = d OBVIOUS
      <4>1. CASE d = c BY <3>3, <4>1
      <4>2. CASE d # c
        <5>1. call'[d] = call[d] /\ d # NULL
          BY <2>0, <4>2, DeliveriesAssumption DEF Others, Tokens!InstallationsAssumption
        <5>2. discovery # d /\ discovery' # d BY <3>3, <4>2, <5>1
        <5>. QED BY <5>1, <5>2 DEF LockKinds, Looks
      <4>. QED BY <4>1, <4>2
    <3>6. LockKinds' BY <3>1, <3>3, <3>5 DEF LockKinds, Looks
    <3>7. MintsAlone' BY <2>0, <3>1, <3>4 DEF MintsAlone, Others
    <3>. QED BY <3>1, <3>6, <3>7
  <2>3. CASE Tokens!Queue(c)
    <3>1. UNCHANGED <<minted, discovery, spent>> /\ call[c].id \in Tokens!Numbers /\ minting[call[c].id] = NULL
          /\ call[c].step = "stale"
      BY <2>0, <2>3 DEF Tokens!Queue, Tokens!kept, Knows
    <3>2. CASE Tokens!Answered(c) /\ UNCHANGED minting
      BY <2>0, <3>1, <3>2, CallerMoves DEF LockKinds, MintsAlone, Others
    <3>3. CASE ~Tokens!Fresh(call[c].id) /\ minting' = [minting EXCEPT ![call[c].id] = c] /\ Tokens!Goes(c, "minting")
      <4>1. call'[c].step = "minting" /\ call'[c].id = call[c].id BY <3>3, CallerMoves DEF Tokens!Steps
      <4>2. LockKinds' BY <2>0, <3>1, <3>3, <4>1 DEF LockKinds, Others
      <4>3. \A j \in Tokens!Numbers : minting'[j] = IF j = call[c].id THEN c ELSE minting[j]
        BY <3>1, <3>3 DEF LockKinds
      <4>4. \A d \in Callers \ {c} : call[d].step \in {"minting", "forgetting"} => call[d].id # call[c].id /\ call[d].id \in Tokens!Numbers
        BY <2>0, <3>1, DeliveriesAssumption DEF MintsAlone, CallKinds, Knows, Tokens!InstallationsAssumption
      <4>. QED BY <2>0, <3>1, <3>3, <4>1, <4>2, <4>3, <4>4 DEF MintsAlone, Others, Tokens!Fresh
    <3>. QED BY <2>3, <3>2, <3>3 DEF Tokens!Queue, Tokens!Again
  <2>4. CASE Tokens!Mint(c) \/ Tokens!Forget(c)
    <3>. DEFINE i == call[c].id
    <3>1. i \in Tokens!Numbers /\ minting[i] = c /\ call[c].step \in {"minting", "forgetting"} /\ UNCHANGED discovery
      BY <2>0, <2>4 DEF Tokens!Mint, Tokens!Forget, Knows, MintsAlone
    <3>2. \A d \in Callers \ {c} : call[d].step \in {"minting", "forgetting"} => call[d].id # i /\ call[d].id \in Tokens!Numbers
      BY <2>0, <3>1 DEF MintsAlone, CallKinds, Knows
    <3>3. ~spent' /\ minted' \in [Tokens!Numbers -> {"fresh", "due", NULL}]
      <4>1. CASE Tokens!Mint(c)
        <5>1. ~Tokens!Fresh(i) BY <2>0, <4>1 DEF Tokens!Mint, MintsAlone, Tokens!Fresh
        <5>2. ~spent BY DEF TokensInv
        <5>3. spent' = FALSE
          <6>1. spent' = (spent \/ Tokens!Fresh(i)) \/ spent' = spent BY <4>1 DEF Tokens!Mint
          <6>2. (spent \/ Tokens!Fresh(i)) = FALSE /\ spent = FALSE BY <5>1, <5>2 DEF RowsKinds
          <6>. QED BY <6>1, <6>2
        <5>4. minted' \in [Tokens!Numbers -> {"fresh", "due", NULL}] BY <3>1, <4>1 DEF Tokens!Mint, LockKinds
        <5>. QED BY <5>3, <5>4
      <4>2. CASE Tokens!Forget(c) BY <4>2 DEF Tokens!Forget, LockKinds
      <4>. QED BY <2>4, <4>1, <4>2
    <3>4. \A j \in Tokens!Numbers \ {i} : minted'[j] = minted[j]
      BY <2>4, <3>1 DEF Tokens!Mint, Tokens!Forget, LockKinds
    <3>5. CASE Tokens!Released(c)
      <4>1. minting' = [minting EXCEPT ![i] = NULL] /\ call'[c].step = "idle"
        BY <3>5, CallerMoves DEF Tokens!Released
      <4>. QED BY <2>0, <3>1, <3>2, <3>3, <3>4, <4>1 DEF LockKinds, MintsAlone, Others
    <3>6. CASE Tokens!Goes(c, "forgetting") /\ UNCHANGED minting
      <4>1. call'[c].step = "forgetting" /\ call'[c].id = i BY <3>6, CallerMoves DEF Tokens!Steps
      <4>. QED BY <2>0, <3>1, <3>2, <3>3, <3>4, <3>6, <4>1 DEF LockKinds, MintsAlone, Others
    <3>. QED BY <2>4, <3>5, <3>6 DEF Tokens!Mint, Tokens!Forget
  <2>. QED BY <1>4, <2>1, <2>2, <2>3, <2>4 DEF Anyone
<1>. QED BY <1>1, <1>2, <1>3, <1>4 DEF Tokens!Next, Anyone

LEMMA GoneStep == TokensInv /\ [Tokens!Next]_(Tokens!installationVars) => GoneIsForgotten'
<1>. SUFFICES ASSUME TokensInv, [Tokens!Next]_(Tokens!installationVars) PROVE GoneIsForgotten' OBVIOUS
<1>. USE DEF TokensInv
<1>1. ASSUME entry' = NULL \/ entry' = entry, learnt' \subseteq learnt,
             \A c \in Callers : call[c].step = "forgetting" =>
                \/ call'[c].step = "forgetting" /\ call'[c].id = call[c].id
                \/ call[c].id \notin learnt' \/ entry' = NULL \/ call[c].id # entry.id
      PROVE  GoneIsForgotten' BY <1>1 DEF GoneIsForgotten
<1>2. CASE \/ UNCHANGED Tokens!installationVars
           \/ Tokens!Install \/ Tokens!Uninstall \/ Tokens!Suspend \/ Tokens!Resume
           \/ \E l \in mail : Tokens!Lose(l)
           \/ Tokens!SignUp \/ \E i \in Tokens!Numbers : Tokens!Age(i)
  <2>1. UNCHANGED <<entry, call, learnt>>
    BY <1>2 DEF Tokens!installationVars, Tokens!kept, Tokens!Install, Tokens!Uninstall, Tokens!Suspend, Tokens!Resume, Tokens!Change, Tokens!Lose, Tokens!SignUp, Tokens!Age
  <2>. QED BY <1>1, <2>1
<1>3. ASSUME NEW l \in mail, Tokens!Hear(l) PROVE GoneIsForgotten'
  <2>1. CASE l.action = "deleted" BY <1>1, <1>3, <2>1 DEF Tokens!Hear, Tokens!Without
  <2>2. CASE l.action # "deleted" BY <1>3, <2>2 DEF Tokens!Hear, GoneIsForgotten
  <2>. QED BY <2>1, <2>2
<1>4. CASE Tokens!Remember BY <1>4 DEF Tokens!Remember, GoneIsForgotten
<1>5. CASE Tokens!Restart
  <2>1. UNCHANGED entry /\ learnt' \subseteq learnt
        /\ \A c \in Callers : call[c].step = "forgetting" => call[c].id \notin learnt'
    BY <1>5 DEF Tokens!Restart
  <2>. QED BY <1>1, <2>1
<1>6. ASSUME NEW c \in Callers, Anyone(c) PROVE GoneIsForgotten'
  <2>0. Others(c) BY <1>6, CallerAlone
  <2>1. CASE Tokens!Ask(c) \/ Tokens!Decide(c) \/ Tokens!Discover(c) \/ Tokens!Looked(c) \/ Tokens!List(c) \/ Tokens!Queue(c)
    <3>1. UNCHANGED <<entry, learnt>> /\ call[c].step # "forgetting"
      BY <2>1 DEF Tokens!Ask, Tokens!Decide, Tokens!Discover, Tokens!Looked, Tokens!List, Tokens!Queue, Tokens!kept
    <3>. QED BY <1>1, <2>0, <3>1 DEF Others
  <2>2. CASE Tokens!Note(c)
    <3>1. CASE UNCHANGED <<entry, learnt>> BY <1>1, <2>0, <2>2, <3>1 DEF Others, Tokens!Note
    <3>2. CASE entry'.id \notin learnt' BY <3>2 DEF GoneIsForgotten
    <3>. QED BY <2>2, <3>1, <3>2 DEF Tokens!Note
  <2>3. CASE Tokens!Mint(c)
    <3>1. call[c].step = "minting" /\ UNCHANGED entry BY <2>3 DEF Tokens!Mint
    <3>2. CASE UNCHANGED learnt BY <1>1, <2>0, <3>1, <3>2 DEF Others
    <3>3. CASE learnt' = learnt \cup {call[c].id} /\ Tokens!Goes(c, "forgetting")
      BY <2>0, <3>1, <3>3, CallerMoves DEF Others, GoneIsForgotten, Tokens!Steps
    <3>. QED BY <2>3, <3>2, <3>3 DEF Tokens!Mint
  <2>4. CASE Tokens!Forget(c) BY <1>1, <2>0, <2>4 DEF Tokens!Forget, Tokens!Forgotten, Tokens!Without, Others
  <2>. QED BY <1>6, <2>1, <2>2, <2>3, <2>4 DEF Anyone
<1>. QED BY <1>2, <1>3, <1>4, <1>5, <1>6 DEF Tokens!Next, Anyone

LEMMA MailStep ==
  TokensInv /\ ~muddled /\ ~muddled' /\ [Tokens!Next]_(Tokens!installationVars) => MailInOrder'
<1>. SUFFICES ASSUME TokensInv, MailInOrder, ~muddled', [Tokens!Next]_(Tokens!installationVars) PROVE MailInOrder'
  BY DEF TokensInv
<1>. USE DEF TokensInv
<1>0. \A m \in mail : m \in Mails /\ m.at \in Nat /\ m.id \in Nat /\ m.at <= changes /\ m.id <= lastId
  BY DEF RowsKinds, Mails, Tokens!Numbers
<1>1. CASE Tokens!Install \/ Tokens!Uninstall \/ Tokens!Suspend \/ Tokens!Resume
  <2>1. PICK action \in {"created", "deleted", "suspend", "unsuspend"}, new \in [id : Nat, paused : BOOLEAN] :
             /\ Tokens!Change(action, new) /\ new.id \in {0, lastId'} /\ (new.id = 0 => new = Tokens!None)
             /\ (action = "deleted" <=> new.id = 0)
             /\ (new.id # 0 => new.paused = (action = "suspend"))
             /\ (app.id = 0 => lastId' = lastId + 1 /\ action = "created")
             /\ (app.id # 0 => lastId' = lastId /\ action # "created")
    BY <1>1, AppChanges
  <2>. DEFINE m == [action |-> action, at |-> changes + 1, id |-> IF new.id # 0 THEN new.id ELSE app.id]
  <2>2. /\ m.action = action /\ m.at = changes + 1 /\ m.id = lastId' /\ lastId \in Nat /\ changes \in Nat
        /\ mail' = mail \cup {m} /\ changes' = changes + 1 /\ app' = new
    BY <2>1 DEF Tokens!Change, AppKinds, Tokens!Numbers
  <2>. HIDE DEF m
  <2>3. IF m.action = "deleted" THEN new.id = 0 ELSE new = [id |-> m.id, paused |-> m.action = "suspend"]
    <3>1. new = [id |-> new.id, paused |-> new.paused] OBVIOUS
    <3>. QED BY <2>1, <2>2, <3>1
  <2>4. \A k \in mail : k.at < m.at BY <1>0, <2>2
  <2>5. \A k \in mail' : k.id < lastId' => \E j \in mail' : j.at > k.at /\ j.id = lastId' /\ j.action = "created"
    <3>1. CASE app.id = 0 BY <2>1, <2>2, <2>4, <3>1
    <3>2. CASE app.id # 0 BY <1>0, <2>1, <2>2, <2>4, <3>2 DEF MailInOrder
    <3>. QED BY <3>1, <3>2
  <2>. QED BY <1>0, <2>2, <2>3, <2>4, <2>5 DEF MailInOrder
<1>2. ASSUME NEW l \in mail, Tokens!Hear(l) PROVE MailInOrder'
  <2>1. mail' = mail \ {l} /\ UNCHANGED <<app, lastId, changes>> /\ \A k \in mail' : ~(k.at < l.at)
    BY <1>2 DEF Tokens!Hear, Tokens!hub
  <2>2. mail' # {} => \E m \in mail' : m.at = changes BY <1>0, <2>1 DEF MailInOrder
  <2>3. \A m \in mail' : m.id < lastId => \E k \in mail' : k.at > m.at /\ k.id = lastId /\ k.action = "created"
    BY <1>0, <2>1 DEF MailInOrder
  <2>. QED BY <2>1, <2>2, <2>3 DEF MailInOrder
<1>3. CASE UNCHANGED <<Tokens!hub, mail>> BY <1>3 DEF MailInOrder, Tokens!hub
<1>4. ASSUME NEW l \in mail, Tokens!Lose(l) PROVE FALSE BY <1>4 DEF Tokens!Lose
<1>5. ASSUME NEW c \in Callers, Anyone(c) PROVE UNCHANGED <<Tokens!hub, mail>>
  BY <1>5 DEF Anyone, Tokens!Ask, Tokens!Decide, Tokens!Discover, Tokens!Looked, Tokens!List, Tokens!Note, Tokens!Queue, Tokens!Mint, Tokens!Forget
<1>6. CASE UNCHANGED Tokens!installationVars \/ (\E i \in Tokens!Numbers : Tokens!Age(i)) \/ Tokens!SignUp \/ Tokens!Remember \/ Tokens!Restart
  BY <1>3, <1>6 DEF Tokens!installationVars, Tokens!Age, Tokens!SignUp, Tokens!Remember, Tokens!Restart
<1>. QED BY <1>1, <1>2, <1>3, <1>4, <1>5, <1>6 DEF Tokens!Next, Anyone

LEMMA RowStep ==
  TokensInv /\ ~muddled /\ ~muddled' /\ [Tokens!Next]_(Tokens!installationVars) => RowCatchesUp'
<1>. SUFFICES ASSUME TokensInv, MailInOrder, RowCatchesUp, ~muddled, ~muddled', [Tokens!Next]_(Tokens!installationVars) PROVE RowCatchesUp'
  BY DEF TokensInv
<1>. USE DEF TokensInv
<1>0. \A m \in mail : m \in Mails /\ m.at \in Nat /\ m.id \in Nat /\ m.at <= changes /\ m.id <= lastId
  BY DEF RowsKinds, Mails, Tokens!Numbers
<1>1. CASE Tokens!Install \/ Tokens!Uninstall \/ Tokens!Suspend \/ Tokens!Resume
  <2>1. PICK action \in {"created", "deleted", "suspend", "unsuspend"}, new \in [id : Nat, paused : BOOLEAN] :
             /\ Tokens!Change(action, new) /\ (action = "deleted" <=> new.id = 0)
             /\ (app.id = 0 => lastId' = lastId + 1 /\ action = "created")
             /\ (app.id # 0 => lastId' = lastId /\ action # "created")
    BY <1>1, AppChanges
  <2>2. app' = new /\ entry' = entry /\ mail \subseteq mail' /\ mail' # {}
    BY <2>1 DEF Tokens!Change, Tokens!kept
  <2>3. CASE app'.id # 0 BY <2>2, <2>3 DEF RowCatchesUp
  <2>4. CASE app'.id = 0
    <3>1. app.id = lastId /\ app.id # 0 /\ lastId' = lastId BY <2>1, <2>2, <2>4 DEF AppKinds
    <3>2. CASE mail # {}
      <4>1. PICK m \in mail : m.at = changes BY <3>2 DEF MailInOrder
      <4>2. m.id = lastId /\ m.action # "deleted" BY <3>1, <4>1 DEF MailInOrder
      <4>. QED BY <2>2, <3>1, <4>2 DEF RowCatchesUp
    <3>3. CASE mail = {} BY <2>2, <3>1, <3>3 DEF RowCatchesUp
    <3>. QED BY <3>2, <3>3
  <2>. QED BY <2>3, <2>4
<1>2. ASSUME NEW l \in mail, Tokens!Hear(l) PROVE RowCatchesUp'
  <2>1. mail' = mail \ {l} /\ UNCHANGED <<app, lastId, changes>> /\ \A k \in mail' : ~(k.at < l.at)
    BY <1>2 DEF Tokens!Hear, Tokens!hub
  <2>2. mail' = {} => l.at = changes BY <2>1 DEF MailInOrder
  <2>3. CASE l.action # "deleted"
    <3>1. entry' = [id |-> l.id, paused |-> l.action = "suspend"] /\ entry'.id = l.id
      BY <1>2, <2>3 DEF Tokens!Hear
    <3>2. CASE mail' = {} BY <2>1, <2>2, <2>3, <3>1, <3>2 DEF MailInOrder, RowCatchesUp
    <3>3. CASE mail' # {} /\ l.id < lastId
      <4>1. PICK k \in mail : k.at > l.at /\ k.id = lastId /\ k.action = "created" BY <3>3 DEF MailInOrder
      <4>2. k \in mail' BY <1>0, <2>1, <4>1
      <4>. QED BY <2>1, <3>3, <4>1, <4>2 DEF RowCatchesUp
    <3>4. CASE mail' # {} /\ l.id = lastId BY <2>1, <3>1, <3>4 DEF RowCatchesUp
    <3>. QED BY <1>0, <3>2, <3>3, <3>4 DEF AppKinds, Tokens!Numbers
  <2>4. CASE l.action = "deleted"
    <3>1. entry' = NULL \/ (entry' = entry /\ entry.id # l.id) BY <1>2, <2>4 DEF Tokens!Hear, Tokens!Without
    <3>2. CASE mail' = {}
      <4>1. l.id = lastId /\ app.id = 0 /\ mail = {l} BY <2>1, <2>2, <2>4, <3>2 DEF MailInOrder
      <4>. QED BY <2>1, <2>4, <3>1, <4>1 DEF RowCatchesUp
    <3>3. CASE mail' # {} BY <2>1, <2>4, <3>1, <3>3 DEF RowCatchesUp
    <3>. QED BY <3>2, <3>3
  <2>. QED BY <2>3, <2>4
<1>3. CASE UNCHANGED <<Tokens!hub, mail>> /\ entry' \in {NULL, app, entry}
  BY <1>3 DEF RowCatchesUp, Tokens!hub
<1>4. ASSUME NEW l \in mail, Tokens!Lose(l) PROVE FALSE BY <1>4 DEF Tokens!Lose
<1>5. ASSUME NEW c \in Callers, Anyone(c)
      PROVE  UNCHANGED <<Tokens!hub, mail>> /\ entry' \in {NULL, app, entry}
  <2>1. CASE Tokens!Note(c) BY <2>1 DEF Tokens!Note, CallKinds, Knows
  <2>. QED
    BY <1>5, <2>1 DEF Anyone, Tokens!Ask, Tokens!Decide, Tokens!Discover, Tokens!Looked, Tokens!List, Tokens!Queue, Tokens!Mint, Tokens!Forget, Tokens!Forgotten, Tokens!Without, Tokens!kept
<1>6. CASE Tokens!Remember
  <2>1. signup.found = app /\ ~app.paused /\ UNCHANGED <<Tokens!hub, mail>>
    BY <1>6 DEF Tokens!Remember, CallKinds, Knows
  <2>2. app = [id |-> app.id, paused |-> FALSE]
    <3>1. app = [id |-> app.id, paused |-> app.paused] /\ app.paused \in BOOLEAN BY DEF AppKinds
    <3>. QED BY <2>1, <3>1
  <2>3. entry' = app BY <1>6, <2>1, <2>2 DEF Tokens!Remember
  <2>. QED BY <1>3, <2>1, <2>3
<1>7. CASE UNCHANGED Tokens!installationVars \/ (\E i \in Tokens!Numbers : Tokens!Age(i)) \/ Tokens!SignUp \/ Tokens!Restart
  BY <1>3, <1>7 DEF Tokens!installationVars, Tokens!Age, Tokens!SignUp, Tokens!Restart, Tokens!kept
<1>. QED BY <1>1, <1>2, <1>3, <1>4, <1>5, <1>6, <1>7 DEF Tokens!Next, Anyone

LEMMA TokensStep == TokensInv /\ [Tokens!Next]_(Tokens!installationVars) => TokensInv'
<1>. SUFFICES ASSUME TokensInv, [Tokens!Next]_(Tokens!installationVars) PROVE TokensInv' OBVIOUS
<1>1. muddled => muddled'
  BY DEF Tokens!Next, Tokens!Install, Tokens!Uninstall, Tokens!Suspend, Tokens!Resume, Tokens!Change, Tokens!Hear, Tokens!Lose, Tokens!Ask, Tokens!Decide, Tokens!Discover, Tokens!Looked, Tokens!List,
         Tokens!Note, Tokens!Queue, Tokens!Mint, Tokens!Forget, Tokens!Age, Tokens!SignUp, Tokens!Remember, Tokens!Restart, Tokens!installationVars
<1>. QED BY <1>1, AppStep, RowsStep, CallKindsStep, LockStep, GoneStep, MailStep, RowStep DEF TokensInv

LEMMA TokensAre == TokensInv => Tokens!TypeOK /\ Tokens!MintsOnce /\ Tokens!MapFollowsGitHub
<1>. SUFFICES ASSUME TokensInv PROVE Tokens!TypeOK /\ Tokens!MintsOnce /\ Tokens!MapFollowsGitHub OBVIOUS
<1>. USE Bounds DEF TokensInv
<1>1. Tokens!TypeOK
  <2>1. app \in [id : 0..(MaxChanges + 1), paused : BOOLEAN]
    <3>1. app = [id |-> app.id, paused |-> app.paused] /\ app.id \in 0 .. (MaxChanges + 1) /\ app.paused \in BOOLEAN
      BY DEF AppKinds, Tokens!Numbers
    <3>. QED BY <3>1
  <2>2. \A c \in Callers : call[c].step \in Tokens!Steps BY DEF CallKinds, Asking
  <2>. QED BY <2>1, <2>2 DEF Tokens!TypeOK, AppKinds, RowsKinds, CallKinds, LockKinds, Mails
<1>2. Tokens!MapFollowsGitHub
  <2>. SUFFICES ASSUME Tokens!Quiet, entry # NULL PROVE (muddled \/ entry = app) /\ entry.id \notin learnt
    BY DEF Tokens!MapFollowsGitHub
  <2>1. muddled \/ entry = app BY DEF Tokens!Quiet, RowCatchesUp
  <2>2. entry.id \notin learnt BY DEF Tokens!Quiet, GoneIsForgotten, Tokens!Idle
  <2>. QED BY <2>1, <2>2
<1>. QED BY <1>1, <1>2 DEF Tokens!MintsOnce

----
(* The words of a logged thread. *)

\* A thread is told before its row is written, and as long as it stands, but for what a
\* stop says too late.
Told == notice \cup crossed

RowsAreTold ==
    /\ open # 0 => open \in Told
    /\ \A c \in Commands : at[c] # "idle" => where[c] \in Logs!Threads
    /\ \A c \in Commands : at[c] = "opening" => where[c] \in Told

\* Who wrote the row is about to arm its thread.
ArmedSoon ==
    open # 0 /\ ~late => open \in live \/ \E c \in Commands : at[c] = "arming" /\ where[c] = open

\* The row of a thread that has gone is ended with it.
EndedSoon == gone \subseteq {1} /\ (open \in gone => astray \/ gateway \in {"told", "ending"})

CaughtAreTold == \A m \in Messages : message[m] \in {"caught", "kept"} => m \in told

LogsInv == Logs!TypeOK /\ RowsAreTold /\ ArmedSoon /\ EndedSoon /\ CaughtAreTold

Places == {"idle", "checking", "telling", "opening", "arming", "stopping", "disarming", "signing off"}

\* The parts of the type.
LEMMA Kinds ==
  ASSUME Logs!TypeOK
  PROVE  /\ open \in 0..2 /\ pointer \in 0..2 /\ where \in [Commands -> 0..2]
         /\ live \subseteq Logs!Threads /\ Told \subseteq Logs!Threads /\ gone \subseteq Logs!Threads
BY DEF Logs!TypeOK, Told

LEMMA Thread == 0 \in 0..2 /\ 2 \in 0..2 /\ \A t \in Logs!Threads : t \in 0..2 /\ t # 0
BY DEF Logs!Threads

LEMMA LogsInit == Logs!Init => LogsInv
<1>. SUFFICES ASSUME Logs!Init PROVE LogsInv OBVIOUS
<1>. USE DEF Logs!Init
<1>1. Logs!TypeOK
  <2>1. orders \in 0 .. MaxOrders /\ restarts \in 0 .. MaxRestarts
    BY DeliveriesAssumption DEF Logs!ConversationsAssumption
  <2>2. where \in [Commands -> 0..2] /\ said \in [Messages -> 0..2] OBVIOUS
  <2>3. at \in [Commands -> Places] BY DEF Places
  <2>4. message \in [Messages -> {"unsaid", "caught", "unwanted", "kept", "let by"}] OBVIOUS
  <2>5. late \in BOOLEAN /\ astray \in BOOLEAN OBVIOUS
  <2>8. pointer \in 0..2 /\ open \in 0..2
    <3>1. pointer = 1 /\ open = 0 OBVIOUS
    <3>. QED BY ONLY <3>1
  <2>6. gone \subseteq Logs!Threads /\ live \subseteq Logs!Threads /\ Told \subseteq Logs!Threads /\ told \subseteq Messages
    BY DEF Told
  <2>7. gateway \in {"quiet", "told", "ending", "disarming"} OBVIOUS
  <2>. QED BY <2>1, <2>2, <2>3, <2>4, <2>5, <2>6, <2>7, <2>8 DEF Logs!TypeOK, Places, Told
<1>. QED BY <1>1 DEF LogsInv, RowsAreTold, Told, ArmedSoon, EndedSoon, CaughtAreTold

LEMMA LogsAre == LogsInv => Logs!TypeOK /\ Logs!HeardAsTold
BY DEF LogsInv, Logs!HeardAsTold, Logs!NobodyUntold, Logs!Armed, Logs!NotOfTheDead, Logs!Quiet, RowsAreTold, ArmedSoon, EndedSoon,
       CaughtAreTold

\* A command moves, and no other command with it.
LEMMA CommandMoves ==
  ASSUME at \in [Commands -> STRING], NEW c \in Commands, NEW to \in STRING, Logs!Goes(c, to)
  PROVE  at' \in [Commands -> STRING] /\ at'[c] = to /\ \A d \in Commands \ {c} : at'[d] = at[d]
BY DEF Logs!Goes

LEMMA OrderStep ==
  ASSUME LogsInv, NEW c \in Commands, NEW t \in Logs!Threads, Logs!Order(c, t) PROVE LogsInv'
<1>. USE DEF LogsInv
<1>1. PICK what \in {"checking", "stopping"} : Logs!Goes(c, what) BY DEF Logs!Order
<1>2. /\ at' = [at EXCEPT ![c] = what] /\ where' = [where EXCEPT ![c] = t] /\ at[c] = "idle"
      /\ UNCHANGED <<pointer, gone, gateway, astray, open, live, notice, crossed, message, said, told, restarts, late>>
  BY <1>1 DEF Logs!Order, Logs!Goes, Logs!discord, Logs!words
<1>3. Logs!TypeOK'
  <2>1. orders' \in 0 .. MaxOrders
    <3>1. orders \in 0 .. MaxOrders /\ orders' = orders + 1 /\ orders < MaxOrders /\ MaxOrders \in Nat
      BY DeliveriesAssumption DEF Logs!Order, Logs!TypeOK, Logs!ConversationsAssumption
    <3>. QED BY <3>1
  <2>2. at' \in [Commands -> Places]
    <3>1. at \in [Commands -> Places] /\ what \in Places BY <1>1 DEF Logs!TypeOK, Places
    <3>. QED BY <1>2, <3>1
  <2>3. where' \in [Commands -> 0..2]
    <3>1. where \in [Commands -> 0..2] /\ t \in 0..2 BY Kinds, Thread
    <3>. QED BY <1>2, <3>1
  <2>. QED BY <1>2, <2>1, <2>2, <2>3 DEF Logs!TypeOK, Places
<1>4. \A d \in Commands : d # c => at'[d] = at[d] /\ where'[d] = where[d] BY <1>2 DEF Logs!TypeOK
<1>5. at'[c] = what /\ where'[c] = t BY <1>2 DEF Logs!TypeOK
<1>6. RowsAreTold' BY <1>2, <1>4, <1>5 DEF RowsAreTold, Told
<1>7. ArmedSoon' BY <1>2, <1>4, <1>5 DEF ArmedSoon
<1>. QED BY <1>2, <1>3, <1>6, <1>7 DEF EndedSoon, CaughtAreTold

LEMMA CommandStep ==
  ASSUME LogsInv, NEW c \in Commands,
         Logs!Checks(c) \/ Logs!Tells(c) \/ Logs!Opens(c) \/ Logs!Arms(c) \/ Logs!Closes(c) \/ Logs!DisarmsIt(c) \/ Logs!SignsOff(c)
  PROVE  LogsInv'
<1>. USE DEF LogsInv
<1>1. PICK to \in Places : at' = [at EXCEPT ![c] = to]
  BY DEF Logs!Checks, Logs!Tells, Logs!Opens, Logs!Arms, Logs!Closes, Logs!DisarmsIt, Logs!SignsOff, Logs!Goes, Places
<1>2. UNCHANGED <<pointer, gone, gateway, where, orders, message, said, told, restarts>>
  BY DEF Logs!Checks, Logs!Tells, Logs!Opens, Logs!Arms, Logs!Closes, Logs!DisarmsIt, Logs!SignsOff, Logs!discord, Logs!words
<1>3. at'[c] = to /\ \A d \in Commands : d # c => at'[d] = at[d] BY <1>1 DEF Logs!TypeOK
<1>4. at[c] # "idle" /\ where[c] \in Logs!Threads
  BY DEF Logs!Checks, Logs!Tells, Logs!Opens, Logs!Arms, Logs!Closes, Logs!DisarmsIt, Logs!SignsOff, RowsAreTold
<1>5. open' \in 0..2 /\ live' \subseteq Logs!Threads /\ Told' \subseteq Logs!Threads /\ late' \in BOOLEAN /\ astray' \in BOOLEAN
  <2>1. CASE Logs!Checks(c) \/ Logs!Tells(c)
    <3>1. Told' \subseteq Told \cup {where[c]} /\ UNCHANGED <<open, live, late, astray>>
      BY <2>1 DEF Logs!Checks, Logs!Tells, Logs!discord, Told
    <3>2. open \in 0..2 /\ Told \subseteq Logs!Threads /\ live \subseteq Logs!Threads BY Kinds
    <3>3. late \in BOOLEAN /\ astray \in BOOLEAN BY DEF Logs!TypeOK
    <3>4. Told' \subseteq Logs!Threads BY <1>4, <3>1, <3>2
    <3>. QED BY <3>1, <3>2, <3>3, <3>4
  <2>2. CASE Logs!Opens(c)
    <3>1. open' \in {open, where[c]} /\ UNCHANGED <<live, Told, late>> BY <2>2 DEF Logs!Opens, Told
    <3>2. open \in 0..2 /\ Told \subseteq Logs!Threads /\ live \subseteq Logs!Threads BY Kinds
    <3>3. late \in BOOLEAN /\ astray' \in BOOLEAN BY <2>2 DEF Logs!Opens, Logs!TypeOK
    <3>4. where[c] \in 0..2 BY <1>4, Thread
    <3>. QED BY <3>1, <3>2, <3>3, <3>4
  <2>3. CASE Logs!Arms(c) BY <1>4, <2>3 DEF Logs!Arms, Logs!discord, Logs!TypeOK, Told
  <2>4. CASE Logs!Closes(c) \/ Logs!SignsOff(c)
    <3>1. open' \in {open, 0} /\ Told' \subseteq Told \cup {where[c]} /\ UNCHANGED <<live, late, astray>>
      BY <2>4 DEF Logs!Closes, Logs!SignsOff, Logs!discord, Told
    <3>2. open \in 0..2 /\ 0 \in 0..2 /\ Told \subseteq Logs!Threads BY Kinds, Thread
    <3>. QED BY <1>4, <3>1, <3>2 DEF Logs!TypeOK
  <2>5. CASE Logs!DisarmsIt(c) BY <1>4, <2>5 DEF Logs!DisarmsIt, Logs!Disarms, Logs!discord, Logs!TypeOK, Told
  <2>. QED BY <2>1, <2>2, <2>3, <2>4, <2>5
<1>6. Logs!TypeOK' BY <1>1, <1>2, <1>5 DEF Logs!TypeOK, Places, Told
<1>7. RowsAreTold'
  <2>1. CASE Logs!Checks(c) \/ Logs!Tells(c) \/ Logs!Closes(c) \/ Logs!DisarmsIt(c)
    <3>1. Told \subseteq Told' /\ (open' = open \/ open' = 0)
      BY <2>1 DEF Logs!Checks, Logs!Tells, Logs!Closes, Logs!DisarmsIt, Told
    <3>2. to = "opening" => where[c] \in Told'
      BY <1>3, <2>1 DEF Logs!Checks, Logs!Tells, Logs!Closes, Logs!DisarmsIt, Logs!Goes, Logs!TypeOK, Told
    <3>. QED BY <1>2, <1>3, <1>4, <3>1, <3>2 DEF RowsAreTold
  <2>2. CASE Logs!Opens(c) \/ Logs!Arms(c)
    <3>1. Told' = Told /\ (open' = open \/ (open' = where[c] /\ at[c] = "opening"))
      BY <2>2 DEF Logs!Opens, Logs!Arms, Told
    <3>2. to # "opening" BY <1>3, <2>2 DEF Logs!Opens, Logs!Arms, Logs!Goes, Logs!TypeOK
    <3>. QED BY <1>2, <1>3, <1>4, <3>1, <3>2 DEF RowsAreTold
  <2>3. CASE Logs!SignsOff(c)
    <3>1. open' = open /\ to # "opening" /\ at[c] = "signing off"
      BY <1>3, <2>3 DEF Logs!SignsOff, Logs!Goes, Logs!TypeOK
    <3>2. \A t \in Told : Logs!OnAgain(t) => t \in Told' BY <2>3 DEF Logs!SignsOff, Told
    <3>3. \A d \in Commands : at'[d] = "opening" => where[d] \in Told /\ at[d] = "opening"
      BY <1>3, <3>1 DEF RowsAreTold
    <3>. QED BY <1>2, <1>3, <1>4, <3>1, <3>2, <3>3 DEF RowsAreTold, Logs!OnAgain
  <2>. QED BY <2>1, <2>2, <2>3
<1>8. ArmedSoon'
  <2>. SUFFICES ASSUME open' # 0, ~late', open' \notin live'
                PROVE  \E d \in Commands : at'[d] = "arming" /\ where[d] = open'
    BY <1>2 DEF ArmedSoon
  <2>1. CASE Logs!Checks(c) \/ Logs!Tells(c) \/ Logs!SignsOff(c)
    <3>1. UNCHANGED <<open, live, late>> /\ at[c] # "arming"
      BY <2>1 DEF Logs!Checks, Logs!Tells, Logs!SignsOff
    <3>. QED BY <1>3, <3>1 DEF ArmedSoon
  <2>2. CASE Logs!Opens(c)
    <3>1. CASE open = 0
      <4>1. open' = where[c] /\ to = "arming" BY <1>3, <2>2, <3>1 DEF Logs!Opens, Logs!Goes, Logs!TypeOK
      <4>. QED BY <1>3, <4>1
    <3>2. CASE open # 0
      <4>1. UNCHANGED <<open, live, late>> /\ at[c] # "arming" BY <2>2, <3>2 DEF Logs!Opens
      <4>. QED BY <1>3, <3>2, <4>1 DEF ArmedSoon
    <3>. QED BY <3>1, <3>2
  <2>3. CASE Logs!Arms(c) BY <2>3 DEF Logs!Arms
  <2>4. CASE Logs!Closes(c) BY <2>4 DEF Logs!Closes
  <2>5. CASE Logs!DisarmsIt(c)
    <3>1. open' = open /\ live' = live \ {where[c]} /\ open # where[c] /\ ~late /\ at[c] # "arming"
      BY <2>5 DEF Logs!DisarmsIt, Logs!Disarms
    <3>. QED BY <1>3, <3>1 DEF ArmedSoon
  <2>. QED BY <2>1, <2>2, <2>3, <2>4, <2>5
<1>9. EndedSoon'
  <2>1. CASE Logs!Opens(c) BY <1>2, <2>1 DEF Logs!Opens, EndedSoon
  <2>2. CASE Logs!Closes(c) BY <1>2, <2>2 DEF Logs!Closes, EndedSoon, Logs!discord
  <2>3. CASE Logs!Checks(c) \/ Logs!Tells(c) \/ Logs!Arms(c) \/ Logs!DisarmsIt(c) \/ Logs!SignsOff(c)
    BY <1>2, <2>3 DEF Logs!Checks, Logs!Tells, Logs!Arms, Logs!DisarmsIt, Logs!SignsOff, EndedSoon, Logs!discord
  <2>. QED BY <2>1, <2>2, <2>3
<1>. QED BY <1>2, <1>6, <1>7, <1>8, <1>9 DEF CaughtAreTold

LEMMA MessageStep ==
  ASSUME LogsInv, NEW m \in Messages,
         (\E t \in Logs!Threads, wanted \in BOOLEAN : Logs!Says(m, t, wanted)) \/ Logs!Captures(m) \/ Logs!Drops(m)
  PROVE  LogsInv'
<1>. USE DEF LogsInv
<1>1. PICK to \in {"caught", "unwanted", "kept", "let by"} : message' = [message EXCEPT ![m] = to]
  BY DEF Logs!Says, Logs!Captures, Logs!Drops, Logs!Moves
<1>2. UNCHANGED <<pointer, gone, gateway, astray, open, notice, crossed, at, where, orders, restarts>>
  BY DEF Logs!Says, Logs!Captures, Logs!Drops, Logs!discord, Logs!command
<1>3. message'[m] = to /\ \A k \in Messages : k # m => message'[k] = message[k] BY <1>1 DEF Logs!TypeOK
<1>4. /\ live' \subseteq Logs!Threads /\ late' \in BOOLEAN
      /\ (live' = live /\ late' = late) \/ \E t \in 0..2 : live' = live \ {t} /\ (late' <=> late \/ open = t)
  <2>1. CASE (\E t \in Logs!Threads, wanted \in BOOLEAN : Logs!Says(m, t, wanted)) \/ Logs!Captures(m)
    BY <2>1 DEF Logs!Says, Logs!Captures, Logs!TypeOK
  <2>2. CASE Logs!Drops(m)
    <3>1. said[m] \in 0..2 /\ live' = live \ {said[m]} /\ late' = (late \/ open = said[m])
      BY <2>2 DEF Logs!Drops, Logs!Disarms, Logs!TypeOK
    <3>. QED BY <3>1 DEF Logs!TypeOK
  <2>. QED BY <2>1, <2>2
<1>5. said' \in [Messages -> 0..2] /\ told' \subseteq Messages /\ told \subseteq told'
  <2>1. CASE \E t \in Logs!Threads, wanted \in BOOLEAN : Logs!Says(m, t, wanted)
    <3>1. PICK t \in 0..2 : said' = [said EXCEPT ![m] = t] /\ told' \in {told, told \cup {m}}
      <4>1. PICK t \in Logs!Threads, wanted \in BOOLEAN : Logs!Says(m, t, wanted) BY <2>1
      <4>2. t \in 0..2 BY <4>1, Thread
      <4>. QED BY <4>1, <4>2 DEF Logs!Says
    <3>. QED BY <3>1 DEF Logs!TypeOK
  <2>2. CASE Logs!Captures(m) \/ Logs!Drops(m) BY <2>2 DEF Logs!Captures, Logs!Drops, Logs!TypeOK
  <2>. QED BY <2>1, <2>2
<1>6. Logs!TypeOK' BY <1>1, <1>2, <1>4, <1>5 DEF Logs!TypeOK
<1>7. to \in {"caught", "kept"} => m \in told'
  <2>1. ASSUME NEW t \in Logs!Threads, NEW wanted \in BOOLEAN, Logs!Says(m, t, wanted), to = "caught"
        PROVE  m \in told'
    <3>1. t \in live BY <1>3, <2>1 DEF Logs!Says, Logs!Moves, Logs!IsLogging, Logs!TypeOK
    <3>2. t \in notice \cup crossed \/ Logs!Ahead(t)
      <4>1. t # 0 BY <2>1, Thread
      <4>. QED BY <3>1, <4>1 DEF Logs!Ahead, RowsAreTold, Told
    <3>. QED BY <2>1, <3>2 DEF Logs!Says
  <2>2. ASSUME NEW t \in Logs!Threads, NEW wanted \in BOOLEAN, Logs!Says(m, t, wanted) PROVE to \in {"caught", "let by"}
    BY <1>3, <2>2 DEF Logs!Says, Logs!Moves, Logs!TypeOK
  <2>3. CASE Logs!Captures(m) BY <2>3, <1>5 DEF Logs!Captures, CaughtAreTold
  <2>4. CASE Logs!Drops(m) BY <1>3, <2>4 DEF Logs!Drops, Logs!Moves, Logs!TypeOK
  <2>. QED BY <2>1, <2>2, <2>3, <2>4
<1>8. CaughtAreTold' BY <1>3, <1>5, <1>7 DEF CaughtAreTold
<1>9. ArmedSoon'
  <2>. SUFFICES ASSUME open # 0, ~late', open \notin live'
                PROVE  \E c \in Commands : at[c] = "arming" /\ where[c] = open
    BY <1>2 DEF ArmedSoon
  <2>1. ~late /\ open \notin live
    <3>1. CASE live' = live /\ late' = late BY <3>1
    <3>2. ASSUME NEW t, live' = live \ {t}, late' <=> late \/ open = t PROVE ~late /\ open \notin live BY <3>2
    <3>. QED BY <1>4, <3>1, <3>2
  <2>. QED BY <2>1 DEF ArmedSoon
<1>. QED BY <1>2, <1>6, <1>8, <1>9 DEF RowsAreTold, Told, EndedSoon

LEMMA LogsStep == LogsInv /\ [Logs!Next]_(Logs!vars) => LogsInv'
<1>. SUFFICES ASSUME LogsInv, [Logs!Next]_(Logs!vars) PROVE LogsInv' OBVIOUS
<1>. USE DEF LogsInv
<1>1. CASE UNCHANGED Logs!vars
  BY <1>1 DEF Logs!vars, Logs!TypeOK, RowsAreTold, Told, ArmedSoon, EndedSoon, CaughtAreTold
<1>2. CASE Logs!Deleted \/ Logs!Rebuilt \/ Logs!LetsGo
  <2>1. UNCHANGED <<open, live, notice, crossed, at, where, orders, message, said, told, restarts, late>>
    BY <1>2 DEF Logs!Deleted, Logs!Rebuilt, Logs!LetsGo, Logs!command, Logs!words
  <2>2. /\ pointer' \in {pointer, 2, 0} /\ gone' \in {gone, {1}} /\ astray' \in {astray, TRUE}
        /\ gateway' \in {gateway, "quiet", "told", "ending", "disarming"}
    BY <1>2 DEF Logs!Deleted, Logs!Rebuilt, Logs!LetsGo
  <2>4. Logs!TypeOK'
    <3>1. pointer' \in 0..2 BY <2>2, Kinds, Thread
    <3>2. gone' \subseteq Logs!Threads BY <2>2 DEF Logs!TypeOK, Logs!Threads
    <3>. QED BY <2>1, <2>2, <3>1, <3>2 DEF Logs!TypeOK
  <2>3. EndedSoon' BY <1>2, <2>1 DEF Logs!Deleted, Logs!Rebuilt, Logs!LetsGo, EndedSoon, Logs!TypeOK
  <2>. QED BY <2>1, <2>3, <2>4 DEF RowsAreTold, Told, ArmedSoon, CaughtAreTold
<1>3. CASE Logs!Ends
  <2>1. UNCHANGED <<pointer, gone, live, notice, crossed, at, where, orders, message, said, told, restarts, late, astray>>
        /\ open' \in {open, 0} /\ (open' = open => open # 1) /\ gateway' = "disarming"
    BY <1>3 DEF Logs!Ends, Logs!command, Logs!words
  <2>2. Logs!TypeOK'
    <3>1. open' \in 0..2 BY <2>1, Kinds, Thread
    <3>. QED BY <2>1, <3>1 DEF Logs!TypeOK
  <2>3. EndedSoon'
    <3>1. gone' \subseteq {1} BY <2>1 DEF EndedSoon
    <3>2. open' # 1 BY <2>1
    <3>. QED BY <3>1, <3>2 DEF EndedSoon
  <2>4. ArmedSoon' BY <2>1 DEF ArmedSoon
  <2>5. RowsAreTold' BY <2>1 DEF RowsAreTold, Told
  <2>. QED BY <2>1, <2>2, <2>3, <2>4, <2>5 DEF CaughtAreTold
<1>4. CASE Logs!DisarmsGone
  <2>1. UNCHANGED <<pointer, gone, open, notice, crossed, at, where, orders, message, said, told, restarts, astray>>
        /\ live' = live \ {1} /\ late' = (late \/ open = 1) /\ gateway' = "quiet" /\ gateway = "disarming"
    BY <1>4 DEF Logs!DisarmsGone, Logs!command, Logs!words, Logs!Disarms
  <2>2. live' \subseteq Logs!Threads /\ late' \in BOOLEAN BY <2>1 DEF Logs!TypeOK
  <2>3. Logs!TypeOK' BY <2>1, <2>2 DEF Logs!TypeOK
  <2>4. EndedSoon' BY <2>1 DEF EndedSoon
  <2>5. ArmedSoon' BY <2>1, <2>2 DEF ArmedSoon
  <2>6. RowsAreTold' BY <2>1 DEF RowsAreTold, Told
  <2>. QED BY <2>1, <2>3, <2>4, <2>5, <2>6 DEF CaughtAreTold
<1>5. CASE Logs!Restart
  <2>1. /\ UNCHANGED <<pointer, gone, open, notice, crossed, where, orders, said, told>>
        /\ live' = (IF open = 0 THEN {} ELSE {open}) /\ at' = [c \in Commands |-> "idle"]
        /\ late' = FALSE /\ gateway' = "quiet" /\ astray' = (astray \/ gateway # "quiet")
    BY <1>5 DEF Logs!Restart, Logs!Reloaded
  <2>0. restarts' \in 0 .. MaxRestarts
    <3>1. restarts \in 0 .. MaxRestarts /\ restarts' = restarts + 1 /\ restarts < MaxRestarts /\ MaxRestarts \in Nat
      BY <1>5, DeliveriesAssumption DEF Logs!Restart, Logs!TypeOK, Logs!ConversationsAssumption
    <3>. QED BY <3>1
  <2>2. message' \in [Messages -> {"unsaid", "caught", "unwanted", "kept", "let by"}]
        /\ \A m \in Messages : message'[m] \in {message[m], "let by"}
    BY <1>5 DEF Logs!Restart, Logs!TypeOK
  <2>3. Logs!TypeOK'
    <3>1. live' \subseteq Logs!Threads
      <4>1. open # 0 => open \in Logs!Threads BY Kinds DEF RowsAreTold
      <4>. QED BY <2>1, <4>1
    <3>2. at' \in [Commands -> Places] BY <2>1 DEF Places
    <3>3. astray' \in BOOLEAN /\ late' \in BOOLEAN BY <2>1 DEF Logs!TypeOK
    <3>. QED BY <2>0, <2>1, <2>2, <3>1, <3>2, <3>3 DEF Logs!TypeOK, Places
  <2>4. RowsAreTold' /\ ArmedSoon' /\ EndedSoon'
    BY <2>1 DEF RowsAreTold, Told, ArmedSoon, EndedSoon, Logs!TypeOK
  <2>5. CaughtAreTold' BY <2>1, <2>2 DEF CaughtAreTold
  <2>. QED BY <2>3, <2>4, <2>5
<1>. QED BY <1>1, <1>2, <1>3, <1>4, <1>5, OrderStep, CommandStep, MessageStep DEF Logs!Next

----
(* The whole. *)

\* A step is one part's, and the others stay as they were.
LEMMA StepIsAPartsStep ==
  ASSUME [DeliveriesNext]_allVars
  PROVE  /\ [Requests!Next]_(Requests!requestsVars)
         /\ [Tokens!Next]_(Tokens!installationVars)
         /\ [Logs!Next]_(Logs!vars)
<1>1. UNCHANGED requestsAside => UNCHANGED Requests!requestsVars
  BY DEF requestsAside, Requests!requestsVars, Requests!hub, Requests!table, Requests!sync, Requests!counts
<1>2. UNCHANGED tokensAside => UNCHANGED Tokens!installationVars
  BY DEF tokensAside, Tokens!installationVars, Tokens!hub, Tokens!kept
<1>3. UNCHANGED logsAside => UNCHANGED Logs!vars BY DEF logsAside, Logs!vars
<1>4. CASE UNCHANGED allVars BY <1>1, <1>2, <1>3, <1>4 DEF allVars
<1>5. CASE RunTheQueue BY <1>1, <1>2, <1>3, <1>5 DEF RunTheQueue
<1>6. CASE RequestReviews BY <1>2, <1>3, <1>6 DEF RequestReviews
<1>7. CASE MintTokens BY <1>1, <1>3, <1>7 DEF MintTokens
<1>8. CASE LogThreads BY <1>1, <1>2, <1>8 DEF LogThreads
<1>. QED BY <1>4, <1>5, <1>6, <1>7, <1>8 DEF DeliveriesNext

LEMMA PartsHold == DeliveriesSpec => [](RequestsInv /\ TokensInv /\ LogsInv)
<1>1. DeliveriesInit => RequestsInv /\ TokensInv /\ LogsInv
  BY RequestsInit, TokensInit, LogsInit DEF DeliveriesInit
<1>2. RequestsInv /\ TokensInv /\ LogsInv /\ [DeliveriesNext]_allVars => (RequestsInv /\ TokensInv /\ LogsInv)'
  BY StepIsAPartsStep, RequestsStep, TokensStep, LogsStep
<1>. QED BY <1>1, <1>2, PTL DEF DeliveriesSpec

(* Rows, queues, locks and histories keep their types in all three parts:  *)
(* nothing is recorded before it is sent, and whoever is idle holds        *)
(* nothing.                                                                *)
THEOREM OthersKeepTheirTypes == DeliveriesSpec => []OthersTypeOK
<1>1. RequestsInv /\ TokensInv /\ LogsInv => OthersTypeOK BY RequestsAre, TokensAre, LogsAre DEF OthersTypeOK
<1>. QED BY <1>1, PartsHold, PTL

(* However many ask at once, no token is minted while a fresh one is kept, *)
(* and when nothing is on its way the row is what GitHub has, unless a     *)
(* delivery was lost or overtaken (shannon/github/installations.py).       *)
THEOREM TokensAlwaysServe == DeliveriesSpec => []TokensServe
<1>1. TokensInv => TokensServe BY TokensAre DEF TokensServe
<1>. QED BY <1>1, PartsHold, PTL

(* What is kept was said under a notice, what is said in a thread being    *)
(* logged is caught, and no thread that has gone stays logged, however     *)
(* commands, messages, deletions and restarts cross, but while the set is  *)
(* ahead of the rows or behind them, or where a stop's notice is posted    *)
(* after that of another start (shannon/services/transcripts/log.py:69-209).*)
THEOREM AlwaysHeardAsTold == DeliveriesSpec => []HeardAsTold
<1>1. LogsInv => HeardAsTold BY LogsAre DEF HeardAsTold
<1>. QED BY <1>1, PartsHold, PTL

----
(* How often the party is rung.  Between two reads of GitHub's list of     *)
(* which the older lacks the party and the newer has it, they were asked;  *)
(* so each fresh request in the row is good for an ask of its own.         *)

Stamp(n) == letters[n].stamp
IsAsk(n) == letters[n].named /\ ~letters[n].review
\* Nobody is asked after it.
Drops(n) == letters[n].review \/ ~letters[n].listed

AskLetters(ls)  == {k \in DOMAIN ls : ls[k].named /\ ~ls[k].review}
AsksBy(ls, y)   == Cardinality({k \in AskLetters(ls) : ls[k].stamp <= y})
AskedSince(n, y)  == \E k \in DOMAIN letters : n < k /\ IsAsk(k) /\ Stamp(k) <= y
AskedWithin(x, y) == \E k \in DOMAIN letters : IsAsk(k) /\ x <= Stamp(k) /\ Stamp(k) <= y

\* GitHub sends in order, and lists nobody again without a word.
LettersInOrder ==
    /\ \A i, j \in DOMAIN letters : i <= j => Stamp(i) <= Stamp(j)
    /\ \A i \in DOMAIN letters :
          /\ Stamp(i) <= second /\ (letters[i].named => letters[i].listed)
          /\ letters[i].review => letters[i].named
    /\ \A i, j \in DOMAIN letters :
          i < j /\ Drops(i) /\ ~Drops(j) => \E k \in DOMAIN letters : i < k /\ k <= j /\ IsAsk(k)
    /\ asked => /\ \A i \in DOMAIN letters : Drops(i) => AskedSince(i, second)
                /\ \E j \in DOMAIN letters : letters[j].listed /\ Stamp(j) = second
    /\ asks = Cardinality(AskLetters(letters))

Fetched(s)     == doing[s] # "idle" /\ payload[s].arrived = 0
ListedAt(x)    == \E j \in DOMAIN letters : letters[j].listed /\ Stamp(j) = x
OfALetter(s) ==
    /\ payload[s].arrived \in unread /\ ~letters[payload[s].arrived].review
    /\ payload[s].stamp = Stamp(payload[s].arrived)
    /\ payload[s].listed = letters[payload[s].arrived].listed
    /\ payload[s].named = letters[payload[s].arrived].named
    /\ \A t \in Syncs : payload[t].arrived = payload[s].arrived => t = s
LoadsAre ==
    \A s \in Syncs :
       /\ Fetched(s) => /\ payload[s].stamp <= second /\ ~payload[s].named
                        /\ payload[s].listed => ListedAt(payload[s].stamp)
       /\ payload[s].arrived # 0 => OfALetter(s)

\* Nothing carries one second with what came before it about the party.
NoTies ==
    /\ \A i, k \in DOMAIN letters : i < k /\ IsAsk(k) /\ letters[i].listed => Stamp(i) < Stamp(k)
    /\ \A s \in Syncs : Fetched(s) /\ payload[s].listed =>
          \A i \in DOMAIN letters :
             Drops(i) /\ Stamp(i) <= payload[s].stamp => AskedSince(i, payload[s].stamp)
    /\ \A s \in Syncs : Fetched(s) /\ ~payload[s].listed =>
          /\ \A j \in unread :
                ~Drops(j) /\ payload[s].stamp <= Stamp(j) => AskedWithin(payload[s].stamp, Stamp(j))
          /\ \A t \in Syncs :
                Fetched(t) /\ payload[t].listed /\ payload[s].stamp <= payload[t].stamp =>
                   AskedWithin(payload[s].stamp, payload[t].stamp)
          /\ asked => AskedWithin(payload[s].stamp, second)

\* The row is as new as the letter.
Past(n) == Stamp(n) < mark \/ (Stamp(n) = mark /\ n <= applied)
RowIs ==
    /\ mark <= second /\ (applied # 0 => Stamp(applied) <= mark)
    /\ row # NULL =>
          /\ row.since <= mark /\ ListedAt(row.since)
          /\ row.answered # 0 =>
                /\ row.since <= row.answered
                /\ \E m \in DOMAIN letters : letters[m].review /\ Stamp(m) = row.answered
    /\ \A n \in DOMAIN letters \ unread : ~letters[n].review => Past(n)
    /\ \A s \in Syncs :
          doing[s] \notin {"idle", "waiting"} /\ payload[s].arrived # 0 => Past(payload[s].arrived)

\* Pings posted, in hand, and still to be claimed.
Ringing == {s \in Syncs : doing[s] \in {"pinging", "giving_back"}}
ToTell  == IF row # NULL /\ ~row.told THEN 1 ELSE 0
Used    == rung + Cardinality(Ringing) + ToTell

\* Whoever may make the row again was written after one ask more.
RowOfAnAsk == row # NULL => Used <= AsksBy(letters, row.since)
AskToCome  ==
    row = NULL =>
       /\ Used <= asks /\ (asked => Used < asks)
       /\ \A j \in unread :
             ~Drops(j) /\ mark <= Stamp(j) /\ ~(Stamp(j) = mark /\ j < applied) =>
                Used < AsksBy(letters, Stamp(j))
       /\ \A s \in Syncs :
             doing[s] = "waiting" /\ Fetched(s) /\ payload[s].listed /\ mark <= payload[s].stamp =>
                Used < AsksBy(letters, payload[s].stamp)

\* The ask that stands.
LastAsk(n)  == IsAsk(n) /\ \A j \in DOMAIN letters : n < j => ~Drops(j) /\ ~IsAsk(j)
Recorded(n) == n \notin unread \/ \E s \in Syncs : payload[s].arrived = n /\ doing[s] # "waiting"
WillRing    == row # NULL /\ row.answered = 0 /\ (row.told => Ringing # {})
ToBeOpened(n) == ~Recorded(n) /\ row # NULL /\ row.told /\ row.since < Stamp(n) /\ Ringing = {}
WillBeHeard(n) ==
    /\ \A s \in Syncs : Fetched(s) /\ ~payload[s].listed => payload[s].stamp < Stamp(n)
    /\ row # NULL => /\ row.answered < Stamp(n)
                     /\ row.told /\ row.since >= Stamp(n) => Ringing # {}
    /\ Past(n) => WillRing \/ ToBeOpened(n)
AskStands == unrung => asked /\ \E n \in DOMAIN letters : LastAsk(n)
AskIsHeard == unrung => \A n \in DOMAIN letters : LastAsk(n) => WillBeHeard(n)

HistoryKinds ==
    /\ asks \in Nat /\ rung \in Nat /\ unrung \in BOOLEAN /\ excused \in BOOLEAN

AsksInv ==
    /\ RequestsInv /\ HistoryKinds /\ LettersInOrder /\ LoadsAre /\ RowIs /\ AskStands
    /\ ~excused => NoTies /\ RowOfAnAsk /\ AskToCome /\ AskIsHeard

(* Counting. *)

LEMMA AsksCounted ==
  ASSUME NEW ls \in Seq(Letters), NEW y \in Nat
  PROVE  /\ IsFiniteSet(AskLetters(ls)) /\ Cardinality(AskLetters(ls)) \in Nat
         /\ AsksBy(ls, y) \in Nat /\ AsksBy(ls, y) <= Cardinality(AskLetters(ls))
         /\ (\A k \in AskLetters(ls) : ls[k].stamp <= y) => AsksBy(ls, y) = Cardinality(AskLetters(ls))
<1>1. DOMAIN ls = 1 .. Len(ls) /\ Len(ls) \in Nat OBVIOUS
<1>2. IsFiniteSet(1 .. Len(ls)) BY <1>1, FS_Interval
<1>3. AskLetters(ls) \in SUBSET (1 .. Len(ls)) BY <1>1 DEF AskLetters
<1>4. IsFiniteSet(AskLetters(ls)) /\ Cardinality(AskLetters(ls)) \in Nat
  BY <1>2, <1>3, FS_Subset, FS_CardinalityType
<1>. DEFINE S == {k \in AskLetters(ls) : ls[k].stamp <= y}
<1>5. S \in SUBSET AskLetters(ls) OBVIOUS
<1>6. IsFiniteSet(S) /\ Cardinality(S) \in Nat /\ Cardinality(S) <= Cardinality(AskLetters(ls))
  BY <1>4, <1>5, FS_Subset, FS_CardinalityType
<1>7. (\A k \in AskLetters(ls) : ls[k].stamp <= y) => S = AskLetters(ls) OBVIOUS
<1>. QED BY <1>4, <1>6, <1>7 DEF AsksBy

LEMMA AsksGrow ==
  ASSUME NEW ls \in Seq(Letters), NEW y \in Nat, NEW z \in Nat, y <= z
  PROVE  /\ AsksBy(ls, y) <= AsksBy(ls, z)
         /\ (\E k \in AskLetters(ls) : y < ls[k].stamp /\ ls[k].stamp <= z) => AsksBy(ls, y) < AsksBy(ls, z)
<1>. DEFINE A == {k \in AskLetters(ls) : ls[k].stamp <= y}
            B == {k \in AskLetters(ls) : ls[k].stamp <= z}
<1>1. \A k \in AskLetters(ls) : ls[k].stamp \in Nat
  <2>1. \A k \in DOMAIN ls : ls[k] \in Letters OBVIOUS
  <2>2. \A l \in Letters : l.stamp \in Nat BY DEF Letters
  <2>. QED BY <2>1, <2>2 DEF AskLetters
<1>2. A \in SUBSET B BY <1>1
<1>3. IsFiniteSet(B) /\ Cardinality(B) \in Nat
  <2>1. B \in SUBSET AskLetters(ls) /\ IsFiniteSet(AskLetters(ls)) BY AsksCounted
  <2>. QED BY <2>1, FS_Subset, FS_CardinalityType
<1>4. /\ Cardinality(A) \in Nat /\ Cardinality(A) <= Cardinality(B)
      /\ Cardinality(B) = Cardinality(A) => B = A
  BY <1>2, <1>3, FS_Subset, FS_CardinalityType
<1>5. ASSUME NEW k \in AskLetters(ls), y < ls[k].stamp, ls[k].stamp <= z PROVE A # B
  <2>1. k \in B BY <1>5
  <2>2. k \notin A BY <1>1, <1>5
  <2>. QED BY <2>1, <2>2
<1>. HIDE DEF A, B
<1>6. A # B => Cardinality(A) < Cardinality(B) BY <1>3, <1>4
<1>7. AsksBy(ls, y) = Cardinality(A) /\ AsksBy(ls, z) = Cardinality(B) BY DEF AsksBy, A, B
<1>. QED BY <1>4, <1>5, <1>6, <1>7

LEMMA AsksAppended ==
  ASSUME NEW ls \in Seq(Letters), NEW l \in Letters
  PROVE  /\ Append(ls, l) \in Seq(Letters)
         /\ Cardinality(AskLetters(Append(ls, l))) =
               Cardinality(AskLetters(ls)) + (IF l.named /\ ~l.review THEN 1 ELSE 0)
         /\ \A y \in Nat : AsksBy(ls, y) <= AsksBy(Append(ls, l), y)
<1>. DEFINE ms == Append(ls, l)
            N == Len(ls) + 1
<1>1. /\ Len(ls) \in Nat /\ N \in Nat /\ DOMAIN ls = 1 .. Len(ls) /\ ms \in Seq(Letters) /\ Len(ms) = N
      /\ DOMAIN ms = 1 .. N /\ ms[N] = l OBVIOUS
<1>2. \A k \in DOMAIN ls : ms[k] = ls[k] /\ k # N BY <1>1
<1>3. DOMAIN ms = DOMAIN ls \cup {N} /\ N \notin DOMAIN ls
  <2>1. 1 .. N = 1 .. Len(ls) \cup {N} BY <1>1
  <2>2. N \notin 1 .. Len(ls) BY <1>1
  <2>. QED BY <1>1, <2>1, <2>2
<1>. HIDE DEF ms, N
<1>4. AskLetters(ms) = (IF l.named /\ ~l.review THEN AskLetters(ls) \cup {N} ELSE AskLetters(ls))
  BY <1>1, <1>2, <1>3 DEF AskLetters
<1>5. N \notin AskLetters(ls) BY <1>3 DEF AskLetters
<1>6. IsFiniteSet(AskLetters(ls)) /\ Cardinality(AskLetters(ls)) \in Nat BY AsksCounted, 0 \in Nat
<1>7. Cardinality(AskLetters(ls) \cup {N}) = Cardinality(AskLetters(ls)) + 1 BY <1>5, <1>6, FS_AddElement
<1>8. Cardinality(AskLetters(ms)) = Cardinality(AskLetters(ls)) + (IF l.named /\ ~l.review THEN 1 ELSE 0)
  BY <1>4, <1>6, <1>7
<1>9. ASSUME NEW y \in Nat PROVE AsksBy(ls, y) <= AsksBy(ms, y)
  <2>. DEFINE A == {k \in AskLetters(ls) : ls[k].stamp <= y}
              B == {k \in AskLetters(ms) : ms[k].stamp <= y}
  <2>1. A \in SUBSET B
    <3>1. \A k \in AskLetters(ls) : k \in AskLetters(ms) /\ ms[k] = ls[k] BY <1>2, <1>4 DEF AskLetters
    <3>. QED BY <3>1
  <2>2. IsFiniteSet(B)
    <3>1. B \in SUBSET AskLetters(ms) /\ IsFiniteSet(AskLetters(ms)) BY <1>1, AsksCounted, 0 \in Nat
    <3>. QED BY <3>1, FS_Subset
  <2>3. Cardinality(A) <= Cardinality(B) BY <2>1, <2>2, FS_Subset
  <2>. QED BY <2>3 DEF AsksBy
<1>. QED BY <1>1, <1>8, <1>9 DEF ms

(* What the letters and the loads are made of. *)

LEMMA LettersAre ==
  ASSUME HubKinds
  PROVE  /\ DOMAIN letters = 1 .. Len(letters) /\ Len(letters) \in Nat
         /\ unread \subseteq DOMAIN letters /\ second \in Nat \ {0}
         /\ \A n \in DOMAIN letters : n \in Nat \ {0} /\ n <= Len(letters) /\ Stamp(n) \in Nat \ {0}
<1>1. letters \in Seq(Letters) /\ DOMAIN letters = 1 .. Len(letters) /\ Len(letters) \in Nat BY DEF HubKinds
<1>2. \A n \in DOMAIN letters : letters[n] \in Letters BY <1>1
<1>3. \A l \in Letters : l.stamp \in Nat \ {0} BY DEF Letters
<1>. QED BY <1>1, <1>2, <1>3 DEF HubKinds, Stamp

LEMMA LoadsTyped ==
  ASSUME SyncKinds, NEW s \in Syncs
  PROVE  /\ payload[s] \in Loads /\ payload[s].stamp \in Nat /\ payload[s].arrived \in Nat
         /\ doing[s] = "idle" => payload[s].arrived = 0
         /\ doing[s] # "idle" => payload[s].stamp # 0
<1>1. payload[s] \in Loads BY DEF SyncKinds
<1>2. Requests!NoLoad.arrived = 0 BY DEF Requests!NoLoad
<1>. QED BY <1>1, <1>2 DEF SyncKinds, Loads

(* What a sync's step does to the syncs. *)

Quits(s) ==
    /\ doing[s] # "idle" /\ doing'[s] = "idle" /\ payload'[s] = Requests!NoLoad
    /\ unread' \in {unread, unread \ {payload[s].arrived}}
GoesOn(s) ==
    /\ doing[s] # "idle" /\ doing'[s] \in {"claiming", "pinging", "giving_back"}
    /\ payload'[s] = payload[s] /\ unread' = unread
OthersStay(s) == \A t \in Syncs \ {s} : doing'[t] = doing[t] /\ payload'[t] = payload[t]

LEMMA Quitting ==
  ASSUME SyncKinds, NEW s \in Syncs, Requests!Leave(s), doing[s] # "idle",
         unread' \in {unread, unread \ {payload[s].arrived}}
  PROVE  Quits(s) /\ OthersStay(s)
<1>1. Requests!NoLoad \in Loads /\ "idle" \in Stages BY DEF Requests!NoLoad, Loads, Stages
<1>2. doing' = [doing EXCEPT ![s] = "idle"] /\ payload' = [payload EXCEPT ![s] = Requests!NoLoad]
  BY DEF Requests!Leave
<1>. QED BY <1>1, <1>2, Moved DEF Quits, OthersStay

LEMMA Going ==
  ASSUME SyncKinds, NEW s \in Syncs, NEW d \in {"claiming", "pinging", "giving_back"},
         doing[s] # "idle", Requests!Goto(s, d), UNCHANGED <<payload, unread>>
  PROVE  GoesOn(s) /\ OthersStay(s) /\ doing'[s] = d
BY DEF SyncKinds, Requests!Goto, GoesOn, OthersStay

Steady == UNCHANGED <<second, asked, letters, asks>>

LEMMA Recording ==
  ASSUME SyncKinds, NEW s \in Syncs, Requests!Record(s)
  PROVE  /\ Steady /\ OthersStay(s) /\ doing[s] = "waiting" /\ UNCHANGED <<rung, unrung, excused>>
         /\ Quits(s) \/ (GoesOn(s) /\ doing'[s] = "claiming")
<1>1. CASE Requests!Superseded(payload[s])
  BY <1>1, Quitting DEF Requests!Record, Requests!Handled, Steady, Requests!hub, Requests!counts
<1>2. CASE ~Requests!Superseded(payload[s])
  BY <1>2, Going DEF Requests!Record, Steady, Requests!hub, Requests!counts
<1>. QED BY <1>1, <1>2

LEMMA Leaving ==
  ASSUME SyncKinds, NEW s \in Syncs,
         \/ Requests!ClaimNone(s) \/ Requests!Ping(s) \/ Requests!GiveBack(s)
         \/ Requests!GiveBackFails(s) \/ Requests!Abort(s)
  PROVE  Steady /\ OthersStay(s) /\ Quits(s) /\ UNCHANGED <<mark, applied>>
<1>1. Requests!Leave(s) /\ doing[s] # "idle" /\ unread' \in {unread, unread \ {payload[s].arrived}}
  BY DEF Requests!ClaimNone, Requests!Ping, Requests!GiveBack, Requests!GiveBackFails, Requests!Abort,
    Requests!Handled, Requests!Raise
<1>2. Steady /\ UNCHANGED <<mark, applied>>
  BY DEF Requests!ClaimNone, Requests!Ping, Requests!GiveBack, Requests!GiveBackFails, Requests!Abort, Steady,
    Requests!hub, Requests!table, Requests!counts
<1>. QED BY <1>1, <1>2, Quitting

LEMMA Pinging ==
  ASSUME SyncKinds, NEW s \in Syncs, Requests!ClaimPing(s) \/ Requests!PingFails(s)
  PROVE  Steady /\ OthersStay(s) /\ GoesOn(s) /\ UNCHANGED <<mark, applied>>
<1>1. CASE Requests!ClaimPing(s) BY <1>1, Going DEF Requests!ClaimPing, Steady, Requests!hub, Requests!counts
<1>2. CASE Requests!PingFails(s) BY <1>2, Going DEF Requests!PingFails, Steady, Requests!hub, Requests!table
<1>. QED BY <1>1, <1>2

LEMMA Taking ==
  ASSUME RequestsInv, NEW s \in Syncs, NEW n \in unread, Requests!Deliver(s, n)
  PROVE  /\ Steady /\ OthersStay(s) /\ UNCHANGED <<unread, row, mark, applied, rung, unrung, excused>>
         /\ doing[s] = "idle" /\ doing'[s] = "waiting"
         /\ payload'[s] = [arrived |-> n, stamp |-> Stamp(n),
                            listed |-> letters[n].listed, named |-> letters[n].named]
         /\ ~letters[n].review /\ \A t \in Syncs : payload[t].arrived # n
<1>1. /\ doing' = [doing EXCEPT ![s] = "waiting"]
      /\ payload' = [payload EXCEPT ![s] = [arrived |-> n, stamp |-> letters[n].stamp,
                                            listed |-> letters[n].listed, named |-> letters[n].named]]
      /\ UNCHANGED <<second, asked, letters, asks, unread, row, mark, applied, rung, unrung, excused>>
      /\ doing[s] = "idle" /\ ~letters[n].review /\ \A t \in Syncs : payload[t].arrived # n
  BY DEF Requests!Deliver, Requests!Goto, Requests!hub, Requests!table, Requests!counts
<1>2. doing \in [Syncs -> Stages] /\ payload \in [Syncs -> Loads] BY DEF RequestsInv, SyncKinds
<1>. QED BY <1>1, <1>2 DEF Steady, OthersStay, Stamp

LEMMA Reading ==
  ASSUME RequestsInv, NEW s \in Syncs, Requests!Fetch(s)
  PROVE  /\ Steady /\ OthersStay(s) /\ UNCHANGED <<unread, row, mark, applied, rung, unrung>>
         /\ doing[s] = "idle" /\ doing'[s] = "waiting"
         /\ payload'[s].arrived = 0 /\ payload'[s].stamp = second
         /\ payload'[s].listed = asked /\ payload'[s].named = FALSE
         /\ letters # <<>> /\ excused => excused'
<1>1. /\ doing' = [doing EXCEPT ![s] = "waiting"]
      /\ payload' = [payload EXCEPT ![s] = [Requests!NoLoad EXCEPT !.stamp = second, !.listed = asked]]
      /\ UNCHANGED <<second, asked, letters, asks, unread, row, mark, applied, rung, unrung>>
      /\ doing[s] = "idle" /\ letters # <<>> /\ (excused => excused')
  BY DEF Requests!Fetch, Requests!Goto, Requests!hub, Requests!table, Requests!counts
<1>2. doing \in [Syncs -> Stages] /\ payload \in [Syncs -> Loads] BY DEF RequestsInv, SyncKinds
<1>. DEFINE p == [Requests!NoLoad EXCEPT !.stamp = second, !.listed = asked]
<1>3. p.arrived = 0 /\ p.stamp = second /\ p.named = FALSE BY DEF Requests!NoLoad
<1>4. p.listed = asked BY DEF Requests!NoLoad
<1>5. payload'[s] = p BY <1>1, <1>2
<1>. HIDE DEF p
<1>. QED BY <1>1, <1>2, <1>3, <1>4, <1>5 DEF Steady, OthersStay

(* The loads, and what is tied. *)

LEMMA LoadsKept ==
  ASSUME RequestsInv, LoadsAre, NEW s \in Syncs, Steady, OthersStay(s), Quits(s) \/ GoesOn(s)
  PROVE  /\ LoadsAre'
         /\ \A t \in Syncs : Fetched(t)' => Fetched(t) /\ payload'[t] = payload[t]
<1>. USE DEF RequestsInv
<1>1. \A t \in Syncs : Fetched(t)' => Fetched(t) /\ payload'[t] = payload[t]
  BY DEF Fetched, OthersStay, Quits, GoesOn
<1>2. Requests!NoLoad.arrived = 0 /\ 0 \notin unread BY LettersAre DEF Requests!NoLoad
<1>3. \A t \in Syncs : payload'[t].arrived # 0 => payload'[t] = payload[t]
  BY <1>2 DEF OthersStay, Quits, GoesOn
<1>4. ASSUME NEW t \in Syncs, Fetched(t)'
      PROVE  /\ payload'[t].stamp <= second' /\ ~payload'[t].named
             /\ payload'[t].listed => ListedAt(payload[t].stamp)'
  <2>1. Fetched(t) /\ payload'[t] = payload[t] BY <1>1, <1>4
  <2>2. /\ payload[t].stamp <= second /\ ~payload[t].named
        /\ payload[t].listed => ListedAt(payload[t].stamp) BY <2>1 DEF LoadsAre
  <2>. QED BY <2>1, <2>2 DEF Steady, ListedAt, Stamp
<1>5. ASSUME NEW t \in Syncs, payload'[t].arrived # 0 PROVE OfALetter(t)'
  <2>1. payload'[t] = payload[t] /\ OfALetter(t) BY <1>3, <1>5 DEF LoadsAre
  <2>2. \A u \in Syncs : payload'[u].arrived = payload'[t].arrived => u = t BY <1>3, <1>5, <2>1 DEF OfALetter
  <2>3. payload[t].arrived \in unread'
    <3>1. CASE unread' = unread BY <2>1, <3>1 DEF OfALetter
    <3>2. CASE unread' = unread \ {payload[s].arrived} /\ payload'[s] = Requests!NoLoad
      <4>1. t # s BY <1>2, <1>5, <3>2
      <4>. QED BY <2>1, <3>2, <4>1 DEF OfALetter
    <3>. QED BY <3>1, <3>2 DEF Quits, GoesOn
  <2>. QED BY <2>1, <2>2, <2>3 DEF OfALetter, Steady, Stamp
<1>. QED BY <1>1, <1>4, <1>5 DEF LoadsAre

LEMMA LoadTaken ==
  ASSUME RequestsInv, LoadsAre, NEW s \in Syncs, NEW n \in unread, Requests!Deliver(s, n)
  PROVE  /\ LoadsAre' /\ ~Fetched(s)'
         /\ \A t \in Syncs : Fetched(t)' => Fetched(t) /\ payload'[t] = payload[t]
<1>. USE DEF RequestsInv
<1>1. /\ Steady /\ OthersStay(s) /\ unread' = unread
      /\ payload'[s] = [arrived |-> n, stamp |-> Stamp(n),
                        listed |-> letters[n].listed, named |-> letters[n].named]
      /\ ~letters[n].review /\ \A t \in Syncs : payload[t].arrived # n BY Taking
<1>2. n # 0 /\ payload'[s].arrived = n BY <1>1, LettersAre
<1>3. \A t \in Syncs : Fetched(t)' => t # s /\ Fetched(t) /\ payload'[t] = payload[t]
  BY <1>1, <1>2 DEF Fetched, OthersStay
<1>4. ASSUME NEW t \in Syncs, Fetched(t)'
      PROVE  /\ payload'[t].stamp <= second' /\ ~payload'[t].named
             /\ payload'[t].listed => ListedAt(payload[t].stamp)'
  <2>1. Fetched(t) /\ payload'[t] = payload[t] BY <1>3, <1>4
  <2>2. /\ payload[t].stamp <= second /\ ~payload[t].named
        /\ payload[t].listed => ListedAt(payload[t].stamp) BY <2>1 DEF LoadsAre
  <2>. QED BY <1>1, <2>1, <2>2 DEF Steady, ListedAt, Stamp
<1>5. ASSUME NEW t \in Syncs, payload'[t].arrived # 0 PROVE OfALetter(t)'
  <2>1. CASE t = s BY <1>1, <1>2, <2>1 DEF OfALetter, Steady, OthersStay, Stamp
  <2>2. CASE t # s
    <3>1. payload'[t] = payload[t] /\ OfALetter(t) BY <1>1, <1>5, <2>2 DEF OthersStay, LoadsAre
    <3>2. \A u \in Syncs : payload'[u].arrived = payload'[t].arrived => u = t
      BY <1>1, <1>2, <3>1 DEF OfALetter, OthersStay
    <3>. QED BY <1>1, <3>1, <3>2 DEF OfALetter, Steady, Stamp
  <2>. QED BY <2>1, <2>2
<1>. QED BY <1>3, <1>4, <1>5 DEF LoadsAre

LEMMA LoadRead ==
  ASSUME RequestsInv, LoadsAre, LettersInOrder, NEW s \in Syncs, Requests!Fetch(s)
  PROVE  /\ LoadsAre'
         /\ \A t \in Syncs \ {s} : Fetched(t)' => Fetched(t) /\ payload'[t] = payload[t]
<1>. USE DEF RequestsInv
<1>1. /\ Steady /\ OthersStay(s) /\ unread' = unread /\ payload'[s].arrived = 0
      /\ payload'[s].stamp = second /\ payload'[s].listed = asked /\ payload'[s].named = FALSE
  BY Reading
<1>3. \A t \in Syncs \ {s} : Fetched(t)' => Fetched(t) /\ payload'[t] = payload[t]
  BY <1>1 DEF Fetched, OthersStay
<1>4. ASSUME NEW t \in Syncs, Fetched(t)'
      PROVE  /\ payload'[t].stamp <= second' /\ ~payload'[t].named
             /\ payload'[t].listed => ListedAt(payload[t].stamp)'
  <2>1. CASE t # s
    <3>1. Fetched(t) /\ payload'[t] = payload[t] BY <1>3, <1>4, <2>1
    <3>2. /\ payload[t].stamp <= second /\ ~payload[t].named
          /\ payload[t].listed => ListedAt(payload[t].stamp)
      BY <3>1 DEF LoadsAre
    <3>. QED BY <1>1, <3>1, <3>2 DEF Steady, ListedAt, Stamp
  <2>2. CASE t = s
    <3>1. asked => ListedAt(second) BY DEF LettersInOrder, ListedAt
    <3>2. second \in Nat BY LettersAre
    <3>. QED BY <1>1, <2>2, <3>1, <3>2 DEF Steady, ListedAt, Stamp
  <2>. QED BY <2>1, <2>2
<1>5. ASSUME NEW t \in Syncs, payload'[t].arrived # 0 PROVE OfALetter(t)'
  <2>1. t # s /\ payload'[t] = payload[t] /\ OfALetter(t) BY <1>1, <1>5 DEF OthersStay, LoadsAre
  <2>2. \A u \in Syncs : payload'[u].arrived = payload'[t].arrived => u = t
    BY <1>1, <1>5, <2>1 DEF OfALetter, OthersStay
  <2>. QED BY <1>1, <2>1, <2>2 DEF OfALetter, Steady, Stamp
<1>. QED BY <1>3, <1>4, <1>5 DEF LoadsAre

LEMMA TiesKept ==
  ASSUME NoTies, UNCHANGED <<second, asked, letters>>, unread' \subseteq unread,
         \A t \in Syncs : Fetched(t)' => Fetched(t) /\ payload'[t] = payload[t]
  PROVE  NoTies'
<1>1. \A i, k \in DOMAIN letters :
         i < k /\ IsAsk(k)' /\ letters'[i].listed => Stamp(i)' < Stamp(k)'
  BY DEF NoTies, IsAsk, Stamp
<1>2. ASSUME NEW t \in Syncs, Fetched(t)', payload'[t].listed, NEW i \in DOMAIN letters,
             Drops(i)', Stamp(i)' <= payload'[t].stamp
      PROVE  AskedSince(i, payload[t].stamp)'
  <2>1. Fetched(t) /\ payload'[t] = payload[t] /\ Drops(i) /\ Stamp(i) <= payload[t].stamp
    BY <1>2 DEF Drops, Stamp
  <2>2. AskedSince(i, payload[t].stamp) BY <1>2, <2>1 DEF NoTies
  <2>. QED BY <2>1, <2>2 DEF AskedSince, IsAsk, Stamp
<1>3. ASSUME NEW t \in Syncs, Fetched(t)', ~payload'[t].listed
      PROVE  /\ \A j \in unread' :
                   ~Drops(j)' /\ payload'[t].stamp <= Stamp(j)' => AskedWithin(payload[t].stamp, Stamp(j))'
             /\ \A u \in Syncs :
                   Fetched(u)' /\ payload'[u].listed /\ payload'[t].stamp <= payload'[u].stamp =>
                      AskedWithin(payload[t].stamp, payload[u].stamp)'
             /\ asked' => AskedWithin(payload[t].stamp, second)'
  <2>1. Fetched(t) /\ payload'[t] = payload[t] BY <1>3
  <2>2. ASSUME NEW j \in unread', ~Drops(j)', payload'[t].stamp <= Stamp(j)'
        PROVE  AskedWithin(payload[t].stamp, Stamp(j))'
    <3>1. j \in unread /\ ~Drops(j) /\ payload[t].stamp <= Stamp(j) BY <2>1, <2>2 DEF Drops, Stamp
    <3>2. AskedWithin(payload[t].stamp, Stamp(j)) BY <1>3, <2>1, <3>1 DEF NoTies
    <3>. QED BY <2>1, <3>2 DEF AskedWithin, IsAsk, Stamp
  <2>3. ASSUME NEW u \in Syncs, Fetched(u)', payload'[u].listed, payload'[t].stamp <= payload'[u].stamp
        PROVE  AskedWithin(payload[t].stamp, payload[u].stamp)'
    <3>1. Fetched(u) /\ payload'[u] = payload[u] BY <2>3
    <3>2. AskedWithin(payload[t].stamp, payload[u].stamp) BY <1>3, <2>1, <2>3, <3>1 DEF NoTies
    <3>. QED BY <2>1, <3>1, <3>2 DEF AskedWithin, IsAsk, Stamp
  <2>4. ASSUME asked' PROVE AskedWithin(payload[t].stamp, second)'
    <3>1. AskedWithin(payload[t].stamp, second) BY <1>3, <2>1, <2>4 DEF NoTies
    <3>. QED BY <2>1, <3>1 DEF AskedWithin, IsAsk, Stamp
  <2>. QED BY <2>2, <2>3, <2>4
<1>. QED BY <1>1, <1>2, <1>3 DEF NoTies

LEMMA TiesOfARead ==
  ASSUME RequestsInv, LettersInOrder, LoadsAre, NoTies, NEW s \in Syncs, Requests!Fetch(s), ~excused'
  PROVE  NoTies'
<1>. USE DEF RequestsInv
<1>1. /\ Steady /\ OthersStay(s) /\ unread' = unread /\ payload'[s].arrived = 0
      /\ payload'[s].stamp = second /\ payload'[s].listed = asked /\ second \in Nat
  BY Reading, LettersAre
<1>2. /\ \A t \in Syncs : payload[t].arrived = 0 /\ payload[t].stamp = second => payload[t].listed = asked
      /\ \A n \in unread : letters[n].stamp = second => letters[n].listed = asked
  BY <1>1 DEF Requests!Fetch, Requests!TiedRead, Steady
<1>3. \A t \in Syncs \ {s} : Fetched(t)' => Fetched(t) /\ payload'[t] = payload[t] BY LoadRead
<1>4. \A i, k \in DOMAIN letters :
         i < k /\ IsAsk(k)' /\ letters'[i].listed => Stamp(i)' < Stamp(k)'
  BY <1>1 DEF NoTies, IsAsk, Stamp, Steady
<1>5. ASSUME NEW t \in Syncs, Fetched(t)', payload'[t].listed, NEW i \in DOMAIN letters,
             Drops(i)', Stamp(i)' <= payload'[t].stamp
      PROVE  AskedSince(i, payload[t].stamp)'
  <2>1. Drops(i) /\ Stamp(i)' = Stamp(i) BY <1>1, <1>5 DEF Drops, Stamp, Steady
  <2>2. CASE t # s
    <3>1. Fetched(t) /\ payload'[t] = payload[t] BY <1>3, <1>5, <2>2
    <3>2. AskedSince(i, payload[t].stamp) BY <1>5, <2>1, <3>1 DEF NoTies
    <3>. QED BY <1>1, <3>1, <3>2 DEF AskedSince, IsAsk, Stamp, Steady
  <2>3. CASE t = s
    <3>1. AskedSince(i, second) BY <1>1, <1>5, <2>1, <2>3 DEF LettersInOrder
    <3>. QED BY <1>1, <2>3, <3>1 DEF AskedSince, IsAsk, Stamp, Steady
  <2>. QED BY <2>2, <2>3
<1>6. ASSUME NEW t \in Syncs, Fetched(t)', ~payload'[t].listed
      PROVE  /\ \A j \in unread' :
                   ~Drops(j)' /\ payload'[t].stamp <= Stamp(j)' => AskedWithin(payload[t].stamp, Stamp(j))'
             /\ \A u \in Syncs :
                   Fetched(u)' /\ payload'[u].listed /\ payload'[t].stamp <= payload'[u].stamp =>
                      AskedWithin(payload[t].stamp, payload[u].stamp)'
             /\ asked' => AskedWithin(payload[t].stamp, second)'
  <2>1. CASE t # s
    <3>1. Fetched(t) /\ payload'[t] = payload[t] BY <1>3, <1>6, <2>1
    <3>2. ASSUME NEW j \in unread', ~Drops(j)', payload'[t].stamp <= Stamp(j)'
          PROVE  AskedWithin(payload[t].stamp, Stamp(j))'
      <4>1. j \in unread /\ ~Drops(j) /\ payload[t].stamp <= Stamp(j)
        BY <1>1, <3>1, <3>2 DEF Drops, Stamp, Steady
      <4>2. AskedWithin(payload[t].stamp, Stamp(j)) BY <1>6, <3>1, <4>1 DEF NoTies
      <4>. QED BY <1>1, <3>1, <4>2 DEF AskedWithin, IsAsk, Stamp, Steady
    <3>3. ASSUME NEW u \in Syncs, Fetched(u)', payload'[u].listed, payload'[t].stamp <= payload'[u].stamp
          PROVE  AskedWithin(payload[t].stamp, payload[u].stamp)'
      <4>1. CASE u # s
        <5>1. Fetched(u) /\ payload'[u] = payload[u] BY <1>3, <3>3, <4>1
        <5>2. AskedWithin(payload[t].stamp, payload[u].stamp) BY <1>6, <3>1, <3>3, <5>1 DEF NoTies
        <5>. QED BY <1>1, <3>1, <5>1, <5>2 DEF AskedWithin, IsAsk, Stamp, Steady
      <4>2. CASE u = s
        <5>1. AskedWithin(payload[t].stamp, second) BY <1>1, <1>6, <3>1, <3>3, <4>2 DEF NoTies
        <5>. QED BY <1>1, <3>1, <4>2, <5>1 DEF AskedWithin, IsAsk, Stamp, Steady
      <4>. QED BY <4>1, <4>2
    <3>4. ASSUME asked' PROVE AskedWithin(payload[t].stamp, second)'
      <4>1. AskedWithin(payload[t].stamp, second) BY <1>1, <1>6, <3>1, <3>4 DEF NoTies, Steady
      <4>. QED BY <1>1, <3>1, <4>1 DEF AskedWithin, IsAsk, Stamp, Steady
    <3>. QED BY <3>2, <3>3, <3>4
  <2>2. CASE t = s
    <3>1. ~asked /\ ~asked' BY <1>1, <1>6, <2>2 DEF Steady
    <3>2. ASSUME NEW j \in unread', ~Drops(j)', payload'[t].stamp <= Stamp(j)' PROVE FALSE
      <4>1. j \in unread /\ letters[j].listed /\ second <= letters[j].stamp
        BY <1>1, <2>2, <3>2 DEF Drops, Stamp, Steady
      <4>2. letters[j].stamp <= second /\ letters[j].stamp \in Nat
        BY <4>1, LettersAre DEF LettersInOrder, Stamp
      <4>. QED BY <1>1, <1>2, <3>1, <4>1, <4>2
    <3>3. ASSUME NEW u \in Syncs, Fetched(u)', payload'[u].listed, payload'[t].stamp <= payload'[u].stamp
          PROVE  FALSE
      <4>1. u # s BY <1>1, <3>1, <3>3
      <4>2. Fetched(u) /\ payload'[u] = payload[u] BY <1>3, <3>3, <4>1
      <4>3. payload[u].stamp <= second /\ payload[u].stamp \in Nat BY <4>2, LoadsTyped DEF LoadsAre
      <4>4. payload[u].stamp = second /\ payload[u].arrived = 0 BY <1>1, <2>2, <3>3, <4>2, <4>3 DEF Fetched
      <4>. QED BY <1>2, <3>1, <3>3, <4>2, <4>4
    <3>. QED BY <3>1, <3>2, <3>3
  <2>. QED BY <2>1, <2>2
<1>7. DOMAIN letters' = DOMAIN letters BY <1>1 DEF Steady
<1>. QED BY <1>4, <1>5, <1>6, <1>7 DEF NoTies

(* How new the row is. *)

LEMMA PastKept ==
  ASSUME RequestsInv, letters' = letters, mark \in Nat, mark' \in Nat, mark <= mark',
         applied \in Nat, applied' \in Nat, mark' = mark /\ applied # 0 => applied <= applied'
  PROVE  \A n \in DOMAIN letters : Past(n) => Past(n)'
<1>. SUFFICES ASSUME NEW n \in DOMAIN letters, Past(n) PROVE Past(n)' OBVIOUS
<1>1. n \in Nat \ {0} /\ Stamp(n) \in Nat /\ Stamp(n)' = Stamp(n) BY LettersAre DEF RequestsInv, Stamp
<1>2. CASE Stamp(n) < mark BY <1>1, <1>2 DEF Past
<1>3. CASE Stamp(n) = mark /\ n <= applied BY <1>1, <1>3 DEF Past
<1>. QED BY <1>2, <1>3 DEF Past

\* What a sync finds when it has the lock.
LEMMA Marked ==
  ASSUME RequestsInv, LoadsAre, RowIs, NEW s \in Syncs, Requests!Record(s)
  PROVE  /\ mark \in Nat /\ applied \in Nat /\ mark' \in Nat /\ applied' \in Nat
         /\ payload[s].stamp \in Nat \ {0} /\ payload[s].arrived \in Nat
         /\ mark <= mark' /\ (mark' = mark /\ applied # 0 => applied <= applied')
         /\ payload[s].stamp <= mark'
         /\ IF Requests!Superseded(payload[s])
            THEN /\ mark' = mark /\ applied' = applied /\ Quits(s)
                 /\ unread' = unread \ {payload[s].arrived}
                 /\ row' = Requests!Reopened(row, [payload[s] EXCEPT !.listed = FALSE])
            ELSE /\ mark' = payload[s].stamp /\ GoesOn(s)
                 /\ applied' = (IF payload[s].arrived = 0 THEN applied ELSE payload[s].arrived)
                 /\ row' = Requests!Reopened(Requests!Replaced(payload[s]), payload[s])
         /\ \A n \in DOMAIN letters : n = payload[s].arrived => Past(n)'
<1>. USE DEF RequestsInv
<1>1. /\ mark \in Nat /\ applied \in Nat /\ payload[s].stamp \in Nat \ {0} /\ payload[s].arrived \in Nat
      /\ doing[s] = "waiting" /\ letters' = letters
  BY LoadsTyped, LettersAre, Recording DEF TableKinds, Steady
<1>2. ASSUME NEW n \in DOMAIN letters, n = payload[s].arrived PROVE Stamp(n) = payload[s].stamp /\ n # 0
  BY <1>2, LettersAre DEF LoadsAre, OfALetter
<1>3. CASE Requests!Superseded(payload[s])
  <2>1. /\ mark' = mark /\ applied' = applied /\ unread' = unread \ {payload[s].arrived}
        /\ row' = Requests!Reopened(row, [payload[s] EXCEPT !.listed = FALSE])
    BY <1>3 DEF Requests!Record, Requests!Handled
  <2>2. Quits(s) BY <1>1, <1>3, Quitting DEF Requests!Record, Requests!Handled
  <2>3. payload[s].stamp <= mark BY <1>1, <1>3 DEF Requests!Superseded
  <2>4. ASSUME NEW n \in DOMAIN letters, n = payload[s].arrived PROVE Past(n)'
    <3>1. n # 0 /\ Stamp(n)' = payload[s].stamp BY <1>1, <1>2, <2>4 DEF Stamp
    <3>. QED BY <1>1, <1>3, <2>1, <2>4, <3>1 DEF Past, Requests!Superseded
  <2>. QED BY <1>1, <1>3, <2>1, <2>2, <2>3, <2>4
<1>4. CASE ~Requests!Superseded(payload[s])
  <2>1. /\ mark' = payload[s].stamp /\ Requests!Goto(s, "claiming") /\ UNCHANGED <<payload, unread>>
        /\ applied' = (IF payload[s].arrived = 0 THEN applied ELSE payload[s].arrived)
        /\ row' = Requests!Reopened(Requests!Replaced(payload[s]), payload[s])
    BY <1>4 DEF Requests!Record
  <2>2. GoesOn(s) BY <1>1, <2>1, Going
  <2>3. mark <= mark' /\ (mark' = mark /\ applied # 0 => applied <= applied')
    BY <1>1, <1>4, <2>1 DEF Requests!Superseded
  <2>4. ASSUME NEW n \in DOMAIN letters, n = payload[s].arrived PROVE Past(n)'
    <3>1. n # 0 /\ Stamp(n)' = payload[s].stamp BY <1>1, <1>2, <2>4 DEF Stamp
    <3>. QED BY <1>1, <2>1, <2>4, <3>1 DEF Past
  <2>5. mark' \in Nat /\ applied' \in Nat /\ payload[s].stamp <= mark' BY <1>1, <2>1
  <2>. QED BY <1>1, <1>4, <2>1, <2>2, <2>3, <2>4, <2>5
<1>. QED BY <1>3, <1>4

\* What becomes of the row.
Opened(load) == row' = Requests!Fresh(load.stamp)
LEMMA RowsAfter ==
  ASSUME RequestsInv, LoadsAre, RowIs, NEW s \in Syncs, Requests!Record(s)
  PROVE  LET load == payload[s]
             over == Requests!Superseded(load)
             again == row # NULL /\ Requests!ToldOfAnOlder(row, load)
             since == row # NULL /\ ~over /\ Requests!AnsweredBefore(row, load)
             stands == row # NULL /\ (over \/ load.listed \/ Requests!ToldAndNewer(row, load.stamp))
         IN  \/ row = NULL /\ over /\ row' = row
             \/ row = NULL /\ ~over /\ ~load.listed /\ row' = NULL
             \/ row = NULL /\ ~over /\ load.listed /\ Opened(load)
             \/ stands /\ ~again /\ ~since /\ row' = row
             \/ stands /\ again /\ Opened(load)
             \/ stands /\ since /\ Opened(load)
             \/ row # NULL /\ ~over /\ ~load.listed /\ ~Requests!ToldAndNewer(row, load.stamp) /\ row' = NULL
<1>. DEFINE load == payload[s]
<1>1. load \in Loads BY LoadsTyped DEF RequestsInv
<1>. DEFINE less == [load EXCEPT !.listed = FALSE]
<1>2. less.listed = FALSE /\ less.named = load.named /\ less.stamp = load.stamp BY <1>1 DEF Loads
<1>3. IF Requests!Superseded(load) THEN row' = Requests!Reopened(row, less)
      ELSE row' = Requests!Reopened(Requests!Replaced(load), load) BY Marked
<1>4. LET r == Requests!Fresh(load.stamp) IN r.told = FALSE /\ r.answered = 0 BY DEF Requests!Fresh
<1>. HIDE DEF load, less
<1>5. CASE Requests!Superseded(load)
  BY <1>2, <1>3, <1>5 DEF Requests!Reopened, Requests!AnsweredBefore, Requests!ToldOfAnOlder, Opened, load
<1>6. CASE ~Requests!Superseded(load)
  BY <1>3, <1>4, <1>6 DEF Requests!Reopened, Requests!Replaced, Requests!AnsweredBefore, Requests!ToldOfAnOlder, Opened, load
<1>. QED BY <1>5, <1>6

LEMMA RowRecorded ==
  ASSUME RequestsInv, LettersInOrder, LoadsAre, RowIs, NEW s \in Syncs, Requests!Record(s) PROVE RowIs'
<1>. USE DEF RequestsInv
<1>0. /\ letters' = letters /\ second' = second /\ second \in Nat /\ doing[s] = "waiting" /\ OthersStay(s)
      /\ Quits(s) \/ GoesOn(s) BY Recording, LettersAre DEF Steady
<1>1. /\ mark \in Nat /\ applied \in Nat /\ mark' \in Nat /\ applied' \in Nat
      /\ payload[s].stamp \in Nat \ {0} /\ mark <= mark'
      /\ payload[s].stamp <= mark' /\ mark' \in {mark, payload[s].stamp}
      /\ \A n \in DOMAIN letters : n = payload[s].arrived => Past(n)' BY Marked
<1>2. \A n \in DOMAIN letters : Past(n) => Past(n)' BY <1>0, Marked, PastKept
<1>3. payload[s].stamp <= second /\ (payload[s].listed \/ payload[s].named => ListedAt(payload[s].stamp))
  <2>1. CASE payload[s].arrived = 0 BY <1>0, <2>1 DEF LoadsAre, Fetched
  <2>2. CASE payload[s].arrived # 0
    <3>1. /\ OfALetter(s) /\ payload[s].arrived \in DOMAIN letters BY <2>2, LettersAre DEF LoadsAre, OfALetter
    <3>. QED BY <3>1 DEF OfALetter, LettersInOrder, ListedAt
  <2>. QED BY <2>1, <2>2
<1>4. mark' <= second' BY <1>0, <1>1, <1>3 DEF RowIs
<1>5. applied' # 0 => Stamp(applied)' <= mark'
  <2>1. applied' = applied \/ (applied' = payload[s].arrived /\ mark' = payload[s].stamp /\ applied' # 0)
    BY Marked
  <2>2. CASE applied' = applied
    <3>1. CASE applied # 0
      <4>1. applied \in DOMAIN letters BY <3>1, LettersAre DEF TableKinds
      <4>2. Stamp(applied) \in Nat /\ Stamp(applied) <= mark BY <3>1, <4>1, LettersAre DEF RowIs
      <4>3. Stamp(applied)' = Stamp(applied) BY <1>0, <2>2 DEF Stamp
      <4>. QED BY <1>1, <4>2, <4>3
    <3>. QED BY <2>2, <3>1
  <2>3. CASE applied' = payload[s].arrived /\ mark' = payload[s].stamp /\ applied' # 0
    BY <1>0, <1>1, <2>3 DEF LoadsAre, OfALetter, Stamp
  <2>. QED BY <2>1, <2>2, <2>3
<1>6. ASSUME row' # NULL
      PROVE  /\ row'.since <= mark' /\ ListedAt(row.since)'
             /\ row'.answered # 0 =>
                  /\ row'.since <= row'.answered
                  /\ \E m \in DOMAIN letters' : letters'[m].review /\ Stamp(m)' = row'.answered
  <2>1. CASE row' = row
    <3>1. row.since \in Nat BY <1>6, <2>1 DEF TableKinds, Assignments
    <3>2. /\ row.since <= mark /\ ListedAt(row.since)
          /\ row.answered # 0 =>
               /\ row.since <= row.answered
               /\ \E m \in DOMAIN letters : letters[m].review /\ Stamp(m) = row.answered
      BY <1>6, <2>1 DEF RowIs
    <3>. QED BY <1>0, <1>1, <2>1, <3>1, <3>2 DEF ListedAt, Stamp
  <2>2. CASE Opened(payload[s]) /\ (payload[s].listed \/ payload[s].named)
    <3>1. row'.since = payload[s].stamp /\ row'.answered = 0 BY <2>2 DEF Opened, Requests!Fresh
    <3>. QED BY <1>0, <1>1, <1>3, <2>2, <3>1 DEF ListedAt, Stamp
  <2>. QED BY <1>6, <2>1, <2>2, RowsAfter DEF Requests!ToldOfAnOlder, Requests!AnsweredBefore
<1>7. ASSUME NEW n \in DOMAIN letters' \ unread', ~letters'[n].review PROVE Past(n)'
  <2>1. CASE n \in unread
    <3>1. n = payload[s].arrived BY <1>0, <1>7, <2>1 DEF Quits, GoesOn
    <3>. QED BY <1>0, <1>1, <1>7, <3>1
  <2>2. CASE n \notin unread BY <1>0, <1>2, <1>7, <2>2 DEF RowIs
  <2>. QED BY <2>1, <2>2
<1>8. ASSUME NEW t \in Syncs, doing'[t] \notin {"idle", "waiting"}, payload'[t].arrived # 0,
             NEW n, n = payload'[t].arrived
      PROVE  n \in DOMAIN letters /\ Past(n)'
  <2>1. payload'[t] = payload[t] /\ (t = s \/ doing[t] \notin {"idle", "waiting"})
    BY <1>0, <1>8 DEF OthersStay, Quits, GoesOn
  <2>2. n \in DOMAIN letters BY <1>8, <2>1, LettersAre DEF LoadsAre, OfALetter
  <2>3. t # s => Past(n) BY <1>8, <2>1 DEF RowIs
  <2>. QED BY <1>1, <1>2, <1>8, <2>1, <2>2, <2>3
<1>9. ASSUME NEW t \in Syncs, doing'[t] \notin {"idle", "waiting"}, payload'[t].arrived # 0
      PROVE  Past(payload[t].arrived)' BY <1>8, <1>9 DEF Past, Stamp
<1>. QED BY <1>4, <1>5, <1>6, <1>7, <1>9 DEF RowIs

LEMMA RowIsKept ==
  ASSUME RequestsInv, RowIs, UNCHANGED <<second, letters, mark, applied>>,
         row' # NULL =>
            /\ row # NULL /\ row'.since = row.since
            /\ \/ row'.answered = row.answered
               \/ /\ row'.since <= row'.answered
                  /\ \E m \in DOMAIN letters : letters[m].review /\ Stamp(m) = row'.answered,
         \A n \in DOMAIN letters \ unread' : n \in unread => letters[n].review \/ Past(n),
         \A t \in Syncs :
            doing'[t] \notin {"idle", "waiting"} /\ payload'[t].arrived # 0 =>
               payload'[t] = payload[t] /\ doing[t] \notin {"idle", "waiting"}
  PROVE  RowIs'
<1>1. \A n \in DOMAIN letters : Past(n) => Past(n)' BY DEF Past, Stamp
<1>2. mark' <= second' /\ (applied' # 0 => Stamp(applied)' <= mark') BY DEF RowIs, Stamp
<1>3. ASSUME row' # NULL
      PROVE  /\ row'.since <= mark' /\ ListedAt(row.since)'
             /\ row'.answered # 0 =>
                  /\ row'.since <= row'.answered
                  /\ \E m \in DOMAIN letters' : letters'[m].review /\ Stamp(m)' = row'.answered
  <2>1. /\ row.since <= mark /\ ListedAt(row.since)
        /\ row.answered # 0 =>
             /\ row.since <= row.answered
             /\ \E m \in DOMAIN letters : letters[m].review /\ Stamp(m) = row.answered
    BY <1>3 DEF RowIs
  <2>. QED BY <1>3, <2>1 DEF ListedAt, Stamp
<1>4. ASSUME NEW n \in DOMAIN letters' \ unread', ~letters'[n].review PROVE Past(n)' BY <1>1, <1>4 DEF RowIs
<1>5. ASSUME NEW t \in Syncs, doing'[t] \notin {"idle", "waiting"}, payload'[t].arrived # 0
      PROVE  Past(payload[t].arrived)'
  <2>1. Past(payload[t].arrived) BY <1>5 DEF RowIs
  <2>. QED BY <1>5, <2>1 DEF Past, Stamp
<1>. QED BY <1>2, <1>3, <1>4, <1>5 DEF RowIs

LEMMA RowIsAfterASync ==
  ASSUME RequestsInv, LettersInOrder, LoadsAre, RowIs, NEW s \in Syncs, Requests!Sync(s) PROVE RowIs'
<1>. USE DEF RequestsInv
<1>1. ASSUME NEW n \in unread, Requests!Deliver(s, n) PROVE RowIs'
  BY <1>1, Taking, RowIsKept DEF Steady, OthersStay
<1>2. CASE Requests!Fetch(s) BY <1>2, Reading, RowIsKept DEF Steady, OthersStay
<1>3. CASE Requests!Record(s) BY <1>3, RowRecorded
<1>4. CASE \/ Requests!ClaimNone(s) \/ Requests!Ping(s) \/ Requests!GiveBack(s)
           \/ Requests!GiveBackFails(s) \/ Requests!Abort(s)
  <2>1. Steady /\ OthersStay(s) /\ Quits(s) /\ UNCHANGED <<mark, applied>> BY <1>4, Leaving
  <2>2. row' = row \/ (row # NULL /\ row' = [row EXCEPT !.told = FALSE])
    BY <1>4 DEF Requests!ClaimNone, Requests!Ping, Requests!GiveBack, Requests!GiveBackFails, Requests!Abort,
      Requests!table, Requests!Released
  <2>3. row' # NULL => row # NULL /\ row'.since = row.since /\ row'.answered = row.answered
    BY <2>2 DEF TableKinds, Assignments
  <2>4. unread' = unread \/ doing[s] \in {"claiming", "pinging"}
    BY <1>4 DEF Requests!ClaimNone, Requests!Ping, Requests!GiveBack, Requests!GiveBackFails, Requests!Abort,
      Requests!Raise
  <2>5. \A n \in DOMAIN letters \ unread' : n \in unread => letters[n].review \/ Past(n)
    <3>. SUFFICES ASSUME NEW n \in unread, n \notin unread' PROVE Past(n) OBVIOUS
    <3>1. n = payload[s].arrived /\ n # 0 /\ doing[s] \in {"claiming", "pinging"}
      BY <2>1, <2>4, LettersAre DEF Quits
    <3>. QED BY <3>1 DEF RowIs
  <2>. QED BY <2>1, <2>3, <2>5, RowIsKept DEF Steady, OthersStay, Quits
<1>5. CASE Requests!ClaimPing(s) \/ Requests!PingFails(s)
  <2>1. Steady /\ OthersStay(s) /\ GoesOn(s) /\ UNCHANGED <<mark, applied>> /\ doing[s] \in {"claiming", "pinging"}
    BY <1>5, Pinging DEF Requests!ClaimPing, Requests!PingFails
  <2>2. row' = row \/ (row # NULL /\ row' = [row EXCEPT !.told = TRUE])
    BY <1>5 DEF Requests!ClaimPing, Requests!PingFails, Requests!table, Requests!OwedAPing
  <2>3. row' # NULL => row # NULL /\ row'.since = row.since /\ row'.answered = row.answered
    BY <2>2 DEF TableKinds, Assignments
  <2>. QED BY <2>1, <2>3, RowIsKept DEF Steady, OthersStay, GoesOn
<1>6. CASE Requests!LoseLock(s)
  <2>1. UNCHANGED <<second, letters, unread, row, mark, applied, doing, payload>>
    BY <1>6 DEF Requests!LoseLock, Requests!hub, Requests!table
  <2>. QED BY <2>1, RowIsKept
<1>. QED BY <1>1, <1>2, <1>3, <1>4, <1>5, <1>6 DEF Requests!Sync

(* The pings the row is good for. *)

LEMMA AsksOrder ==
  ASSUME RequestsInv, LettersInOrder
  PROVE  /\ asks \in Nat /\ AsksBy(letters, second) = asks
         /\ \A x \in Nat : AsksBy(letters, x) \in Nat /\ AsksBy(letters, x) <= asks
         /\ \A x, y \in Nat : x <= y =>
               /\ AsksBy(letters, x) <= AsksBy(letters, y)
               /\ \A k \in DOMAIN letters :
                     IsAsk(k) /\ x < Stamp(k) /\ Stamp(k) <= y => AsksBy(letters, x) < AsksBy(letters, y)
<1>1. letters \in Seq(Letters) /\ second \in Nat BY DEF RequestsInv, HubKinds
<1>2. asks = Cardinality(AskLetters(letters)) BY DEF LettersInOrder
<1>3. \A x \in Nat : /\ asks \in Nat /\ AsksBy(letters, x) \in Nat /\ AsksBy(letters, x) <= asks
                     /\ (\A k \in AskLetters(letters) : letters[k].stamp <= x) => AsksBy(letters, x) = asks
  BY <1>1, <1>2, AsksCounted
<1>4. \A k \in AskLetters(letters) : letters[k].stamp <= second BY DEF AskLetters, LettersInOrder, Stamp
<1>5. \A k \in DOMAIN letters : IsAsk(k) => k \in AskLetters(letters) BY DEF AskLetters, IsAsk
<1>6. ASSUME NEW x \in Nat, NEW y \in Nat, x <= y
      PROVE  /\ AsksBy(letters, x) <= AsksBy(letters, y)
             /\ \A k \in DOMAIN letters :
                   IsAsk(k) /\ x < Stamp(k) /\ Stamp(k) <= y => AsksBy(letters, x) < AsksBy(letters, y)
  BY <1>1, <1>5, <1>6, AsksGrow DEF Stamp
<1>. QED BY <1>1, <1>3, <1>4, <1>6

LEMMA SomeRing ==
  ASSUME IsFiniteSet(Syncs), NEW R, R \subseteq Syncs
  PROVE  /\ IsFiniteSet(R) /\ Cardinality(R) \in Nat
         /\ \A s \in Syncs \ R : Cardinality(R \cup {s}) = Cardinality(R) + 1
         /\ \A s \in R : Cardinality(R \ {s}) = Cardinality(R) - 1
<1>1. IsFiniteSet(R) /\ Cardinality(R) \in Nat BY FS_Subset, FS_CardinalityType
<1>. QED BY <1>1, FS_AddElement, FS_RemoveElement

LEMMA UsedIs ==
  ASSUME IsFiniteSet(Syncs), HistoryKinds
  PROVE  /\ Ringing \subseteq Syncs /\ Cardinality(Ringing) \in Nat /\ rung \in Nat
         /\ ToTell \in {0, 1} /\ Used \in Nat
<1>1. Ringing \subseteq Syncs BY DEF Ringing
<1>2. Cardinality(Ringing) \in Nat BY <1>1, SomeRing
<1>. QED BY <1>1, <1>2 DEF HistoryKinds, ToTell, Used

LEMMA RingingStays ==
  ASSUME NEW s \in Syncs, OthersStay(s),
         doing'[s] \in {"pinging", "giving_back"} <=> doing[s] \in {"pinging", "giving_back"}
  PROVE  Ringing' = Ringing BY DEF Ringing, OthersStay

LEMMA BudgetKept ==
  ASSUME RequestsInv, LettersInOrder, RowOfAnAsk, AskToCome,
         UNCHANGED <<letters, asked, asks, mark, applied>>, unread' \subseteq unread,
         row' = NULL <=> row = NULL, row' # NULL => row'.since = row.since,
         Used \in Nat, Used' \in Nat, Used' <= Used,
         \A t \in Syncs :
            doing'[t] = "waiting" /\ Fetched(t)' =>
               doing[t] = "waiting" /\ Fetched(t) /\ payload'[t] = payload[t]
  PROVE  RowOfAnAsk' /\ AskToCome'
<1>0. /\ asks \in Nat /\ \A x \in Nat : AsksBy(letters, x) \in Nat
      /\ \A n \in DOMAIN letters : Stamp(n) \in Nat
      /\ unread \subseteq DOMAIN letters
      /\ \A t \in Syncs : payload[t].stamp \in Nat
      /\ row # NULL => row.since \in Nat
  BY AsksOrder, LettersAre, LoadsTyped DEF RequestsInv, TableKinds, Assignments
<1>1. RowOfAnAsk'
  <2>. SUFFICES ASSUME row' # NULL PROVE Used' <= AsksBy(letters', row'.since) BY DEF RowOfAnAsk
  <2>1. Used <= AsksBy(letters, row.since) /\ row.since \in Nat BY <1>0 DEF RowOfAnAsk
  <2>2. AsksBy(letters, row.since) \in Nat /\ AsksBy(letters', row'.since) = AsksBy(letters, row.since)
    BY <1>0, <2>1
  <2>. QED BY <2>1, <2>2
<1>2. AskToCome'
  <2>. SUFFICES ASSUME row' = NULL PROVE AskToCome' BY DEF AskToCome
  <2>1. Used' <= asks' /\ (asked' => Used' < asks') BY <1>0 DEF AskToCome
  <2>2. ASSUME NEW j \in unread', ~Drops(j)', mark' <= Stamp(j)', ~(Stamp(j)' = mark' /\ j < applied')
        PROVE  Used' < AsksBy(letters', Stamp(j)')
    <3>1. ~Drops(j) /\ mark <= Stamp(j) /\ ~(Stamp(j) = mark /\ j < applied) /\ Stamp(j)' = Stamp(j)
      BY <2>2 DEF Drops, Stamp
    <3>2. Used < AsksBy(letters, Stamp(j)) /\ AsksBy(letters, Stamp(j)) \in Nat BY <1>0, <3>1 DEF AskToCome
    <3>3. Used' < AsksBy(letters, Stamp(j)) BY <3>2
    <3>. QED BY <3>1, <3>3
  <2>3. ASSUME NEW t \in Syncs, doing'[t] = "waiting", Fetched(t)', payload'[t].listed, mark' <= payload'[t].stamp
        PROVE  Used' < AsksBy(letters', payload'[t].stamp)
    <3>1. Used < AsksBy(letters, payload[t].stamp) /\ AsksBy(letters, payload[t].stamp) \in Nat
      BY <1>0, <2>3 DEF AskToCome
    <3>2. payload'[t] = payload[t] /\ Used' < AsksBy(letters, payload[t].stamp) BY <2>3, <3>1
    <3>. QED BY <3>2
  <2>. QED BY <2>1, <2>2, <2>3 DEF AskToCome
<1>. QED BY <1>1, <1>2

\* An ask is between the row and whoever may make it again.
LEMMA AskedBetween ==
  ASSUME RequestsInv, LettersInOrder, LoadsAre, NoTies, NEW s \in Syncs, doing[s] = "waiting",
         ~payload[s].listed, NEW since \in Nat, since < payload[s].stamp
  PROVE  LET load == payload[s]
             Between(y) == \E k \in DOMAIN letters : IsAsk(k) /\ since < Stamp(k) /\ Stamp(k) <= y
         IN  /\ asked => Between(second)
             /\ \A j \in unread :
                   /\ ~Drops(j) /\ load.stamp <= Stamp(j)
                   /\ ~(Stamp(j) = load.stamp /\ load.arrived # 0 /\ j < load.arrived)
                   => Between(Stamp(j))
             /\ \A t \in Syncs : Fetched(t) /\ payload[t].listed /\ load.stamp <= payload[t].stamp =>
                   Between(payload[t].stamp)
<1>. USE DEF RequestsInv
<1>. DEFINE load == payload[s]
            Between(y) == \E k \in DOMAIN letters : IsAsk(k) /\ since < Stamp(k) /\ Stamp(k) <= y
<1>0. /\ \A n \in DOMAIN letters : n \in Nat \ {0} /\ Stamp(n) \in Nat
      /\ unread \subseteq DOMAIN letters /\ load.stamp \in Nat /\ load.arrived \in Nat
      /\ \A t \in Syncs : payload[t].stamp \in Nat BY LettersAre, LoadsTyped
<1>1. CASE load.arrived = 0
  <2>1. Fetched(s) BY <1>1 DEF Fetched
  <2>2. ASSUME NEW y \in Nat, AskedWithin(load.stamp, y) PROVE Between(y) BY <1>0, <2>2 DEF AskedWithin
  <2>3. /\ asked => AskedWithin(load.stamp, second)
        /\ \A j \in unread : ~Drops(j) /\ load.stamp <= Stamp(j) => AskedWithin(load.stamp, Stamp(j))
        /\ \A t \in Syncs : Fetched(t) /\ payload[t].listed /\ load.stamp <= payload[t].stamp =>
              AskedWithin(load.stamp, payload[t].stamp) BY <2>1 DEF NoTies
  <2>4. second \in Nat BY LettersAre
  <2>. HIDE DEF load, Between
  <2>5. /\ asked => Between(second)
        /\ \A j \in unread : ~Drops(j) /\ load.stamp <= Stamp(j) => Between(Stamp(j))
        /\ \A t \in Syncs : Fetched(t) /\ payload[t].listed /\ load.stamp <= payload[t].stamp =>
              Between(payload[t].stamp) BY <1>0, <2>2, <2>3, <2>4
  <2>. QED BY <2>5 DEF load, Between
<1>2. CASE load.arrived # 0
  <2>. DEFINE n == load.arrived
  <2>1. n \in DOMAIN letters /\ Drops(n) /\ Stamp(n) = load.stamp
    BY <1>2, LettersAre DEF LoadsAre, OfALetter, Drops
  <2>. HIDE DEF n
  <2>2. ASSUME NEW y \in Nat, NEW k \in DOMAIN letters, n < k, IsAsk(k), Stamp(k) <= y PROVE Between(y)
    <3>1. Stamp(n) <= Stamp(k) BY <1>0, <2>1, <2>2 DEF LettersInOrder
    <3>. QED BY <1>0, <2>1, <2>2, <3>1
  <2>3. asked => Between(second)
    <3>. SUFFICES ASSUME asked PROVE Between(second) OBVIOUS
    <3>1. AskedSince(n, second) BY <2>1 DEF LettersInOrder
    <3>. QED BY <2>2, <3>1, LettersAre DEF AskedSince
  <2>4. ASSUME NEW j \in unread, ~Drops(j), load.stamp <= Stamp(j), ~(Stamp(j) = load.stamp /\ j < n)
        PROVE  Between(Stamp(j))
    <3>1. j \in DOMAIN letters /\ j # n BY <1>0, <2>1, <2>4
    <3>2. n < j
      <4>1. n <= j \/ Stamp(j) <= Stamp(n) BY <1>0, <2>1, <3>1 DEF LettersInOrder
      <4>. QED BY <1>0, <2>1, <2>4, <3>1, <4>1
    <3>3. PICK k \in DOMAIN letters : n < k /\ k <= j /\ IsAsk(k) BY <2>1, <2>4, <3>1, <3>2 DEF LettersInOrder
    <3>4. Stamp(k) <= Stamp(j) BY <3>1, <3>3 DEF LettersInOrder
    <3>. QED BY <1>0, <2>2, <3>1, <3>3, <3>4
  <2>5. ASSUME NEW t \in Syncs, Fetched(t), payload[t].listed, load.stamp <= payload[t].stamp
        PROVE  Between(payload[t].stamp)
    <3>1. AskedSince(n, payload[t].stamp) BY <2>1, <2>5 DEF NoTies
    <3>. QED BY <1>0, <2>2, <3>1 DEF AskedSince
  <2>. HIDE DEF load, Between
  <2>6. /\ asked => Between(second)
        /\ \A j \in unread :
              /\ ~Drops(j) /\ load.stamp <= Stamp(j)
              /\ ~(Stamp(j) = load.stamp /\ load.arrived # 0 /\ j < load.arrived)
              => Between(Stamp(j))
        /\ \A t \in Syncs : Fetched(t) /\ payload[t].listed /\ load.stamp <= payload[t].stamp =>
              Between(payload[t].stamp)
    <3>1. n = load.arrived BY DEF n
    <3>2. ASSUME NEW j \in unread, ~Drops(j), load.stamp <= Stamp(j),
                 ~(Stamp(j) = load.stamp /\ load.arrived # 0 /\ j < load.arrived)
          PROVE  Between(Stamp(j)) BY <1>2, <2>4, <3>1, <3>2
    <3>. QED BY <2>3, <2>5, <3>2
  <2>. QED BY <2>6 DEF load, Between
<1>. QED BY <1>1, <1>2

\* Whom a review took off the list and a newer reading has again was asked between.
LEMMA AskedAfterAReview ==
  ASSUME RequestsInv, LettersInOrder, LoadsAre, RowIs, NoTies, NEW s \in Syncs, doing[s] = "waiting",
         row # NULL, Requests!AnsweredBefore(row, payload[s])
  PROVE  \E k \in DOMAIN letters : IsAsk(k) /\ row.since < Stamp(k) /\ Stamp(k) <= payload[s].stamp
<1>. USE DEF RequestsInv
<1>. DEFINE load == payload[s]
<1>0. /\ \A n \in DOMAIN letters : n \in Nat \ {0} /\ Stamp(n) \in Nat
      /\ unread \subseteq DOMAIN letters /\ load.stamp \in Nat /\ load.arrived \in Nat
      /\ row.since \in Nat /\ row.answered \in Nat
  BY LettersAre, LoadsTyped DEF TableKinds, Assignments
<1>1. load.listed /\ row.answered # 0 /\ row.answered < load.stamp BY DEF Requests!AnsweredBefore
<1>2. PICK m \in DOMAIN letters : letters[m].review /\ Stamp(m) = row.answered /\ row.since <= Stamp(m)
  BY <1>1 DEF RowIs
<1>3. Drops(m) /\ letters[m].listed BY <1>2 DEF Drops, LettersInOrder
<1>4. PICK k \in DOMAIN letters : m < k /\ IsAsk(k) /\ Stamp(k) <= load.stamp
  <2>1. CASE load.arrived = 0
    <3>1. Fetched(s) /\ Stamp(m) <= load.stamp BY <1>0, <1>1, <1>2, <2>1 DEF Fetched
    <3>2. AskedSince(m, load.stamp) BY <1>1, <1>3, <3>1 DEF NoTies
    <3>. QED BY <3>2 DEF AskedSince
  <2>2. CASE load.arrived # 0
    <3>. DEFINE n == load.arrived
    <3>1. n \in DOMAIN letters /\ ~Drops(n) /\ Stamp(n) = load.stamp
      BY <1>0, <1>1, <2>2 DEF LoadsAre, OfALetter, Drops
    <3>. HIDE DEF n
    <3>2. m < n
      <4>1. m < n \/ Stamp(n) <= Stamp(m) BY <1>0, <3>1 DEF LettersInOrder
      <4>. QED BY <1>0, <1>1, <1>2, <3>1, <4>1
    <3>3. PICK k \in DOMAIN letters : m < k /\ k <= n /\ IsAsk(k) BY <1>3, <3>1, <3>2 DEF LettersInOrder
    <3>4. Stamp(k) <= Stamp(n) BY <3>1, <3>3 DEF LettersInOrder
    <3>. QED BY <3>1, <3>3, <3>4
  <2>. QED BY <2>1, <2>2
<1>5. Stamp(m) < Stamp(k) BY <1>3, <1>4 DEF NoTies
<1>6. row.since < Stamp(k) BY <1>0, <1>2, <1>5
<1>. QED BY <1>4, <1>6

LEMMA OpenedIs ==
  ASSUME NEW load \in Loads, load.stamp # 0, Opened(load)
  PROVE  row' # NULL /\ row'.since = load.stamp /\ row'.told = FALSE /\ row'.answered = 0
<1>1. Requests!Fresh(load.stamp) \in [told : BOOLEAN, since : Nat, answered : Nat]
  BY DEF Requests!Fresh, Loads
<1>2. Requests!Fresh(load.stamp) # NULL BY <1>1, DeliveriesAssumption DEF Requests!RequestsAssumption
<1>. QED BY <1>2 DEF Opened, Requests!Fresh

LEMMA BudgetRecorded ==
  ASSUME RequestsInv, HistoryKinds, IsFiniteSet(Syncs), LettersInOrder, LoadsAre, RowIs, NoTies,
         RowOfAnAsk, AskToCome, NEW s \in Syncs, Requests!Record(s)
  PROVE  RowOfAnAsk' /\ AskToCome'
<1>. USE DEF RequestsInv
<1>. DEFINE load == payload[s]
            U0   == rung + Cardinality(Ringing)
<1>0. /\ Steady /\ OthersStay(s) /\ doing[s] = "waiting" /\ rung' = rung /\ (Quits(s) \/ GoesOn(s))
      /\ unread' \subseteq unread /\ \A t \in Syncs : doing'[t] = "waiting" => t # s
  BY Recording DEF Quits, GoesOn
<1>1. /\ \A n \in DOMAIN letters : n \in Nat \ {0} /\ Stamp(n) \in Nat
      /\ unread \subseteq DOMAIN letters /\ second \in Nat
      /\ load.stamp \in Nat /\ load.arrived \in Nat /\ mark \in Nat /\ applied \in Nat
      /\ \A t \in Syncs : payload[t].stamp \in Nat
      /\ row # NULL => row.since \in Nat /\ row.since <= mark
  BY LettersAre, LoadsTyped DEF TableKinds, Assignments, RowIs
<1>2. /\ U0 \in Nat /\ ToTell \in {0, 1} /\ Used = U0 + ToTell
      /\ Used' = U0 + ToTell' /\ ToTell' \in {0, 1} /\ Used' \in Nat
  <2>1. Ringing' = Ringing BY <1>0, Recording, RingingStays DEF Quits
  <2>2. ToTell' \in {0, 1} BY DEF ToTell
  <2>3. U0 \in Nat /\ ToTell \in {0, 1} /\ Used = U0 + ToTell BY UsedIs DEF Used
  <2>4. Used' = U0 + ToTell' BY <1>0, <2>1 DEF Used
  <2>. HIDE DEF U0
  <2>5. Used' \in Nat
    <3>1. \A u, k \in Nat : u + k \in Nat OBVIOUS
    <3>2. ToTell' \in Nat /\ U0 \in Nat BY <2>2, <2>3
    <3>. QED BY <2>4, <3>1, <3>2
  <2>. QED BY <2>2, <2>3, <2>4, <2>5
<1>3. /\ asks \in Nat /\ AsksBy(letters, second) = asks
      /\ \A x \in Nat : AsksBy(letters, x) \in Nat /\ AsksBy(letters, x) <= asks
      /\ \A x, y \in Nat : x <= y =>
            /\ AsksBy(letters, x) <= AsksBy(letters, y)
            /\ \A k \in DOMAIN letters :
                  IsAsk(k) /\ x < Stamp(k) /\ Stamp(k) <= y => AsksBy(letters, x) < AsksBy(letters, y)
  BY AsksOrder
<1>4. UNCHANGED <<letters, asked, asks>> BY <1>0 DEF Steady
<1>5. ASSUME Opened(load), Used' <= AsksBy(letters, load.stamp) PROVE RowOfAnAsk' /\ AskToCome'
  <2>1. row' # NULL /\ row'.since = load.stamp BY <1>5, OpenedIs, LoadsTyped, <1>0
  <2>2. Used' <= AsksBy(letters', row'.since) BY <1>4, <1>5, <2>1
  <2>. QED BY <2>1, <2>2 DEF RowOfAnAsk, AskToCome
<1>6. ASSUME row # NULL, Opened(load), NEW k \in DOMAIN letters, IsAsk(k), row.since < Stamp(k), Stamp(k) <= load.stamp
      PROVE  RowOfAnAsk' /\ AskToCome'
  <2>1. Used <= AsksBy(letters, row.since) /\ AsksBy(letters, row.since) \in Nat /\ AsksBy(letters, load.stamp) \in Nat
    BY <1>1, <1>3, <1>6 DEF RowOfAnAsk
  <2>2. AsksBy(letters, row.since) < AsksBy(letters, load.stamp) BY <1>1, <1>3, <1>6
  <2>. HIDE DEF U0
  <2>3. Used' <= AsksBy(letters, load.stamp) BY <1>2, <2>1, <2>2
  <2>. QED BY <1>5, <1>6, <2>3
\* What is asked of everyone who may make the row, of whoever still may.
<1>7. ASSUME row' = NULL, U0 <= asks, asked => U0 < asks,
             \A j \in unread' :
                ~Drops(j) /\ mark' <= Stamp(j) /\ ~(Stamp(j) = mark' /\ j < applied') =>
                   U0 < AsksBy(letters, Stamp(j)),
             \A t \in Syncs \ {s} :
                doing[t] = "waiting" /\ Fetched(t) /\ payload[t].listed /\ mark' <= payload[t].stamp =>
                   U0 < AsksBy(letters, payload[t].stamp)
      PROVE  RowOfAnAsk' /\ AskToCome'
  <2>1. ToTell' = 0 BY <1>7 DEF ToTell
  <2>2. Used' = U0
    <3>. HIDE DEF U0
    <3>. QED BY <1>2, <2>1
  <2>. HIDE DEF U0
  <2>3. Used' <= asks' /\ (asked' => Used' < asks') BY <1>4, <1>7, <2>2
  <2>4. ASSUME NEW j \in unread', ~Drops(j)', mark' <= Stamp(j)', ~(Stamp(j)' = mark' /\ j < applied')
        PROVE  Used' < AsksBy(letters', Stamp(j)')
    <3>1. ~Drops(j) /\ Stamp(j)' = Stamp(j) BY <1>4, <2>4 DEF Drops, Stamp
    <3>2. U0 < AsksBy(letters, Stamp(j)) BY <1>7, <2>4, <3>1
    <3>. QED BY <1>4, <2>2, <3>1, <3>2
  <2>5. ASSUME NEW t \in Syncs, doing'[t] = "waiting", Fetched(t)', payload'[t].listed, mark' <= payload'[t].stamp
        PROVE  Used' < AsksBy(letters', payload'[t].stamp)
    <3>1. t # s /\ payload'[t] = payload[t] /\ doing[t] = "waiting" /\ Fetched(t)
      BY <1>0, <2>5 DEF OthersStay, Fetched
    <3>. QED BY <1>4, <1>7, <2>2, <2>5, <3>1
  <2>. QED BY <1>7, <2>3, <2>4, <2>5 DEF RowOfAnAsk, AskToCome
<1>. DEFINE over == Requests!Superseded(load)
            again == row # NULL /\ Requests!ToldOfAnOlder(row, load)
            since == row # NULL /\ ~over /\ Requests!AnsweredBefore(row, load)
            stands == row # NULL /\ (over \/ load.listed \/ Requests!ToldAndNewer(row, load.stamp))
<1>8. /\ mark' \in Nat /\ applied' \in Nat /\ mark <= mark' /\ (mark' = mark /\ applied # 0 => applied <= applied')
      /\ ~over => mark' = load.stamp /\ (load.arrived # 0 => applied' = load.arrived)
  BY Marked
<1>9. CASE row = NULL /\ ((over /\ row' = row) \/ (~over /\ ~load.listed /\ row' = NULL))
  <2>1. Used = U0
    <3>1. ToTell = 0 BY <1>9 DEF ToTell
    <3>. HIDE DEF U0
    <3>. QED BY <1>2, <3>1
  <2>. HIDE DEF U0, over
  <2>2. U0 <= asks /\ (asked => U0 < asks) BY <1>9, <2>1 DEF AskToCome
  <2>3. ASSUME NEW j \in unread', ~Drops(j), mark' <= Stamp(j), ~(Stamp(j) = mark' /\ j < applied')
        PROVE  U0 < AsksBy(letters, Stamp(j))
    <3>1. j \in unread /\ j \in Nat \ {0} /\ Stamp(j) \in Nat BY <1>0, <1>1
    <3>2. mark <= Stamp(j) /\ ~(Stamp(j) = mark /\ j < applied) BY <1>1, <1>8, <2>3, <3>1
    <3>. QED BY <1>9, <2>1, <2>3, <3>1, <3>2 DEF AskToCome
  <2>4. ASSUME NEW t \in Syncs \ {s}, doing[t] = "waiting", Fetched(t), payload[t].listed, mark' <= payload[t].stamp
        PROVE  U0 < AsksBy(letters, payload[t].stamp)
    <3>1. mark <= payload[t].stamp BY <1>1, <1>8, <2>4
    <3>. QED BY <1>9, <2>1, <2>4, <3>1 DEF AskToCome
  <2>. QED BY <1>7, <1>9, <2>2, <2>3, <2>4
<1>10. CASE row = NULL /\ ~over /\ load.listed /\ Opened(load)
  <2>1. mark <= load.stamp /\ ~(load.stamp = mark /\ 0 \notin {load.arrived, applied} /\ load.arrived < applied)
    BY <1>1, <1>10 DEF Requests!Superseded
  <2>2. Used < AsksBy(letters, load.stamp)
    <3>1. CASE load.arrived = 0 BY <1>0, <1>10, <2>1, <3>1 DEF AskToCome, Fetched
    <3>2. CASE load.arrived # 0
      <4>. DEFINE n == load.arrived
      <4>1. n \in unread /\ ~Drops(n) /\ Stamp(n) = load.stamp BY <1>10, <3>2 DEF LoadsAre, OfALetter, Drops
      <4>2. ~(Stamp(n) = mark /\ n < applied) BY <1>1, <2>1, <3>2, <4>1
      <4>. HIDE DEF n
      <4>. QED BY <1>10, <2>1, <4>1, <4>2 DEF AskToCome
    <3>. QED BY <3>1, <3>2
  <2>3. AsksBy(letters, load.stamp) \in Nat BY <1>1, <1>3
  <2>4. ToTell = 0 BY <1>10 DEF ToTell
  <2>. HIDE DEF U0
  <2>5. Used' <= AsksBy(letters, load.stamp) BY <1>2, <2>2, <2>3, <2>4
  <2>. QED BY <1>5, <1>10, <2>5
<1>11. CASE row # NULL /\ row' = row
  <2>1. ToTell' = ToTell BY <1>11 DEF ToTell
  <2>2. Used' = Used
    <3>. HIDE DEF U0
    <3>. QED BY <1>2, <2>1
  <2>3. Used' <= AsksBy(letters', row'.since) BY <1>4, <1>11, <2>2 DEF RowOfAnAsk
  <2>. QED BY <1>11, <2>3 DEF RowOfAnAsk, AskToCome
<1>12. CASE again /\ Opened(load)
  <2>1. load.named /\ row.since < load.stamp BY <1>12 DEF Requests!ToldOfAnOlder
  <2>2. load.arrived # 0 BY <1>0, <2>1 DEF LoadsAre, Fetched
  <2>. DEFINE n == load.arrived
  <2>3. n \in DOMAIN letters /\ IsAsk(n) /\ Stamp(n) = load.stamp
    BY <1>1, <2>1, <2>2 DEF LoadsAre, OfALetter, IsAsk
  <2>. HIDE DEF n
  <2>. QED BY <1>1, <1>6, <1>12, <2>1, <2>3
<1>13. CASE since /\ Opened(load) BY <1>0, <1>6, <1>13, AskedAfterAReview
<1>14. CASE row # NULL /\ ~over /\ ~load.listed /\ ~Requests!ToldAndNewer(row, load.stamp) /\ row' = NULL
  <2>1. /\ Used <= AsksBy(letters, row.since) /\ row.since \in Nat /\ row.since <= mark
        /\ ToTell = (IF row.told THEN 0 ELSE 1) /\ (row.told => row.since < load.stamp)
    BY <1>1, <1>14 DEF RowOfAnAsk, ToTell, Requests!ToldAndNewer
  <2>2. ASSUME NEW y \in Nat, row.since <= y,
               \/ ~row.told
               \/ \E k \in DOMAIN letters : IsAsk(k) /\ row.since < Stamp(k) /\ Stamp(k) <= y
        PROVE  U0 < AsksBy(letters, y)
    <3>1. /\ AsksBy(letters, row.since) <= AsksBy(letters, y)
          /\ AsksBy(letters, row.since) \in Nat /\ AsksBy(letters, y) \in Nat
          /\ row.told => AsksBy(letters, row.since) < AsksBy(letters, y)
      BY <1>3, <2>1, <2>2
    <3>. HIDE DEF U0
    <3>. QED BY <1>2, <2>1, <3>1
  <2>3. \/ ~row.told
        \/ /\ asked => \E k \in DOMAIN letters : IsAsk(k) /\ row.since < Stamp(k) /\ Stamp(k) <= second
           /\ \A j \in unread :
                 /\ ~Drops(j) /\ load.stamp <= Stamp(j)
                 /\ ~(Stamp(j) = load.stamp /\ load.arrived # 0 /\ j < load.arrived)
                 => \E k \in DOMAIN letters : IsAsk(k) /\ row.since < Stamp(k) /\ Stamp(k) <= Stamp(j)
           /\ \A t \in Syncs : Fetched(t) /\ payload[t].listed /\ load.stamp <= payload[t].stamp =>
                 \E k \in DOMAIN letters : IsAsk(k) /\ row.since < Stamp(k) /\ Stamp(k) <= payload[t].stamp
    BY <1>0, <1>14, <2>1, AskedBetween
  <2>4. U0 <= asks
    <3>1. AsksBy(letters, row.since) <= asks /\ AsksBy(letters, row.since) \in Nat BY <1>3, <2>1
    <3>. HIDE DEF U0
    <3>. QED BY <1>2, <1>3, <2>1, <3>1
  <2>5. row.since <= load.stamp /\ mark' = load.stamp /\ row.since <= second
    BY <1>1, <1>8, <1>14, <2>1 DEF RowIs
  <2>. HIDE DEF U0, over
  <2>6. asked => U0 < asks BY <1>1, <1>3, <2>2, <2>3, <2>5
  <2>7. ASSUME NEW j \in unread', ~Drops(j), mark' <= Stamp(j), ~(Stamp(j) = mark' /\ j < applied')
        PROVE  U0 < AsksBy(letters, Stamp(j))
    <3>1. /\ j \in unread /\ Stamp(j) \in Nat /\ load.stamp <= Stamp(j) /\ row.since <= Stamp(j)
          /\ ~(Stamp(j) = load.stamp /\ load.arrived # 0 /\ j < load.arrived)
      BY <1>0, <1>1, <1>8, <1>14, <2>1, <2>5, <2>7
    <3>. QED BY <2>2, <2>3, <2>7, <3>1
  <2>8. ASSUME NEW t \in Syncs \ {s}, doing[t] = "waiting", Fetched(t), payload[t].listed, mark' <= payload[t].stamp
        PROVE  U0 < AsksBy(letters, payload[t].stamp)
    <3>1. payload[t].stamp \in Nat /\ load.stamp <= payload[t].stamp /\ row.since <= payload[t].stamp
      BY <1>1, <2>1, <2>5, <2>8
    <3>. QED BY <2>2, <2>3, <2>8, <3>1
  <2>. QED BY <1>7, <1>14, <2>4, <2>6, <2>7, <2>8
<1>. HIDE DEF U0
<1>. QED BY <1>9, <1>10, <1>11, <1>12, <1>13, <1>14, RowsAfter

LEMMA AsMuchUsed ==
  ASSUME Ringing' = Ringing, UNCHANGED <<row, rung>> PROVE Used' = Used BY DEF Used, ToTell

\* A claim, a ping and a ping given back move it from one count to the next.
LEMMA UsedByAPing ==
  ASSUME RequestsInv, HistoryKinds, IsFiniteSet(Syncs), NEW s \in Syncs,
         Requests!ClaimPing(s) \/ Requests!Ping(s) \/ Requests!GiveBack(s)
  PROVE  /\ Used' \in Nat /\ Used' <= Used /\ rung' \in Nat
         /\ row' = NULL <=> row = NULL
         /\ row' # NULL => row'.since = row.since /\ row'.answered = row.answered
<1>. USE DEF RequestsInv
<1>0. /\ Ringing \subseteq Syncs /\ Cardinality(Ringing) \in Nat /\ rung \in Nat
      /\ ToTell \in {0, 1} /\ Used = rung + Cardinality(Ringing) + ToTell
  BY UsedIs DEF Used
<1>1. Used' = rung' + Cardinality(Ringing') + ToTell' BY DEF Used
<1>2. row # NULL =>
        /\ row \in Assignments
        /\ [row EXCEPT !.told = TRUE] \in Assignments /\ [row EXCEPT !.told = FALSE] \in Assignments
  BY DEF TableKinds, Assignments
<1>3. \A r \in Assignments : r # NULL
  <2>1. \A r \in Assignments : r \in [told : BOOLEAN, since : Nat, answered : Nat] BY DEF Assignments
  <2>. QED BY <2>1, DeliveriesAssumption DEF Requests!RequestsAssumption
<1>4. CASE Requests!ClaimPing(s)
  <2>1. OthersStay(s) /\ doing'[s] = "pinging" BY <1>4, Going DEF Requests!ClaimPing
  <2>2. /\ doing[s] = "claiming" /\ row # NULL /\ ~row.told /\ rung' = rung
        /\ row' = [row EXCEPT !.told = TRUE]
    BY <1>4 DEF Requests!ClaimPing, Requests!OwedAPing, Requests!counts
  <2>3. Ringing' = Ringing \cup {s} /\ s \in Syncs \ Ringing BY <2>1, <2>2 DEF Ringing, OthersStay
  <2>4. Cardinality(Ringing') = Cardinality(Ringing) + 1 BY <1>0, <2>3, SomeRing
  <2>5. row' # NULL /\ row'.told = TRUE /\ row'.since = row.since /\ row'.answered = row.answered
    BY <1>2, <1>3, <2>2 DEF Assignments
  <2>6. ToTell = 1 /\ ToTell' = 0 BY <2>2, <2>5 DEF ToTell
  <2>. QED BY <1>0, <1>1, <2>2, <2>4, <2>5, <2>6
<1>5. ASSUME doing[s] \in {"pinging", "giving_back"}, Quits(s), OthersStay(s)
      PROVE  Cardinality(Ringing') = Cardinality(Ringing) - 1
  <2>1. Ringing' = Ringing \ {s} /\ s \in Ringing BY <1>5 DEF Ringing, OthersStay, Quits
  <2>. QED BY <1>0, <2>1, SomeRing
<1>6. CASE Requests!Ping(s)
  <2>1. /\ doing[s] = "pinging" /\ rung' = rung + 1 /\ row' = row BY <1>6 DEF Requests!Ping, Requests!table
  <2>2. Cardinality(Ringing') = Cardinality(Ringing) - 1 /\ ToTell' = ToTell
    BY <1>5, <1>6, <2>1, Leaving DEF ToTell
  <2>3. rung' + Cardinality(Ringing') = rung + Cardinality(Ringing) BY <1>0, <2>1, <2>2
  <2>4. Used' = Used BY <1>0, <1>1, <2>2, <2>3
  <2>5. Used \in Nat BY UsedIs
  <2>. QED BY <1>0, <2>1, <2>4, <2>5
<1>7. CASE Requests!GiveBack(s)
  <2>1. /\ doing[s] = "giving_back" /\ rung' = rung
        /\ row' = (IF row = NULL THEN NULL ELSE [row EXCEPT !.told = FALSE])
    BY <1>7 DEF Requests!GiveBack, Requests!Released, Requests!counts
  <2>2. Cardinality(Ringing') = Cardinality(Ringing) - 1 BY <1>5, <1>7, <2>1, Leaving
  <2>3. /\ row' = NULL <=> row = NULL
        /\ row' # NULL => row'.since = row.since /\ row'.answered = row.answered
    BY <1>2, <1>3, <2>1 DEF Assignments
  <2>4. ToTell' \in {0, 1} BY DEF ToTell
  <2>5. Cardinality(Ringing') \in Nat
    <3>1. Ringing' \subseteq Syncs BY DEF Ringing
    <3>. QED BY <3>1, SomeRing
  <2>6. Used' \in Nat /\ Used' <= Used
    <3>1. CASE ToTell' = 0 BY <1>0, <1>1, <2>1, <2>2, <2>5, <3>1
    <3>2. CASE ToTell' = 1 BY <1>0, <1>1, <2>1, <2>2, <2>5, <3>2
    <3>. QED BY <2>4, <3>1, <3>2
  <2>. QED BY <1>0, <2>1, <2>3, <2>6
<1>. QED BY <1>4, <1>6, <1>7

LEMMA BudgetOfARead ==
  ASSUME RequestsInv, HistoryKinds, IsFiniteSet(Syncs), LettersInOrder, LoadsAre,
         RowOfAnAsk, AskToCome, NEW s \in Syncs, Requests!Fetch(s)
  PROVE  RowOfAnAsk' /\ AskToCome'
<1>1. /\ Steady /\ OthersStay(s) /\ UNCHANGED <<unread, row, mark, applied, rung>>
      /\ doing[s] = "idle" /\ doing'[s] = "waiting" /\ payload'[s].arrived = 0
      /\ payload'[s].stamp = second /\ payload'[s].listed = asked BY Reading
<1>2. Used' = Used
  <2>1. Ringing' = Ringing BY <1>1, RingingStays
  <2>. QED BY <1>1, <2>1, AsMuchUsed
<1>3. RowOfAnAsk' BY <1>1, <1>2 DEF RowOfAnAsk, Steady
<1>4. AskToCome'
  <2>. SUFFICES ASSUME row' = NULL PROVE AskToCome' BY DEF AskToCome
  <2>1. Used' <= asks' /\ (asked' => Used' < asks') BY <1>1, <1>2 DEF AskToCome, Steady
  <2>2. ASSUME NEW j \in unread', ~Drops(j)', mark' <= Stamp(j)', ~(Stamp(j)' = mark' /\ j < applied')
        PROVE  Used' < AsksBy(letters', Stamp(j)')
    <3>1. ~Drops(j) /\ Stamp(j)' = Stamp(j) /\ j \in unread BY <1>1, <2>2 DEF Drops, Stamp, Steady
    <3>2. Used < AsksBy(letters, Stamp(j)) BY <1>1, <2>2, <3>1 DEF AskToCome
    <3>. QED BY <1>1, <1>2, <3>1, <3>2 DEF Steady
  <2>3. ASSUME NEW t \in Syncs, doing'[t] = "waiting", Fetched(t)', payload'[t].listed, mark' <= payload'[t].stamp
        PROVE  Used' < AsksBy(letters', payload'[t].stamp)
    <3>1. CASE t # s
      <4>1. payload'[t] = payload[t] /\ doing[t] = "waiting" /\ Fetched(t)
        BY <1>1, <2>3, <3>1 DEF OthersStay, Fetched
      <4>2. Used < AsksBy(letters, payload[t].stamp) BY <1>1, <2>3, <4>1 DEF AskToCome
      <4>. QED BY <1>1, <1>2, <4>1, <4>2 DEF Steady
    <3>2. CASE t = s
      <4>1. asked /\ Used < asks /\ AsksBy(letters, second) = asks
        BY <1>1, <2>3, <3>2, AsksOrder DEF AskToCome
      <4>. QED BY <1>1, <1>2, <3>2, <4>1 DEF Steady
    <3>. QED BY <3>1, <3>2
  <2>. QED BY <2>1, <2>2, <2>3 DEF AskToCome
<1>. QED BY <1>3, <1>4

LEMMA BudgetAfterASync ==
  ASSUME RequestsInv, HistoryKinds, IsFiniteSet(Syncs), LettersInOrder, LoadsAre, RowIs, NoTies,
         RowOfAnAsk, AskToCome, NEW s \in Syncs, Requests!Sync(s), ~excused'
  PROVE  RowOfAnAsk' /\ AskToCome'
<1>. USE DEF RequestsInv
<1>0. Used \in Nat BY UsedIs
<1>1. ASSUME NEW n \in unread, Requests!Deliver(s, n) PROVE RowOfAnAsk' /\ AskToCome'
  <2>1. /\ Steady /\ OthersStay(s) /\ UNCHANGED <<unread, row, mark, applied, rung>>
        /\ doing[s] = "idle" /\ doing'[s] = "waiting" BY <1>1, Taking
  <2>2. Used' = Used
    <3>1. Ringing' = Ringing BY <2>1, RingingStays
    <3>. QED BY <2>1, <3>1, AsMuchUsed
  <2>3. \A t \in Syncs : Fetched(t)' => t # s /\ Fetched(t) /\ payload'[t] = payload[t] BY <1>1, LoadTaken
  <2>. QED BY <1>0, <2>1, <2>2, <2>3, BudgetKept DEF Steady, OthersStay
<1>2. CASE Requests!Fetch(s) BY <1>2, BudgetOfARead
<1>3. CASE Requests!Record(s) BY <1>3, BudgetRecorded
<1>4. ASSUME Steady, OthersStay(s), Quits(s) \/ GoesOn(s), UNCHANGED <<mark, applied>>,
             row' = NULL <=> row = NULL, row' # NULL => row'.since = row.since,
             Used' \in Nat, Used' <= Used
      PROVE  RowOfAnAsk' /\ AskToCome'
  <2>1. \A t \in Syncs : doing'[t] = "waiting" => t # s BY <1>4 DEF Quits, GoesOn
  <2>2. \A t \in Syncs : doing'[t] = "waiting" /\ Fetched(t)' =>
                            doing[t] = "waiting" /\ Fetched(t) /\ payload'[t] = payload[t]
    BY <1>4, <2>1 DEF Fetched, OthersStay
  <2>3. unread' \subseteq unread BY <1>4 DEF Quits, GoesOn
  <2>. QED BY <1>0, <1>4, <2>2, <2>3, BudgetKept DEF Steady
<1>5. CASE Requests!ClaimPing(s) BY <1>4, <1>5, Pinging, UsedByAPing
<1>6. CASE Requests!Ping(s) \/ Requests!GiveBack(s) BY <1>4, <1>6, Leaving, UsedByAPing
<1>7. CASE Requests!ClaimNone(s) \/ Requests!Abort(s)
  <2>1. Steady /\ OthersStay(s) /\ Quits(s) /\ UNCHANGED <<mark, applied>> BY <1>7, Leaving
  <2>2. doing[s] \notin {"pinging", "giving_back"} /\ UNCHANGED <<row, rung>>
    BY <1>7 DEF Requests!ClaimNone, Requests!Abort, Requests!table, Requests!counts
  <2>3. Used' = Used
    <3>1. Ringing' = Ringing BY <2>1, <2>2, RingingStays DEF Quits
    <3>. QED BY <2>2, <3>1, AsMuchUsed
  <2>. QED BY <1>0, <1>4, <2>1, <2>2, <2>3
<1>8. CASE Requests!PingFails(s)
  <2>1. Steady /\ OthersStay(s) /\ GoesOn(s) /\ UNCHANGED <<mark, applied>> BY <1>8, Pinging
  <2>2. doing[s] = "pinging" /\ doing'[s] = "giving_back" /\ UNCHANGED <<row, rung>>
    BY <1>8, Going DEF Requests!PingFails, Requests!table
  <2>3. Used' = Used
    <3>1. Ringing' = Ringing BY <2>1, <2>2, RingingStays
    <3>. QED BY <2>2, <3>1, AsMuchUsed
  <2>. QED BY <1>0, <1>4, <2>1, <2>2, <2>3
<1>9. CASE Requests!GiveBackFails(s) BY <1>9 DEF Requests!GiveBackFails
<1>10. CASE Requests!LoseLock(s)
  <2>1. UNCHANGED <<second, asked, letters, asks, unread, row, mark, applied, doing, payload, rung>>
    BY <1>10 DEF Requests!LoseLock, Requests!hub, Requests!table, Requests!counts
  <2>2. Used' = Used BY <2>1 DEF Used, Ringing, ToTell
  <2>3. \A t \in Syncs : doing'[t] = "waiting" /\ Fetched(t)' =>
                            doing[t] = "waiting" /\ Fetched(t) /\ payload'[t] = payload[t]
    BY <2>1 DEF Fetched
  <2>. QED BY <1>0, <2>1, <2>2, <2>3, BudgetKept
<1>. QED BY <1>1, <1>2, <1>3, <1>5, <1>6, <1>7, <1>8, <1>9, <1>10 DEF Requests!Sync

(* The ask that stands is heard. *)

LEMMA HeardKept ==
  ASSUME NEW n \in DOMAIN letters, WillBeHeard(n), UNCHANGED <<letters, row, mark, applied>>,
         Ringing' = Ringing, Recorded(n)' => Recorded(n),
         \A t \in Syncs : Fetched(t)' /\ ~payload'[t].listed => payload'[t].stamp < Stamp(n)
  PROVE  WillBeHeard(n)'
<1>1. Stamp(n)' = Stamp(n) /\ (Past(n)' <=> Past(n)) BY DEF Stamp, Past
<1>2. (WillRing' <=> WillRing) /\ (ToBeOpened(n) => ToBeOpened(n)') BY <1>1 DEF WillRing, ToBeOpened
<1>3. row' # NULL =>
        /\ row'.answered < Stamp(n)'
        /\ row'.told /\ row'.since >= Stamp(n)' => Ringing' # {}
  BY <1>1 DEF WillBeHeard
<1>4. Past(n)' => WillRing' \/ ToBeOpened(n)' BY <1>1, <1>2 DEF WillBeHeard
<1>5. \A t \in Syncs : Fetched(t)' /\ ~payload'[t].listed => payload'[t].stamp < Stamp(n)' BY <1>1
<1>. QED BY <1>3, <1>4, <1>5 DEF WillBeHeard

\* A letter is recorded by whoever has it, and by nobody else.
LEMMA NotYetRecorded ==
  ASSUME NEW s \in Syncs, NEW n \in unread, ~Recorded(n), OthersStay(s),
         unread' \in {unread, unread \ {payload[s].arrived}}, payload[s].arrived # n,
         payload'[s].arrived # n \/ doing'[s] = "waiting"
  PROVE  ~Recorded(n)'
<1>1. n \in unread' OBVIOUS
<1>2. ASSUME NEW t \in Syncs, payload'[t].arrived = n, doing'[t] # "waiting" PROVE FALSE
  <2>1. t # s BY <1>2
  <2>2. payload[t].arrived = n /\ doing[t] # "waiting" BY <1>2, <2>1 DEF OthersStay
  <2>. QED BY <2>2 DEF Recorded
<1>. QED BY <1>1, <1>2 DEF Recorded

\* Whoever has an ask that stands on its hands finds the row as the ask left it.
LEMMA LastOfTheLetters ==
  ASSUME RequestsInv, LettersInOrder, NEW n \in DOMAIN letters, LastAsk(n), NEW m \in DOMAIN letters, Drops(m)
  PROVE  m < n /\ Stamp(m) <= Stamp(n)
<1>1. m \in Nat /\ n \in Nat /\ ~(n < m) /\ m # n
  <2>1. ~Drops(n) BY DEF LastAsk, Drops, IsAsk, LettersInOrder
  <2>. QED BY <2>1, LettersAre DEF RequestsInv, LastAsk
<1>. QED BY <1>1 DEF LettersInOrder

LEMMA HeardRecorded ==
  ASSUME RequestsInv, LettersInOrder, LoadsAre, RowIs, NEW s \in Syncs, Requests!Record(s),
         NEW n \in DOMAIN letters, LastAsk(n), WillBeHeard(n)
  PROVE  WillBeHeard(n)'
<1>. USE DEF RequestsInv
<1>. DEFINE load == payload[s]
            over == Requests!Superseded(load)
<1>0. /\ Steady /\ OthersStay(s) /\ doing[s] = "waiting" /\ (Quits(s) \/ (GoesOn(s) /\ doing'[s] = "claiming"))
      /\ letters' = letters /\ payload[s] \in Loads /\ payload[s].stamp # 0
  BY Recording, LoadsTyped DEF Steady
<1>1. /\ n \in Nat \ {0} /\ Stamp(n) \in Nat \ {0} /\ unread \subseteq DOMAIN letters
      /\ load.stamp \in Nat /\ load.arrived \in Nat /\ mark \in Nat /\ applied \in Nat
      /\ row # NULL => row.since \in Nat /\ row.answered \in Nat
      /\ \A k \in DOMAIN letters : k \in Nat /\ Stamp(k) \in Nat
  BY LettersAre, LoadsTyped DEF TableKinds, Assignments
<1>2. Ringing' = Ringing /\ Stamp(n)' = Stamp(n) BY <1>0, RingingStays DEF Quits, Stamp
<1>3. ASSUME NEW t \in Syncs, Fetched(t)', ~payload'[t].listed PROVE payload'[t].stamp < Stamp(n)'
  <2>1. Fetched(t) /\ payload'[t] = payload[t] BY <1>0, <1>3, LoadsKept
  <2>. QED BY <1>2, <1>3, <2>1 DEF WillBeHeard
<1>4. ASSUME Opened(load) PROVE WillBeHeard(n)'
  <2>1. row' # NULL /\ row'.since = load.stamp /\ row'.told = FALSE /\ row'.answered = 0
    BY <1>0, <1>4, OpenedIs
  <2>2. WillRing' BY <2>1 DEF WillRing
  <2>3. row'.answered < Stamp(n)' /\ ~row'.told BY <1>1, <1>2, <2>1
  <2>. QED BY <1>3, <2>2, <2>3 DEF WillBeHeard
<1>5. /\ over => mark' = mark /\ applied' = applied
      /\ ~over => mark' = load.stamp /\ applied' = (IF load.arrived = 0 THEN applied ELSE load.arrived)
  BY Marked
<1>6. load.arrived = n => load.named BY <1>1 DEF LoadsAre, OfALetter, LastAsk, IsAsk
\* What dropped them is older than the ask.
<1>7. ASSUME ~load.listed PROVE load.stamp < Stamp(n) \/ (load.stamp = Stamp(n) /\ load.arrived # 0 /\ load.arrived < n)
  <2>1. CASE load.arrived = 0 BY <1>0, <1>7, <2>1 DEF WillBeHeard, Fetched
  <2>2. CASE load.arrived # 0
    <3>. DEFINE m == load.arrived
    <3>1. m \in DOMAIN letters /\ Drops(m) /\ Stamp(m) = load.stamp
      BY <1>1, <1>7, <2>2 DEF LoadsAre, OfALetter, Drops
    <3>2. m < n /\ Stamp(m) <= Stamp(n) BY <3>1, LastOfTheLetters
    <3>. QED BY <1>1, <2>2, <3>1, <3>2
  <2>. QED BY <2>1, <2>2
<1>9. ASSUME ~load.listed, ~over PROVE ~Past(n)' BY <1>1, <1>2, <1>5, <1>7, <1>9 DEF Past
<1>10. CASE row' = NULL
  <2>1. CASE row = NULL /\ over
    <3>1. ~Past(n) BY <2>1 DEF WillBeHeard, WillRing, ToBeOpened
    <3>2. ~Past(n)' BY <1>2, <1>5, <2>1, <3>1 DEF Past
    <3>. QED BY <1>3, <1>10, <3>2 DEF WillBeHeard
  <2>2. CASE ~over /\ ~load.listed
    <3>1. ~Past(n)' BY <1>9, <2>2
    <3>. QED BY <1>3, <1>10, <3>1 DEF WillBeHeard
  <2>3. CASE Opened(load) BY <1>4, <2>3
  <2>. QED BY <1>10, <2>1, <2>2, <2>3, RowsAfter
<1>11. ASSUME row # NULL, row' = row, ~Requests!ToldOfAnOlder(row, load),
              ~over => ~Requests!AnsweredBefore(row, load)
       PROVE  WillBeHeard(n)'
  <2>1. /\ row'.answered < Stamp(n)'
        /\ row'.told /\ row'.since >= Stamp(n)' => Ringing' # {}
    BY <1>2, <1>11 DEF WillBeHeard
  <2>2. WillRing => WillRing' BY <1>2, <1>11 DEF WillRing
  <2>3. ASSUME row.told, row.since < Stamp(n), ~Recorded(n) PROVE ~Recorded(n)'
    <3>1. load.arrived # n
      <4>. SUFFICES ASSUME load.arrived = n PROVE FALSE OBVIOUS
      <4>1. load.named /\ load.stamp = Stamp(n) BY <1>1, <1>6 DEF LoadsAre, OfALetter
      <4>. QED BY <1>11, <2>3, <4>1 DEF Requests!ToldOfAnOlder
    <3>2. payload'[s].arrived # n BY <1>0, <1>1, <3>1 DEF Quits, GoesOn, Requests!NoLoad
    <3>3. unread' \in {unread, unread \ {payload[s].arrived}} /\ n \in unread
      BY <1>0, <2>3 DEF Quits, GoesOn, Recorded
    <3>. QED BY <1>0, <2>3, <3>1, <3>2, <3>3, NotYetRecorded
  <2>4. ToBeOpened(n) => ToBeOpened(n)' BY <1>2, <1>11, <2>3 DEF ToBeOpened
  <2>5. ASSUME Past(n)' PROVE WillRing' \/ ToBeOpened(n)'
    <3>1. CASE Past(n) BY <2>2, <2>4, <3>1 DEF WillBeHeard
    <3>2. CASE ~Past(n)
      <4>1. ~over BY <1>2, <1>5, <2>5, <3>2 DEF Past
      <4>2. load.listed /\ mark' = load.stamp /\ Stamp(n) <= load.stamp
        BY <1>1, <1>2, <1>5, <1>9, <2>5, <4>1 DEF Past
      <4>3. row.answered = 0
        <5>1. row.answered < Stamp(n) BY <1>2, <1>11, <2>1
        <5>. QED BY <1>1, <1>11, <4>1, <4>2, <5>1 DEF Requests!AnsweredBefore
      <4>4. ~Recorded(n)
        <5>1. n \in unread BY <3>2 DEF RowIs, LastAsk, IsAsk
        <5>2. ASSUME NEW t \in Syncs, payload[t].arrived = n, doing[t] # "waiting" PROVE FALSE
          <6>1. doing[t] # "idle" /\ payload[t].arrived # 0 BY <1>1, <5>2, LoadsTyped
          <6>. QED BY <3>2, <5>2, <6>1 DEF RowIs
        <5>. QED BY <5>1, <5>2 DEF Recorded
      <4>5. CASE row.told => Ringing # {} BY <1>2, <1>11, <4>3, <4>5 DEF WillRing
      <4>6. CASE row.told /\ Ringing = {}
        <5>1. row.since < Stamp(n) BY <1>1, <1>11, <4>6 DEF WillBeHeard
        <5>. QED BY <1>2, <1>11, <2>3, <4>4, <4>6, <5>1 DEF ToBeOpened
      <4>. QED BY <4>5, <4>6
    <3>. QED BY <3>1, <3>2
  <2>. QED BY <1>3, <2>1, <2>5 DEF WillBeHeard
<1>. HIDE DEF over
<1>12. CASE row' # NULL
  <2>1. \/ Opened(load)
        \/ /\ row # NULL /\ row' = row /\ ~Requests!ToldOfAnOlder(row, load)
           /\ ~over => ~Requests!AnsweredBefore(row, load)
    BY <1>12, RowsAfter DEF over
  <2>. QED BY <1>4, <1>11, <2>1
<1>. QED BY <1>10, <1>12

LEMMA HeardAfterASync ==
  ASSUME RequestsInv, LettersInOrder, LoadsAre, RowIs, AskStands, AskIsHeard,
         NEW s \in Syncs, Requests!Sync(s), ~excused'
  PROVE  AskStands' /\ AskIsHeard'
<1>. USE DEF RequestsInv
<1>0. Steady /\ unrung' \in {unrung, FALSE}
  BY DEF Requests!Sync, Requests!Deliver, Requests!Fetch, Requests!Record, Requests!ClaimNone,
    Requests!ClaimPing, Requests!Ping, Requests!PingFails, Requests!GiveBack, Requests!GiveBackFails,
    Requests!Abort, Requests!LoseLock, Requests!hub, Requests!counts, Steady
<1>1. \A n \in DOMAIN letters : LastAsk(n)' <=> LastAsk(n) BY <1>0 DEF LastAsk, IsAsk, Drops, Steady
<1>2. AskStands' BY <1>0, <1>1 DEF AskStands, Steady
<1>3. ASSUME unrung', unrung, NEW n \in DOMAIN letters, LastAsk(n), WillBeHeard(n) PROVE WillBeHeard(n)'
  <2>0. n \in Nat \ {0} /\ asked /\ \A t \in Syncs : payload[t].arrived \in Nat
    BY <1>3, LettersAre, LoadsTyped DEF AskStands
  <2>1. ASSUME NEW m \in unread, Requests!Deliver(s, m) PROVE WillBeHeard(n)'
    <3>1. /\ OthersStay(s) /\ UNCHANGED <<unread, row, mark, applied>>
          /\ doing[s] = "idle" /\ doing'[s] = "waiting" BY <2>1, Taking
    <3>2. \A t \in Syncs : Fetched(t)' => Fetched(t) /\ payload'[t] = payload[t] BY <2>1, LoadTaken
    <3>3. \A t \in Syncs : Fetched(t)' /\ ~payload'[t].listed => payload'[t].stamp < Stamp(n)
      BY <1>3, <3>2 DEF WillBeHeard
    <3>4. Ringing' = Ringing BY <3>1, RingingStays
    <3>5. Recorded(n)' => Recorded(n) BY <3>1 DEF Recorded, OthersStay
    <3>. QED BY <1>0, <1>3, <3>1, <3>3, <3>4, <3>5, HeardKept DEF Steady
  <2>2. CASE Requests!Fetch(s)
    <3>1. /\ OthersStay(s) /\ UNCHANGED <<unread, row, mark, applied>>
          /\ doing[s] = "idle" /\ doing'[s] = "waiting" /\ payload'[s].listed = asked
      BY <2>2, Reading
    <3>2. \A t \in Syncs \ {s} : Fetched(t)' => Fetched(t) /\ payload'[t] = payload[t] BY <2>2, LoadRead
    <3>3. \A t \in Syncs : Fetched(t)' /\ ~payload'[t].listed => payload'[t].stamp < Stamp(n)
      BY <1>3, <2>0, <3>1, <3>2 DEF WillBeHeard
    <3>4. Ringing' = Ringing BY <3>1, RingingStays
    <3>5. Recorded(n)' => Recorded(n) BY <3>1 DEF Recorded, OthersStay
    <3>. QED BY <1>0, <1>3, <3>1, <3>3, <3>4, <3>5, HeardKept DEF Steady
  <2>3. CASE Requests!Record(s) BY <1>3, <2>3, HeardRecorded
  <2>4. CASE Requests!ClaimNone(s) \/ Requests!Abort(s)
    <3>1. OthersStay(s) /\ Quits(s) /\ UNCHANGED <<mark, applied>> BY <2>4, Leaving
    <3>2. /\ doing[s] \notin {"pinging", "giving_back"} /\ row' = row
          /\ unread' = unread \/ doing[s] = "claiming"
      BY <2>4 DEF Requests!ClaimNone, Requests!Abort, Requests!table, Requests!Raise
    <3>3. \A t \in Syncs : Fetched(t)' /\ ~payload'[t].listed => payload'[t].stamp < Stamp(n)
      BY <1>0, <1>3, <3>1, LoadsKept DEF WillBeHeard
    <3>4. Ringing' = Ringing BY <3>1, <3>2, RingingStays DEF Quits
    <3>5. Recorded(n)' => Recorded(n)
      <4>. SUFFICES ASSUME ~Recorded(n) PROVE ~Recorded(n)' OBVIOUS
      <4>1. payload'[s].arrived # n BY <2>0, <3>1 DEF Quits, Requests!NoLoad
      <4>2. n \in unread /\ (unread' = unread \/ payload[s].arrived # n) BY <3>2 DEF Recorded
      <4>3. n \in unread' BY <3>1, <4>2 DEF Quits
      <4>. QED BY <3>1, <4>1, <4>3 DEF Recorded, OthersStay
    <3>. QED BY <1>0, <1>3, <3>1, <3>2, <3>3, <3>4, <3>5, HeardKept DEF Steady
  <2>5. CASE Requests!ClaimPing(s)
    <3>1. OthersStay(s) /\ GoesOn(s) /\ UNCHANGED <<mark, applied>> /\ doing'[s] = "pinging"
      BY <2>5, Pinging, Going DEF Requests!ClaimPing
    <3>2. s \in Ringing' BY <3>1 DEF Ringing
    <3>3. row # NULL /\ row.answered = 0 BY <2>5 DEF Requests!ClaimPing, Requests!OwedAPing
    <3>4. row' # NULL /\ row'.answered = 0
      <4>1. row \in Assignments /\ row' = [row EXCEPT !.told = TRUE]
        BY <2>5, <3>3 DEF Requests!ClaimPing, TableKinds
      <4>2. row' \in [told : BOOLEAN, since : Nat, answered : Nat] BY <4>1 DEF Assignments
      <4>. QED BY <3>3, <4>1, <4>2, DeliveriesAssumption DEF Requests!RequestsAssumption, Assignments
    <3>5. \A t \in Syncs : Fetched(t)' /\ ~payload'[t].listed => payload'[t].stamp < Stamp(n)
      BY <1>0, <1>3, <3>1, LoadsKept DEF WillBeHeard
    <3>6. Stamp(n)' = Stamp(n) /\ Stamp(n) \in Nat \ {0} BY <1>0, LettersAre DEF Stamp, Steady
    <3>. QED BY <3>2, <3>4, <3>5, <3>6 DEF WillBeHeard, WillRing
  <2>6. CASE Requests!Ping(s) BY <1>3, <2>6 DEF Requests!Ping
  <2>7. CASE Requests!PingFails(s)
    <3>1. OthersStay(s) /\ GoesOn(s) /\ UNCHANGED <<mark, applied>> BY <2>7, Pinging
    <3>2. doing[s] = "pinging" /\ doing'[s] = "giving_back" /\ row' = row
      BY <2>7, Going DEF Requests!PingFails, Requests!table
    <3>3. \A t \in Syncs : Fetched(t)' /\ ~payload'[t].listed => payload'[t].stamp < Stamp(n)
      BY <1>0, <1>3, <3>1, LoadsKept DEF WillBeHeard
    <3>4. Ringing' = Ringing BY <3>1, <3>2, RingingStays
    <3>5. Recorded(n)' => Recorded(n) BY <3>1, <3>2 DEF Recorded, OthersStay, GoesOn
    <3>. QED BY <1>0, <1>3, <3>1, <3>2, <3>3, <3>4, <3>5, HeardKept DEF Steady
  <2>8. CASE Requests!GiveBack(s)
    <3>1. OthersStay(s) /\ Quits(s) /\ UNCHANGED <<mark, applied>> BY <2>8, Leaving
    <3>2. row' # NULL => row # NULL /\ row'.told = FALSE /\ row'.answered = row.answered
      <4>1. row # NULL => row \in Assignments /\ row' = [row EXCEPT !.told = FALSE]
        BY <2>8 DEF Requests!GiveBack, Requests!Released, TableKinds
      <4>2. row = NULL => row' = NULL BY <2>8 DEF Requests!GiveBack, Requests!Released
      <4>. QED BY <4>1, <4>2 DEF Assignments
    <3>3. \A t \in Syncs : Fetched(t)' /\ ~payload'[t].listed => payload'[t].stamp < Stamp(n)
      BY <1>0, <1>3, <3>1, LoadsKept DEF WillBeHeard
    <3>4. Stamp(n)' = Stamp(n) /\ (Past(n)' <=> Past(n)) /\ s \in Ringing
      BY <1>0, <2>8, <3>1 DEF Stamp, Past, Steady, Ringing, Requests!GiveBack
    <3>5. row # NULL => row' # NULL
      <4>1. row # NULL => row' \in [told : BOOLEAN, since : Nat, answered : Nat]
        BY <2>8 DEF Requests!GiveBack, Requests!Released, TableKinds, Assignments
      <4>. QED BY <4>1, DeliveriesAssumption DEF Requests!RequestsAssumption
    <3>6. WillRing => WillRing' BY <3>2, <3>5 DEF WillRing
    <3>7. Past(n)' => WillRing' BY <1>3, <3>4, <3>6 DEF WillBeHeard, ToBeOpened
    <3>8. row' # NULL => row'.answered < Stamp(n)' /\ ~row'.told BY <1>3, <3>2, <3>4 DEF WillBeHeard
    <3>. QED BY <3>3, <3>4, <3>7, <3>8 DEF WillBeHeard
  <2>9. CASE Requests!GiveBackFails(s) BY <2>9 DEF Requests!GiveBackFails
  <2>10. CASE Requests!LoseLock(s)
    <3>1. UNCHANGED <<letters, unread, row, mark, applied, doing, payload>>
      BY <2>10 DEF Requests!LoseLock, Requests!hub, Requests!table
    <3>2. \A t \in Syncs : Fetched(t)' /\ ~payload'[t].listed => payload'[t].stamp < Stamp(n)
      BY <1>3, <3>1 DEF WillBeHeard, Fetched
    <3>3. Ringing' = Ringing /\ (Recorded(n)' => Recorded(n)) BY <3>1 DEF Ringing, Recorded
    <3>. QED BY <1>3, <3>1, <3>2, <3>3, HeardKept
  <2>. QED BY <2>1, <2>2, <2>3, <2>4, <2>5, <2>6, <2>7, <2>8, <2>9, <2>10 DEF Requests!Sync
<1>4. AskIsHeard'
  <2>. SUFFICES ASSUME unrung', NEW n \in DOMAIN letters', LastAsk(n)' PROVE WillBeHeard(n)' BY DEF AskIsHeard
  <2>1. unrung /\ n \in DOMAIN letters /\ LastAsk(n) BY <1>0, <1>1 DEF Steady
  <2>. QED BY <1>3, <2>1 DEF AskIsHeard
<1>. QED BY <1>2, <1>4

(* A review that came through. *)

LEMMA FulfilKeeps ==
  ASSUME RequestsInv, HistoryKinds, IsFiniteSet(Syncs), LettersInOrder, LoadsAre, RowIs, AskStands,
         NEW m \in unread, Requests!Fulfil(m)
  PROVE  /\ LoadsAre' /\ RowIs' /\ AskStands'
         /\ (excused \/ (NoTies /\ RowOfAnAsk /\ AskToCome /\ AskIsHeard)) =>
               (excused' \/ (NoTies' /\ RowOfAnAsk' /\ AskToCome' /\ AskIsHeard'))
<1>. USE DEF RequestsInv
<1>0. /\ UNCHANGED <<second, asked, letters, asks, mark, applied, doing, payload, rung, unrung>>
      /\ unread' \in {unread, unread \ {m}} /\ letters[m].review /\ (excused => excused')
      /\ m \in DOMAIN letters /\ Stamp(m) \in Nat \ {0}
  BY LettersAre DEF Requests!Fulfil, Requests!hub, Requests!sync, Requests!counts
<1>1. /\ row # NULL => row \in Assignments
      /\ \/ row' = row
         \/ row # NULL /\ row.since <= Stamp(m) /\ row' = [row EXCEPT !.answered = Stamp(m)]
  BY DEF Requests!Fulfil, Requests!AskedByThen, TableKinds, Stamp
<1>2. ASSUME row # NULL, row' = [row EXCEPT !.answered = Stamp(m)]
      PROVE  row' # NULL /\ row'.told = row.told /\ row'.since = row.since /\ row'.answered = Stamp(m)
  <2>1. row' \in [told : BOOLEAN, since : Nat, answered : Nat] BY <1>0, <1>1, <1>2 DEF Assignments
  <2>. QED BY <1>1, <1>2, <2>1, DeliveriesAssumption DEF Requests!RequestsAssumption, Assignments
<1>3. /\ row' = NULL <=> row = NULL
      /\ row' # NULL => row'.told = row.told /\ row'.since = row.since
  BY <1>1, <1>2
<1>4. LoadsAre'
  <2>1. \A t \in Syncs : Fetched(t)' <=> Fetched(t) BY <1>0 DEF Fetched
  <2>2. ASSUME NEW t \in Syncs, Fetched(t)'
        PROVE  /\ payload'[t].stamp <= second' /\ ~payload'[t].named
               /\ payload'[t].listed => ListedAt(payload[t].stamp)'
    <3>1. /\ payload[t].stamp <= second /\ ~payload[t].named
          /\ payload[t].listed => ListedAt(payload[t].stamp)
      BY <2>1, <2>2 DEF LoadsAre
    <3>. QED BY <1>0, <3>1 DEF ListedAt, Stamp
  <2>3. ASSUME NEW t \in Syncs, payload'[t].arrived # 0 PROVE OfALetter(t)'
    <3>1. OfALetter(t) BY <1>0, <2>3 DEF LoadsAre
    <3>2. payload[t].arrived \in unread' BY <1>0, <3>1 DEF OfALetter
    <3>. QED BY <1>0, <3>1, <3>2 DEF OfALetter, Stamp
  <2>. QED BY <2>2, <2>3 DEF LoadsAre
<1>5. RowIs'
  <2>1. row' # NULL =>
              /\ row # NULL /\ row'.since = row.since
              /\ \/ row'.answered = row.answered
                 \/ /\ row'.since <= row'.answered
                    /\ \E k \in DOMAIN letters : letters[k].review /\ Stamp(k) = row'.answered
    BY <1>0, <1>1, <1>2
  <2>2. \A n \in DOMAIN letters \ unread' : n \in unread => letters[n].review \/ Past(n) BY <1>0
  <2>. QED BY <1>0, <2>1, <2>2, RowIsKept
<1>6. \A n \in DOMAIN letters : LastAsk(n)' <=> LastAsk(n) BY <1>0 DEF LastAsk, IsAsk, Drops
<1>7. AskStands' BY <1>0, <1>6 DEF AskStands
<1>8. ASSUME ~excused', NoTies, RowOfAnAsk, AskToCome, AskIsHeard
      PROVE  NoTies' /\ RowOfAnAsk' /\ AskToCome' /\ AskIsHeard'
  <2>1. \A t \in Syncs : Fetched(t)' => Fetched(t) /\ payload'[t] = payload[t] BY <1>0 DEF Fetched
  <2>2. NoTies' BY <1>0, <1>8, <2>1, TiesKept
  <2>3. Ringing' = Ringing BY <1>0 DEF Ringing
  <2>4. Used' = Used /\ Used \in Nat
    <3>1. ToTell' = ToTell BY <1>3 DEF ToTell
    <3>. QED BY <1>0, <2>3, <3>1, UsedIs DEF Used
  <2>5. RowOfAnAsk' /\ AskToCome' BY <1>0, <1>3, <1>8, <2>1, <2>4, BudgetKept
  <2>6. ASSUME unrung', NEW n \in DOMAIN letters, LastAsk(n) PROVE WillBeHeard(n)'
    <3>1. WillBeHeard(n) /\ n \in Nat /\ m \in Nat /\ Stamp(n) \in Nat
      BY <1>0, <1>8, <2>6, LettersAre DEF AskIsHeard
    <3>2. Stamp(n)' = Stamp(n) /\ (Past(n)' <=> Past(n)) BY <1>0 DEF Stamp, Past
    <3>3. Recorded(n)' => Recorded(n)
      <4>1. m # n BY <1>0, <2>6 DEF LastAsk, IsAsk
      <4>. QED BY <1>0, <4>1 DEF Recorded
    <3>4. \A t \in Syncs : Fetched(t)' /\ ~payload'[t].listed => payload'[t].stamp < Stamp(n)
      BY <2>1, <3>1 DEF WillBeHeard
    <3>5. CASE row' = row BY <1>0, <2>3, <3>1, <3>3, <3>4, <3>5, HeardKept
    <3>6. CASE row # NULL /\ row.since <= Stamp(m) /\ row' = [row EXCEPT !.answered = Stamp(m)] /\ row' # row
      <4>1. Stamp(m) < Stamp(n)
        <5>1. Drops(m) /\ letters[m].listed BY <1>0 DEF Drops, LettersInOrder
        <5>2. m < n BY <1>0, <2>6, <5>1, LastOfTheLetters
        <5>. QED BY <1>0, <1>8, <2>6, <5>1, <5>2 DEF NoTies, LastAsk
      <4>2. row' # NULL /\ row'.answered = Stamp(m) /\ row'.told = row.told /\ row'.since = row.since
        BY <1>2, <3>6
      <4>3. /\ row'.answered < Stamp(n)'
            /\ row'.told /\ row'.since >= Stamp(n)' => Ringing' # {}
        BY <2>3, <3>1, <3>2, <3>6, <4>1, <4>2 DEF WillBeHeard
      <4>4. ASSUME Past(n) PROVE ToBeOpened(n)'
        <5>1. Stamp(m) < mark
          <6>1. mark \in Nat /\ Stamp(m) \in Nat /\ Stamp(n) <= mark BY <1>0, <3>1, <4>4 DEF Past, TableKinds
          <6>. QED BY <3>1, <4>1, <6>1
        <5>2. row.told /\ Ringing = {}
          <6>1. ~Requests!StillToTell BY <1>8, <3>6, <5>1 DEF Requests!Fulfil, Stamp
          <6>. QED BY <6>1 DEF Requests!StillToTell, Ringing
        <5>3. ToBeOpened(n) BY <3>1, <4>4, <5>2 DEF WillBeHeard, WillRing
        <5>. QED BY <2>3, <3>2, <3>3, <4>2, <5>3 DEF ToBeOpened
      <4>. QED BY <3>2, <3>4, <4>3, <4>4 DEF WillBeHeard
    <3>. QED BY <1>1, <3>5, <3>6
  <2>7. AskIsHeard' BY <1>0, <1>6, <2>6 DEF AskIsHeard
  <2>. QED BY <2>2, <2>5, <2>7
<1>. QED BY <1>0, <1>4, <1>5, <1>7, <1>8

(* GitHub. *)

LEMMA ListChanges ==
  ASSUME RequestsInv, LettersInOrder, LoadsAre, RowIs, AskStands, Requests!TeamAnswered
  PROVE  /\ LettersInOrder' /\ LoadsAre' /\ RowIs' /\ AskStands'
         /\ NoTies /\ RowOfAnAsk /\ AskToCome => NoTies' /\ RowOfAnAsk' /\ AskToCome' /\ AskIsHeard'
<1>. USE DEF RequestsInv
<1>0. /\ UNCHANGED <<letters, unread, row, mark, applied, doing, payload, asks, rung>>
      /\ ~asked' /\ ~unrung' /\ second \in Nat /\ second' \in Nat /\ second <= second'
      /\ \A n \in DOMAIN letters : Stamp(n) \in Nat
      /\ \A s \in Syncs : payload[s].stamp \in Nat
      /\ mark \in Nat
  <2>1. second \in Nat /\ second' \in {second, second + 1}
    BY LettersAre DEF Requests!TeamAnswered, Requests!Later
  <2>. QED BY <2>1, LettersAre, LoadsTyped DEF Requests!TeamAnswered, Requests!table, Requests!sync, TableKinds
<1>1. LettersInOrder'
  <2>1. \A i \in DOMAIN letters : Stamp(i) <= second' BY <1>0 DEF LettersInOrder
  <2>2. \A n \in DOMAIN letters : Stamp(n)' = Stamp(n) /\ (IsAsk(n)' <=> IsAsk(n)) /\ (Drops(n)' <=> Drops(n))
    BY <1>0 DEF Stamp, IsAsk, Drops
  <2>. QED BY <1>0, <2>1, <2>2 DEF LettersInOrder
<1>2. LoadsAre'
  <2>1. ASSUME NEW t \in Syncs, Fetched(t)'
        PROVE  /\ payload'[t].stamp <= second' /\ ~payload'[t].named
               /\ payload'[t].listed => ListedAt(payload[t].stamp)'
    <3>1. /\ payload[t].stamp <= second /\ ~payload[t].named
          /\ payload[t].listed => ListedAt(payload[t].stamp)
      BY <1>0, <2>1 DEF LoadsAre, Fetched
    <3>. QED BY <1>0, <3>1 DEF ListedAt, Stamp
  <2>2. ASSUME NEW t \in Syncs, payload'[t].arrived # 0 PROVE OfALetter(t)'
    BY <1>0, <2>2 DEF LoadsAre, OfALetter, Stamp
  <2>. QED BY <2>1, <2>2 DEF LoadsAre
<1>3. RowIs'
  <2>1. mark' <= second' /\ (applied' # 0 => Stamp(applied)' <= mark') BY <1>0 DEF RowIs, Stamp
  <2>2. \A n \in DOMAIN letters : Past(n)' <=> Past(n) BY <1>0 DEF Past, Stamp
  <2>3. row' # NULL =>
           /\ row'.since <= mark' /\ ListedAt(row.since)'
           /\ row'.answered # 0 =>
                /\ row'.since <= row'.answered
                /\ \E m \in DOMAIN letters' : letters'[m].review /\ Stamp(m)' = row'.answered
    BY <1>0 DEF RowIs, ListedAt, Stamp
  <2>4. \A n \in DOMAIN letters' \ unread' : ~letters'[n].review => Past(n)' BY <1>0, <2>2 DEF RowIs
  <2>5. ASSUME NEW t \in Syncs, doing'[t] \notin {"idle", "waiting"}, payload'[t].arrived # 0
        PROVE  Past(payload[t].arrived)' BY <1>0, <2>5 DEF RowIs, Past, Stamp
  <2>. QED BY <2>1, <2>3, <2>4, <2>5 DEF RowIs
<1>4. AskStands' /\ AskIsHeard' BY <1>0 DEF AskStands, AskIsHeard
<1>5. ASSUME NoTies PROVE NoTies'
  <2>1. \A i, k \in DOMAIN letters :
           i < k /\ IsAsk(k)' /\ letters'[i].listed => Stamp(i)' < Stamp(k)'
    BY <1>0, <1>5 DEF NoTies, IsAsk, Stamp
  <2>2. ASSUME NEW t \in Syncs, Fetched(t)', payload'[t].listed, NEW i \in DOMAIN letters,
               Drops(i)', Stamp(i)' <= payload'[t].stamp
        PROVE  AskedSince(i, payload[t].stamp)'
    <3>1. Fetched(t) /\ Drops(i) /\ Stamp(i) <= payload[t].stamp /\ payload[t].listed
      BY <1>0, <2>2 DEF Fetched, Drops, Stamp
    <3>2. AskedSince(i, payload[t].stamp) BY <1>5, <3>1 DEF NoTies
    <3>. QED BY <1>0, <3>2 DEF AskedSince, IsAsk, Stamp
  <2>3. ASSUME NEW t \in Syncs, Fetched(t)', ~payload'[t].listed, NEW j \in unread', ~Drops(j)',
               payload'[t].stamp <= Stamp(j)'
        PROVE  AskedWithin(payload[t].stamp, Stamp(j))'
    <3>1. Fetched(t) /\ ~payload[t].listed /\ j \in unread /\ ~Drops(j) /\ payload[t].stamp <= Stamp(j)
      BY <1>0, <2>3 DEF Fetched, Drops, Stamp
    <3>2. AskedWithin(payload[t].stamp, Stamp(j)) BY <1>5, <3>1 DEF NoTies
    <3>. QED BY <1>0, <3>2 DEF AskedWithin, IsAsk, Stamp
  <2>4. ASSUME NEW t \in Syncs, Fetched(t)', ~payload'[t].listed, NEW u \in Syncs, Fetched(u)',
               payload'[u].listed, payload'[t].stamp <= payload'[u].stamp
        PROVE  AskedWithin(payload[t].stamp, payload[u].stamp)'
    <3>1. /\ Fetched(t) /\ ~payload[t].listed /\ Fetched(u) /\ payload[u].listed
          /\ payload[t].stamp <= payload[u].stamp BY <1>0, <2>4 DEF Fetched
    <3>2. AskedWithin(payload[t].stamp, payload[u].stamp) BY <1>5, <3>1 DEF NoTies
    <3>. QED BY <1>0, <3>2 DEF AskedWithin, IsAsk, Stamp
  <2>. QED BY <1>0, <2>1, <2>2, <2>3, <2>4 DEF NoTies
<1>6. Used' = Used BY <1>0 DEF Used, Ringing, ToTell
<1>7. ASSUME RowOfAnAsk, AskToCome PROVE RowOfAnAsk' /\ AskToCome'
  <2>1. RowOfAnAsk' BY <1>0, <1>6, <1>7 DEF RowOfAnAsk
  <2>2. ASSUME row' = NULL, NEW j \in unread', ~Drops(j)', mark' <= Stamp(j)', ~(Stamp(j)' = mark' /\ j < applied')
        PROVE  Used' < AsksBy(letters', Stamp(j)')
    BY <1>0, <1>6, <1>7, <2>2 DEF AskToCome, Drops, Stamp
  <2>3. ASSUME row' = NULL, NEW t \in Syncs, doing'[t] = "waiting", Fetched(t)', payload'[t].listed,
               mark' <= payload'[t].stamp
        PROVE  Used' < AsksBy(letters', payload'[t].stamp)
    BY <1>0, <1>6, <1>7, <2>3 DEF AskToCome, Fetched
  <2>4. row' = NULL => Used' <= asks' /\ (asked' => Used' < asks') BY <1>0, <1>6, <1>7 DEF AskToCome
  <2>. QED BY <2>1, <2>2, <2>3, <2>4 DEF AskToCome
<1>. QED BY <1>1, <1>2, <1>3, <1>4, <1>5, <1>7

\* One letter more, and those before it as they were.
NewLetter(N, review, named, stays) ==
    /\ DOMAIN letters' = DOMAIN letters \cup {N} /\ N \in Nat \ {0} /\ unread' = unread \cup {N}
    /\ \A n \in DOMAIN letters : n < N /\ letters'[n] = letters[n]
    /\ letters'[N].review = review /\ letters'[N].named = named /\ letters'[N].listed = (stays \/ named)
    /\ letters'[N].stamp = second' /\ asked' = stays
    /\ second' \in Nat \ {0} /\ second <= second'

LEMMA OneLetterMore ==
  ASSUME RequestsInv, NEW review \in BOOLEAN, NEW named \in BOOLEAN, NEW stays \in BOOLEAN,
         Requests!Send(review, named, stays)
  PROVE  /\ \E N \in Nat : NewLetter(N, review, named, stays)
         /\ Cardinality(AskLetters(letters')) =
               Cardinality(AskLetters(letters)) + (IF named /\ ~review THEN 1 ELSE 0)
         /\ \A y \in Nat : AsksBy(letters, y) <= AsksBy(letters', y)
<1>. USE DEF RequestsInv
<1>1. second \in Nat \ {0} /\ second' \in {second, second + 1} BY LettersAre DEF Requests!Send, Requests!Later
<1>. DEFINE l == [review |-> review, named |-> named, listed |-> stays \/ named, stamp |-> second']
            N == Len(letters) + 1
<1>2. second' \in Nat \ {0} /\ second <= second' BY <1>1
<1>3. l \in Letters BY <1>2 DEF Letters
<1>4. letters' = Append(letters, l) /\ unread' = unread \cup {N} /\ asked' = stays /\ letters \in Seq(Letters)
  BY DEF Requests!Send, HubKinds
<1>5. l.review = review /\ l.named = named /\ l.listed = (stays \/ named) /\ l.stamp = second' OBVIOUS
<1>. HIDE DEF l
<1>6. /\ Cardinality(AskLetters(letters')) =
            Cardinality(AskLetters(letters)) + (IF named /\ ~review THEN 1 ELSE 0)
      /\ \A y \in Nat : AsksBy(letters, y) <= AsksBy(letters', y)
  BY <1>3, <1>4, <1>5, AsksAppended
<1>7. /\ Len(letters) \in Nat /\ DOMAIN letters = 1 .. Len(letters) /\ DOMAIN letters' = 1 .. N
      /\ letters'[N] = l /\ \A n \in DOMAIN letters : letters'[n] = letters[n]
  BY <1>3, <1>4
<1>8. DOMAIN letters' = DOMAIN letters \cup {N} /\ N \in Nat \ {0} /\ \A n \in DOMAIN letters : n < N BY <1>7
<1>. HIDE DEF N
<1>9. NewLetter(N, review, named, stays) BY <1>2, <1>4, <1>5, <1>7, <1>8 DEF NewLetter
<1>. QED BY <1>6, <1>8, <1>9

\* Review, Ask and Withdraw, each as the letter it sends.
IsRequest(review, named) == named /\ ~review
Sends(N, review, named, stays) ==
    /\ NewLetter(N, review, named, stays)
    /\ stays => named \/ asked
    /\ review => named /\ ~stays
    /\ IsRequest(review, named) => stays
    /\ UNCHANGED <<row, mark, applied, doing, payload, rung>>
    /\ asks' = asks + (IF IsRequest(review, named) THEN 1 ELSE 0)
    /\ unrung' => stays /\ (unrung \/ IsRequest(review, named))
    /\ excused => excused'
    /\ \/ excused'
       \/ /\ \A s \in Syncs : payload[s].arrived = 0 /\ payload[s].stamp = second' => payload[s].listed = stays
          /\ IsRequest(review, named) => \A n \in DOMAIN letters : letters[n].stamp = second' => ~letters[n].listed
    /\ Cardinality(AskLetters(letters')) =
          Cardinality(AskLetters(letters)) + (IF IsRequest(review, named) THEN 1 ELSE 0)
    /\ \A y \in Nat : AsksBy(letters, y) <= AsksBy(letters', y)

LEMMA ALetterIsSent ==
  ASSUME RequestsInv, HistoryKinds, Requests!GitHub
  PROVE  \/ Requests!TeamAnswered
         \/ \E N \in Nat, review, named, stays \in BOOLEAN : Sends(N, review, named, stays)
<1>1. TRUE \in BOOLEAN /\ FALSE \in BOOLEAN OBVIOUS
<1>3. CASE Requests!Ask
  <2>1. Requests!Send(FALSE, TRUE, TRUE) BY <1>3 DEF Requests!Ask
  <2>2. PICK N \in Nat : NewLetter(N, FALSE, TRUE, TRUE) BY <1>1, <2>1, OneLetterMore
  <2>3. /\ Cardinality(AskLetters(letters')) = Cardinality(AskLetters(letters)) + 1
        /\ \A y \in Nat : AsksBy(letters, y) <= AsksBy(letters', y)
    BY <1>1, <2>1, OneLetterMore
  <2>4. /\ UNCHANGED <<row, mark, applied, doing, payload, rung>> /\ asks' = asks + 1
        /\ (excused => excused')
        /\ \/ excused'
           \/ ~Requests!TiedAsk /\ ~Requests!TiedRead
    BY <1>3 DEF Requests!Ask, Requests!table, Requests!sync
  <2>5. \/ excused'
        \/ /\ \A s \in Syncs : payload[s].arrived = 0 /\ payload[s].stamp = second' => payload[s].listed = TRUE
           /\ \A n \in DOMAIN letters : letters[n].stamp = second' => ~letters[n].listed
    BY <2>2, <2>4 DEF Requests!TiedAsk, Requests!TiedRead, NewLetter
  <2>6. Sends(N, FALSE, TRUE, TRUE) BY <2>2, <2>3, <2>4, <2>5 DEF Sends, IsRequest
  <2>. QED BY <1>1, <2>6
<1>4. CASE Requests!Review
  <2>1. Requests!Send(TRUE, TRUE, FALSE) BY <1>4 DEF Requests!Review
  <2>2. PICK N \in Nat : NewLetter(N, TRUE, TRUE, FALSE) BY <1>1, <2>1, OneLetterMore
  <2>3. /\ Cardinality(AskLetters(letters')) = Cardinality(AskLetters(letters)) + 0
        /\ \A y \in Nat : AsksBy(letters, y) <= AsksBy(letters', y)
    BY <1>1, <2>1, OneLetterMore
  <2>4. /\ UNCHANGED <<row, mark, applied, doing, payload, rung>> /\ asks' = asks + 0 /\ ~unrung'
        /\ (excused => excused') /\ (excused' \/ ~Requests!TiedRead)
    <3>1. asks' = asks /\ asks + 0 = asks BY <1>4 DEF Requests!Review, HistoryKinds
    <3>. QED BY <1>4, <3>1 DEF Requests!Review, Requests!table, Requests!sync
  <2>5. \/ excused'
        \/ \A s \in Syncs : payload[s].arrived = 0 /\ payload[s].stamp = second' => payload[s].listed = FALSE
    BY <2>2, <2>4 DEF Requests!TiedRead, NewLetter
  <2>6. Sends(N, TRUE, TRUE, FALSE) BY <2>2, <2>3, <2>4, <2>5 DEF Sends, IsRequest
  <2>. QED BY <1>1, <2>6
<1>5. ASSUME NEW stays \in BOOLEAN, Requests!Withdraw(stays)
      PROVE  \E N \in Nat : Sends(N, FALSE, FALSE, stays)
  <2>1. Requests!Send(FALSE, FALSE, stays) BY <1>5 DEF Requests!Withdraw
  <2>2. PICK N \in Nat : NewLetter(N, FALSE, FALSE, stays) BY <1>1, <2>1, OneLetterMore
  <2>3. /\ Cardinality(AskLetters(letters')) = Cardinality(AskLetters(letters)) + 0
        /\ \A y \in Nat : AsksBy(letters, y) <= AsksBy(letters', y)
    BY <1>1, <2>1, OneLetterMore
  <2>4. /\ UNCHANGED <<row, mark, applied, doing, payload, rung>> /\ asks' = asks + 0
        /\ (stays => asked) /\ (unrung' => unrung /\ stays)
        /\ (excused => excused') /\ (excused' \/ ~Requests!TiedRead)
    <3>1. asks' = asks /\ asks + 0 = asks BY <1>5 DEF Requests!Withdraw, HistoryKinds
    <3>. QED BY <1>5, <3>1 DEF Requests!Withdraw, Requests!table, Requests!sync
  <2>5. \/ excused'
        \/ \A s \in Syncs : payload[s].arrived = 0 /\ payload[s].stamp = second' => payload[s].listed = stays
    BY <2>2, <2>4 DEF Requests!TiedRead, NewLetter
  <2>6. Sends(N, FALSE, FALSE, stays) BY <2>2, <2>3, <2>4, <2>5 DEF Sends, IsRequest
  <2>. QED BY <2>6
<1>. QED BY <1>1, <1>3, <1>4, <1>5 DEF Requests!GitHub

LEMMA OrderAfterALetter ==
  ASSUME RequestsInv, LettersInOrder, NEW N, NEW review \in BOOLEAN, NEW named \in BOOLEAN, NEW stays \in BOOLEAN,
         Sends(N, review, named, stays)
  PROVE  /\ LettersInOrder'
         /\ N \in Nat \ {0} /\ N \notin DOMAIN letters /\ N \in DOMAIN letters'
         /\ Stamp(N)' = second' /\ (IsAsk(N)' <=> IsRequest(review, named))
         /\ (Drops(N)' <=> ~stays) /\ (letters'[N].listed <=> (stays \/ named))
         /\ second \in Nat /\ second' \in Nat \ {0} /\ second <= second'
         /\ \A n \in DOMAIN letters' : n \in DOMAIN letters \/ n = N
         /\ \A n \in DOMAIN letters :
               /\ n \in DOMAIN letters' /\ n \in Nat \ {0} /\ n < N /\ letters'[n] = letters[n]
               /\ Stamp(n) \in Nat \ {0} /\ Stamp(n) <= second
               /\ Stamp(n)' = Stamp(n) /\ (IsAsk(n)' <=> IsAsk(n)) /\ (Drops(n)' <=> Drops(n))
         /\ \A i \in DOMAIN letters, y, z \in Nat : y <= z /\ AskedSince(i, y) => AskedSince(i, z)'
         /\ \A x, y, z \in Nat : y <= z /\ AskedWithin(x, y) => AskedWithin(x, z)'
<1>. USE DEF RequestsInv
<1>1. /\ N \in Nat \ {0} /\ N \in DOMAIN letters' /\ DOMAIN letters' = DOMAIN letters \cup {N}
      /\ letters'[N].stamp = second' /\ (letters'[N].listed <=> (stays \/ named))
      /\ letters'[N].review = review /\ letters'[N].named = named
      /\ second \in Nat /\ second' \in Nat \ {0} /\ second <= second' /\ asked' = stays
      /\ \A n \in DOMAIN letters : n < N /\ letters'[n] = letters[n]
  BY LettersAre DEF Sends, NewLetter
<1>2. \A n \in DOMAIN letters :
         /\ n \in Nat \ {0} /\ n < N /\ n \in DOMAIN letters' /\ letters'[n] = letters[n]
         /\ Stamp(n) \in Nat \ {0} /\ Stamp(n) <= second
         /\ Stamp(n)' = Stamp(n) /\ (IsAsk(n)' <=> IsAsk(n)) /\ (Drops(n)' <=> Drops(n))
  <2>1. \A n \in DOMAIN letters : n \in Nat \ {0} /\ Stamp(n) \in Nat \ {0} /\ Stamp(n) <= second
    BY LettersAre DEF LettersInOrder
  <2>. QED BY <1>1, <2>1 DEF Stamp, IsAsk, Drops
<1>3. /\ Stamp(N)' = second' /\ (IsAsk(N)' <=> IsRequest(review, named))
      /\ (Drops(N)' <=> ~stays)
  <2>1. review => named /\ ~stays BY DEF Sends
  <2>2. IsRequest(review, named) => stays BY DEF Sends
  <2>3. Drops(N)' <=> (review \/ ~(stays \/ named)) BY <1>1 DEF Drops
  <2>. QED BY <1>1, <2>1, <2>2, <2>3 DEF Stamp, IsAsk, IsRequest
<1>4. \A n \in DOMAIN letters' : n \in DOMAIN letters \/ n = N BY <1>1
<1>5. N \notin DOMAIN letters BY <1>1, <1>2
<1>6. ASSUME NEW i \in DOMAIN letters, NEW y \in Nat, NEW z \in Nat, y <= z, AskedSince(i, y)
      PROVE  AskedSince(i, z)' BY <1>2, <1>6 DEF AskedSince
<1>7. ASSUME NEW x \in Nat, NEW y \in Nat, NEW z \in Nat, y <= z, AskedWithin(x, y)
      PROVE  AskedWithin(x, z)' BY <1>2, <1>7 DEF AskedWithin
<1>8. \A i, j \in DOMAIN letters' : i <= j => Stamp(i)' <= Stamp(j)'
  <2>. SUFFICES ASSUME NEW i \in DOMAIN letters', NEW j \in DOMAIN letters', i <= j
                PROVE  Stamp(i)' <= Stamp(j)' OBVIOUS
  <2>1. CASE j = N BY <1>1, <1>2, <1>3, <1>4, <2>1
  <2>2. CASE i \in DOMAIN letters /\ j \in DOMAIN letters BY <1>2, <2>2 DEF LettersInOrder
  <2>3. CASE i = N /\ j \in DOMAIN letters BY <1>1, <1>2, <2>3
  <2>. QED BY <1>4, <2>1, <2>2, <2>3
<1>9. ASSUME NEW i \in DOMAIN letters'
      PROVE  /\ Stamp(i)' <= second' /\ (letters'[i].named => letters'[i].listed)
             /\ letters'[i].review => letters'[i].named
  <2>1. CASE i = N BY <1>1, <1>3, <2>1 DEF Sends
  <2>2. CASE i \in DOMAIN letters BY <1>1, <1>2, <2>2 DEF LettersInOrder
  <2>. QED BY <1>4, <2>1, <2>2
<1>10. ASSUME NEW i \in DOMAIN letters', NEW j \in DOMAIN letters', i < j, Drops(i)', ~Drops(j)'
       PROVE  \E k \in DOMAIN letters' : i < k /\ k <= j /\ IsAsk(k)'
  <2>1. CASE i \in DOMAIN letters /\ j \in DOMAIN letters
    <3>1. PICK k \in DOMAIN letters : i < k /\ k <= j /\ IsAsk(k) BY <1>2, <1>10, <2>1 DEF LettersInOrder
    <3>. QED BY <1>2, <3>1
  <2>2. CASE i \in DOMAIN letters /\ j = N
    <3>1. stays BY <1>3, <1>10, <2>2
    <3>2. CASE IsRequest(review, named) BY <1>1, <1>3, <1>10, <2>2, <3>2
    <3>3. CASE ~IsRequest(review, named)
      <4>1. asked BY <3>1, <3>3 DEF Sends, IsRequest
      <4>2. AskedSince(i, second) BY <1>2, <1>10, <2>2, <4>1 DEF LettersInOrder
      <4>3. PICK k \in DOMAIN letters : i < k /\ IsAsk(k) BY <4>2 DEF AskedSince
      <4>4. k <= N BY <1>1, <1>2
      <4>. QED BY <1>2, <2>2, <4>3, <4>4
    <3>. QED BY <3>2, <3>3
  <2>3. i # N BY <1>1, <1>2, <1>4, <1>10
  <2>. QED BY <1>4, <2>1, <2>2, <2>3
<1>11. ASSUME asked'
       PROVE  /\ \A i \in DOMAIN letters' : Drops(i)' => AskedSince(i, second)'
              /\ \E j \in DOMAIN letters' : letters'[j].listed /\ Stamp(j)' = second'
  <2>0. stays BY <1>1, <1>11
  <2>1. ASSUME NEW i \in DOMAIN letters', Drops(i)' PROVE AskedSince(i, second)'
    <3>1. i \in DOMAIN letters /\ Drops(i) BY <1>2, <1>3, <1>4, <2>0, <2>1
    <3>2. CASE IsRequest(review, named) BY <1>1, <1>2, <1>3, <3>1, <3>2 DEF AskedSince
    <3>3. CASE ~IsRequest(review, named)
      <4>1. asked BY <2>0, <3>3 DEF Sends, IsRequest
      <4>2. PICK k \in DOMAIN letters : i < k /\ IsAsk(k) /\ Stamp(k) <= second
        BY <3>1, <4>1 DEF LettersInOrder, AskedSince
      <4>. QED BY <1>1, <1>2, <4>2 DEF AskedSince
    <3>. QED BY <3>2, <3>3
  <2>. QED BY <1>1, <1>3, <2>0, <2>1
<1>12. asks' = Cardinality(AskLetters(letters')) BY DEF Sends, LettersInOrder
<1>13. LettersInOrder' BY <1>8, <1>9, <1>10, <1>11, <1>12 DEF LettersInOrder
<1>14. \A i \in DOMAIN letters, y, z \in Nat : y <= z /\ AskedSince(i, y) => AskedSince(i, z)' BY <1>6
<1>15. \A x, y, z \in Nat : y <= z /\ AskedWithin(x, y) => AskedWithin(x, z)' BY <1>7
<1>. QED BY <1>1, <1>2, <1>3, <1>4, <1>5, <1>13, <1>14, <1>15

LEMMA RowAfterALetter ==
  ASSUME RequestsInv, LettersInOrder, LoadsAre, RowIs, AskStands,
         NEW N, NEW review \in BOOLEAN, NEW named \in BOOLEAN, NEW stays \in BOOLEAN,
         Sends(N, review, named, stays)
  PROVE  /\ LoadsAre' /\ RowIs' /\ AskStands'
         /\ \A n \in DOMAIN letters : Past(n)' <=> Past(n)
         /\ \A n \in DOMAIN letters : n \in unread' <=> n \in unread
         /\ unread' = unread \cup {N} /\ unread \subseteq DOMAIN letters
<1>. USE DEF RequestsInv
<1>1. /\ \A n \in DOMAIN letters' : n \in DOMAIN letters \/ n = N
      /\ N \in Nat \ {0} /\ N \notin DOMAIN letters /\ N \in DOMAIN letters'
      /\ second \in Nat /\ second' \in Nat /\ second <= second'
      /\ \A n \in DOMAIN letters :
            /\ n \in DOMAIN letters' /\ n \in Nat \ {0} /\ n < N /\ letters'[n] = letters[n]
            /\ Stamp(n) \in Nat \ {0}
            /\ Stamp(n)' = Stamp(n) /\ (IsAsk(n)' <=> IsAsk(n)) /\ (Drops(n)' <=> Drops(n))
  BY OrderAfterALetter
<1>2. /\ UNCHANGED <<row, mark, applied, doing, payload>> /\ unread' = unread \cup {N}
      /\ asked' = stays /\ (unrung' => stays /\ (unrung \/ IsRequest(review, named)))
  BY DEF Sends, NewLetter
<1>3. /\ unread \subseteq DOMAIN letters /\ mark \in Nat
      /\ \A s \in Syncs : payload[s].stamp \in Nat /\ payload[s].arrived \in Nat
  BY LettersAre, LoadsTyped DEF TableKinds
<1>4. \A n \in DOMAIN letters : n \in unread' <=> n \in unread BY <1>1, <1>2
<1>5. \A n \in DOMAIN letters : Past(n)' <=> Past(n) BY <1>1, <1>2 DEF Past
<1>7. LoadsAre'
  <2>1. ASSUME NEW t \in Syncs, Fetched(t)'
        PROVE  /\ payload'[t].stamp <= second' /\ ~payload'[t].named
               /\ payload'[t].listed => ListedAt(payload[t].stamp)'
    <3>1. /\ payload[t].stamp <= second /\ ~payload[t].named
          /\ payload[t].listed => ListedAt(payload[t].stamp)
      BY <1>2, <2>1 DEF LoadsAre, Fetched
    <3>2. payload[t].listed => \E j \in DOMAIN letters' : letters'[j].listed /\ Stamp(j)' = payload[t].stamp
      BY <1>1, <3>1 DEF ListedAt
    <3>. QED BY <1>1, <1>2, <1>3, <3>1, <3>2 DEF ListedAt
  <2>2. ASSUME NEW t \in Syncs, payload'[t].arrived # 0 PROVE OfALetter(t)'
    <3>1. OfALetter(t) /\ payload[t].arrived \in DOMAIN letters BY <1>2, <1>3, <2>2 DEF LoadsAre, OfALetter
    <3>. QED BY <1>1, <1>2, <3>1 DEF OfALetter, Stamp
  <2>. QED BY <2>1, <2>2 DEF LoadsAre
<1>8. RowIs'
  <2>1. mark' <= second' /\ (applied' # 0 => Stamp(applied)' <= mark')
    <3>1. applied # 0 => applied \in DOMAIN letters BY LettersAre DEF TableKinds
    <3>2. applied # 0 => letters'[applied] = letters[applied] BY <1>1, <3>1
    <3>. QED BY <1>1, <1>2, <1>3, <3>2 DEF RowIs, Stamp
  <2>2. ASSUME row' # NULL
        PROVE  /\ row'.since <= mark' /\ ListedAt(row.since)'
               /\ row'.answered # 0 =>
                    /\ row'.since <= row'.answered
                    /\ \E m \in DOMAIN letters' : letters'[m].review /\ Stamp(m)' = row'.answered
    <3>1. /\ row.since <= mark /\ ListedAt(row.since)
          /\ row.answered # 0 =>
               /\ row.since <= row.answered
               /\ \E m \in DOMAIN letters : letters[m].review /\ Stamp(m) = row.answered
      BY <1>2, <2>2 DEF RowIs
    <3>2. \E j \in DOMAIN letters' : letters'[j].listed /\ Stamp(j)' = row.since BY <1>1, <3>1 DEF ListedAt
    <3>3. row.answered # 0 => \E m \in DOMAIN letters' : letters'[m].review /\ Stamp(m)' = row.answered
      BY <1>1, <3>1
    <3>. QED BY <1>2, <3>1, <3>2, <3>3 DEF ListedAt
  <2>3. ASSUME NEW n \in DOMAIN letters' \ unread', ~letters'[n].review PROVE Past(n)'
    <3>1. n \in DOMAIN letters \ unread /\ ~letters[n].review BY <1>1, <1>2, <2>3
    <3>. QED BY <1>5, <3>1 DEF RowIs
  <2>4. ASSUME NEW t \in Syncs, doing'[t] \notin {"idle", "waiting"}, payload'[t].arrived # 0
        PROVE  Past(payload[t].arrived)'
    <3>1. Past(payload[t].arrived) /\ payload[t].arrived \in DOMAIN letters
      BY <1>2, <1>3, <2>4 DEF RowIs, LoadsAre, OfALetter
    <3>. QED BY <1>1, <1>2, <3>1 DEF Past, Stamp
  <2>. QED BY <2>1, <2>2, <2>3, <2>4 DEF RowIs
<1>9. AskStands'
  <2>. SUFFICES ASSUME unrung' PROVE asked' /\ \E n \in DOMAIN letters' : LastAsk(n)' BY DEF AskStands
  <2>0. asked' /\ stays /\ (IsAsk(N)' <=> IsRequest(review, named)) /\ ~Drops(N)' BY <1>2, OrderAfterALetter
  <2>1. CASE IsRequest(review, named)
    <3>1. LastAsk(N)'
      <4>1. \A j \in DOMAIN letters' : ~(N < j) BY <1>1
      <4>. QED BY <2>0, <2>1, <4>1 DEF LastAsk
    <3>. QED BY <1>1, <2>0, <3>1
  <2>2. CASE ~IsRequest(review, named)
    <3>1. PICK n \in DOMAIN letters : LastAsk(n) BY <1>2, <2>2 DEF AskStands
    <3>2. LastAsk(n)' BY <1>1, <2>0, <2>2, <3>1 DEF LastAsk
    <3>. QED BY <1>1, <2>0, <3>2
  <2>. QED BY <2>1, <2>2
<1>. QED BY <1>2, <1>3, <1>4, <1>5, <1>7, <1>8, <1>9

LEMMA TiesAfterALetter ==
  ASSUME RequestsInv, LettersInOrder, LoadsAre, NoTies, ~excused',
         NEW N, NEW review \in BOOLEAN, NEW named \in BOOLEAN, NEW stays \in BOOLEAN,
         Sends(N, review, named, stays)
  PROVE  NoTies'
<1>. USE DEF RequestsInv
<1>1. /\ \A n \in DOMAIN letters' : n \in DOMAIN letters \/ n = N
      /\ N \in Nat \ {0} /\ N \notin DOMAIN letters /\ N \in DOMAIN letters'
      /\ second \in Nat /\ second' \in Nat /\ second <= second'
      /\ Stamp(N)' = second' /\ (IsAsk(N)' <=> IsRequest(review, named)) /\ (Drops(N)' <=> ~stays)
      /\ \A n \in DOMAIN letters :
            /\ n \in DOMAIN letters' /\ n \in Nat \ {0} /\ n < N /\ letters'[n] = letters[n]
            /\ Stamp(n) \in Nat \ {0} /\ Stamp(n) <= second
            /\ Stamp(n)' = Stamp(n) /\ (IsAsk(n)' <=> IsAsk(n)) /\ (Drops(n)' <=> Drops(n))
  BY OrderAfterALetter
<1>3. /\ UNCHANGED <<doing, payload>> /\ unread' = unread \cup {N} /\ asked' = stays
      /\ stays => IsRequest(review, named) \/ asked
      /\ \A s \in Syncs : payload[s].arrived = 0 /\ payload[s].stamp = second' => payload[s].listed = stays
      /\ IsRequest(review, named) => \A n \in DOMAIN letters : letters[n].stamp = second' => ~letters[n].listed
  BY DEF Sends, NewLetter, IsRequest
<1>4. /\ unread \subseteq DOMAIN letters
      /\ \A s \in Syncs : /\ payload[s].stamp \in Nat /\ (Fetched(s)' <=> Fetched(s))
                          /\ Fetched(s) => payload[s].stamp <= second /\ payload[s].arrived = 0
  BY <1>3, LettersAre, LoadsTyped DEF Fetched, LoadsAre
<1>5. ASSUME NEW i \in DOMAIN letters', NEW k \in DOMAIN letters', i < k, IsAsk(k)', letters'[i].listed
      PROVE  Stamp(i)' < Stamp(k)'
  <2>1. i \in DOMAIN letters BY <1>1, <1>5
  <2>2. CASE k \in DOMAIN letters BY <1>1, <1>5, <2>1, <2>2 DEF NoTies
  <2>3. CASE k = N
    <3>1. Stamp(i) # second' BY <1>1, <1>3, <1>5, <2>1, <2>3 DEF Stamp
    <3>. QED BY <1>1, <2>1, <2>3, <3>1
  <2>. QED BY <1>1, <2>2, <2>3
<1>6. ASSUME NEW t \in Syncs, Fetched(t)', payload'[t].listed, NEW i \in DOMAIN letters',
             Drops(i)', Stamp(i)' <= payload'[t].stamp
      PROVE  AskedSince(i, payload[t].stamp)'
  <2>0. Fetched(t) /\ payload'[t] = payload[t] /\ payload[t].stamp <= second /\ payload[t].stamp \in Nat
    BY <1>3, <1>4, <1>6
  <2>1. i \in DOMAIN letters
    <3>. SUFFICES ASSUME i = N PROVE FALSE BY <1>1
    <3>1. ~stays /\ payload[t].stamp = second' BY <1>1, <1>6, <2>0
    <3>2. payload[t].arrived = 0 /\ payload[t].listed BY <1>4, <1>6, <2>0
    <3>. QED BY <1>3, <3>1, <3>2
  <2>2. AskedSince(i, payload[t].stamp) BY <1>1, <1>6, <2>0, <2>1 DEF NoTies
  <2>3. \E k \in DOMAIN letters : i < k /\ IsAsk(k) /\ Stamp(k) <= payload[t].stamp BY <2>2 DEF AskedSince
  <2>. QED BY <1>1, <2>0, <2>3 DEF AskedSince
<1>7. ASSUME NEW t \in Syncs, Fetched(t)', ~payload'[t].listed, NEW y \in Nat,
             \/ IsRequest(review, named) /\ y = second'
             \/ \E x \in Nat : x <= y /\ AskedWithin(payload[t].stamp, x)
      PROVE  \E k \in DOMAIN letters' : IsAsk(k)' /\ payload[t].stamp <= Stamp(k)' /\ Stamp(k)' <= y
  <2>0. payload[t].stamp <= second /\ payload[t].stamp \in Nat BY <1>4, <1>7
  <2>1. CASE IsRequest(review, named) /\ y = second' BY <1>1, <2>0, <2>1
  <2>2. CASE \E x \in Nat : x <= y /\ AskedWithin(payload[t].stamp, x) BY <1>1, <2>2 DEF AskedWithin
  <2>. QED BY <1>7, <2>1, <2>2
<1>8. ASSUME NEW t \in Syncs, Fetched(t)', ~payload'[t].listed
      PROVE  /\ \A j \in unread' :
                   ~Drops(j)' /\ payload'[t].stamp <= Stamp(j)' => AskedWithin(payload[t].stamp, Stamp(j))'
             /\ \A u \in Syncs :
                   Fetched(u)' /\ payload'[u].listed /\ payload'[t].stamp <= payload'[u].stamp =>
                      AskedWithin(payload[t].stamp, payload[u].stamp)'
             /\ asked' => AskedWithin(payload[t].stamp, second)'
  <2>0. Fetched(t) /\ ~payload[t].listed /\ payload'[t] = payload[t] BY <1>3, <1>4, <1>8
  <2>1. stays => IsRequest(review, named) \/ AskedWithin(payload[t].stamp, second) BY <1>3, <2>0 DEF NoTies
  <2>2. stays => \E k \in DOMAIN letters' : IsAsk(k)' /\ payload[t].stamp <= Stamp(k)' /\ Stamp(k)' <= second'
    BY <1>1, <1>7, <1>8, <2>1
  <2>3. asked' => AskedWithin(payload[t].stamp, second)' BY <1>3, <2>2 DEF AskedWithin
  <2>4. ASSUME NEW j \in unread', ~Drops(j)', payload'[t].stamp <= Stamp(j)'
        PROVE  AskedWithin(payload[t].stamp, Stamp(j))'
    <3>1. CASE j = N
      <4>1. stays /\ Stamp(j)' = second' BY <1>1, <2>4, <3>1
      <4>. QED BY <1>3, <2>2, <4>1 DEF AskedWithin
    <3>2. CASE j \in unread
      <4>1. j \in DOMAIN letters /\ ~Drops(j) /\ Stamp(j)' = Stamp(j) /\ Stamp(j) \in Nat
        BY <1>1, <1>4, <2>4, <3>2
      <4>2. AskedWithin(payload[t].stamp, Stamp(j)) BY <2>0, <2>4, <3>2, <4>1 DEF NoTies
      <4>3. \E k \in DOMAIN letters' : IsAsk(k)' /\ payload[t].stamp <= Stamp(k)' /\ Stamp(k)' <= Stamp(j)
        BY <1>7, <1>8, <4>1, <4>2
      <4>. QED BY <1>3, <4>1, <4>3 DEF AskedWithin
    <3>. QED BY <1>3, <3>1, <3>2
  <2>5. ASSUME NEW u \in Syncs, Fetched(u)', payload'[u].listed, payload'[t].stamp <= payload'[u].stamp
        PROVE  AskedWithin(payload[t].stamp, payload[u].stamp)'
    <3>1. AskedWithin(payload[t].stamp, payload[u].stamp) /\ payload[u].stamp \in Nat
      BY <1>3, <1>4, <2>0, <2>5 DEF NoTies
    <3>2. \E k \in DOMAIN letters' : IsAsk(k)' /\ payload[t].stamp <= Stamp(k)' /\ Stamp(k)' <= payload[u].stamp
      BY <1>7, <1>8, <3>1
    <3>. QED BY <1>3, <3>2 DEF AskedWithin
  <2>. QED BY <2>3, <2>4, <2>5
<1>. QED BY <1>5, <1>6, <1>8 DEF NoTies

LEMMA BudgetAfterALetter ==
  ASSUME RequestsInv, RequestsInv', HistoryKinds, IsFiniteSet(Syncs), LettersInOrder, LoadsAre, RowOfAnAsk, AskToCome,
         NEW N, NEW review \in BOOLEAN, NEW named \in BOOLEAN, NEW stays \in BOOLEAN,
         Sends(N, review, named, stays)
  PROVE  RowOfAnAsk' /\ AskToCome'
<1>1. /\ N \in Nat \ {0} /\ second' \in Nat
      /\ Stamp(N)' = second' /\ (Drops(N)' <=> ~stays)
      /\ \A n \in DOMAIN letters : Stamp(n) \in Nat /\ Stamp(n)' = Stamp(n) /\ (Drops(n)' <=> Drops(n))
      /\ LettersInOrder' BY OrderAfterALetter
<1>2. /\ UNCHANGED <<row, mark, applied, doing, payload, rung>> /\ unread' = unread \cup {N} /\ asked' = stays
      /\ stays => IsRequest(review, named) \/ asked
      /\ asks' = asks + (IF IsRequest(review, named) THEN 1 ELSE 0)
      /\ \A y \in Nat : AsksBy(letters, y) <= AsksBy(letters', y)
  BY DEF Sends, NewLetter, IsRequest
<1>3. /\ Used' = Used /\ Used \in Nat /\ asks \in Nat /\ asks <= asks'
      /\ \A x \in Nat : AsksBy(letters, x) \in Nat
      /\ unread \subseteq DOMAIN letters
      /\ \A s \in Syncs : payload[s].stamp \in Nat /\ (Fetched(s)' <=> Fetched(s))
      /\ row # NULL => row.since \in Nat
  <2>1. Used' = Used BY <1>2 DEF Used, Ringing, ToTell
  <2>2. \A s \in Syncs : Fetched(s)' <=> Fetched(s) BY <1>2 DEF Fetched
  <2>3. asks \in Nat /\ asks <= asks' BY <1>2 DEF HistoryKinds
  <2>. QED BY <2>1, <2>2, <2>3, UsedIs, AsksOrder, LettersAre, LoadsTyped DEF RequestsInv, TableKinds, Assignments
<1>4. /\ \A y \in Nat : AsksBy(letters', y) \in Nat
      /\ AsksBy(letters', second') = asks'
  <2>1. letters' \in Seq(Letters) BY DEF RequestsInv, HubKinds
  <2>2. /\ asks' = Cardinality(AskLetters(letters'))
        /\ \A k \in AskLetters(letters') : letters'[k].stamp <= second'
    BY <1>1 DEF LettersInOrder, AskLetters, Stamp
  <2>. QED BY <1>1, <2>1, <2>2, AsksCounted
<1>5. RowOfAnAsk'
  <2>. SUFFICES ASSUME row' # NULL PROVE Used' <= AsksBy(letters', row'.since) BY DEF RowOfAnAsk
  <2>1. row' = row /\ Used <= AsksBy(letters, row.since) /\ AsksBy(letters, row.since) <= AsksBy(letters', row.since)
    BY <1>2, <1>3 DEF RowOfAnAsk
  <2>. QED BY <1>2, <1>3, <1>4, <2>1
<1>6. AskToCome'
  <2>. SUFFICES ASSUME row' = NULL PROVE AskToCome' BY DEF AskToCome
  <2>1. row = NULL /\ Used <= asks /\ (asked => Used < asks) BY <1>2 DEF AskToCome
  <2>2. stays => Used < asks'
    <3>1. CASE IsRequest(review, named) BY <1>2, <1>3, <2>1, <3>1
    <3>2. CASE ~IsRequest(review, named) BY <1>2, <1>3, <2>1, <3>2
    <3>. QED BY <3>1, <3>2
  <2>3. Used' <= asks' /\ (asked' => Used' < asks') BY <1>2, <1>3, <1>4, <2>1, <2>2
  <2>4. ASSUME NEW j \in unread', ~Drops(j)', mark' <= Stamp(j)', ~(Stamp(j)' = mark' /\ j < applied')
        PROVE  Used' < AsksBy(letters', Stamp(j)')
    <3>1. CASE j = N BY <1>1, <1>3, <1>4, <2>2, <2>4, <3>1
    <3>2. CASE j \in unread
      <4>1. j \in DOMAIN letters /\ Stamp(j)' = Stamp(j) /\ Stamp(j) \in Nat /\ ~Drops(j)
        BY <1>1, <1>3, <2>4, <3>2
      <4>2. Used < AsksBy(letters, Stamp(j)) /\ AsksBy(letters, Stamp(j)) <= AsksBy(letters', Stamp(j))
        BY <1>2, <2>1, <2>4, <3>2, <4>1 DEF AskToCome
      <4>3. Used < AsksBy(letters', Stamp(j)) BY <1>3, <1>4, <4>1, <4>2
      <4>. QED BY <1>3, <4>1, <4>3
    <3>. QED BY <1>2, <3>1, <3>2
  <2>5. ASSUME NEW t \in Syncs, doing'[t] = "waiting", Fetched(t)', payload'[t].listed, mark' <= payload'[t].stamp
        PROVE  Used' < AsksBy(letters', payload'[t].stamp)
    <3>1. payload'[t] = payload[t] /\ payload[t].stamp \in Nat /\ Fetched(t) BY <1>2, <1>3, <2>5
    <3>2. Used < AsksBy(letters, payload[t].stamp) BY <1>2, <2>1, <2>5, <3>1 DEF AskToCome
    <3>3. Used < AsksBy(letters', payload[t].stamp) BY <1>2, <1>3, <1>4, <3>1, <3>2
    <3>. QED BY <1>3, <3>1, <3>3
  <2>. QED BY <2>3, <2>4, <2>5 DEF AskToCome
<1>. QED BY <1>5, <1>6

LEMMA HeardAfterALetter ==
  ASSUME RequestsInv, LettersInOrder, LoadsAre, RowIs, AskStands, AskIsHeard, ~excused',
         NEW N, NEW review \in BOOLEAN, NEW named \in BOOLEAN, NEW stays \in BOOLEAN,
         Sends(N, review, named, stays)
  PROVE  AskIsHeard'
<1>. USE DEF RequestsInv
<1>1. /\ \A n \in DOMAIN letters' : n \in DOMAIN letters \/ n = N
      /\ N \in Nat \ {0} /\ N \notin DOMAIN letters /\ N \in DOMAIN letters'
      /\ second \in Nat /\ second' \in Nat \ {0} /\ second <= second'
      /\ Stamp(N)' = second' /\ (IsAsk(N)' <=> IsRequest(review, named)) /\ (Drops(N)' <=> ~stays)
      /\ \A n \in DOMAIN letters :
            /\ n \in DOMAIN letters' /\ n \in Nat \ {0} /\ n < N /\ letters'[n] = letters[n]
            /\ Stamp(n) \in Nat \ {0} /\ Stamp(n) <= second
            /\ Stamp(n)' = Stamp(n) /\ (IsAsk(n)' <=> IsAsk(n)) /\ (Drops(n)' <=> Drops(n))
  BY OrderAfterALetter
<1>2. /\ UNCHANGED <<row, mark, applied, doing, payload, rung>> /\ unread' = unread \cup {N} /\ asked' = stays
      /\ unrung' => stays /\ (unrung \/ IsRequest(review, named))
      /\ \A s \in Syncs : payload[s].arrived = 0 /\ payload[s].stamp = second' => payload[s].listed = stays
      /\ IsRequest(review, named) => \A n \in DOMAIN letters : letters[n].stamp = second' => ~letters[n].listed
  BY DEF Sends, NewLetter
<1>3. /\ \A n \in DOMAIN letters : Past(n)' <=> Past(n)
      /\ \A n \in DOMAIN letters : n \in unread' <=> n \in unread
  BY RowAfterALetter
<1>4. Ringing' = Ringing /\ (WillRing' <=> WillRing) BY <1>2 DEF Ringing, WillRing
<1>5. ASSUME unrung', NEW n \in DOMAIN letters, LastAsk(n)' PROVE WillBeHeard(n)'
  <2>1. ~IsRequest(review, named) /\ unrung BY <1>1, <1>2, <1>5 DEF LastAsk
  <2>2. LastAsk(n) BY <1>1, <1>5 DEF LastAsk
  <2>3. WillBeHeard(n) BY <2>1, <2>2 DEF AskIsHeard
  <2>4. Recorded(n)' <=> Recorded(n) BY <1>2, <1>3 DEF Recorded
  <2>5. ToBeOpened(n)' <=> ToBeOpened(n) BY <1>1, <1>2, <1>4, <2>4 DEF ToBeOpened
  <2>6. \A t \in Syncs : Fetched(t)' /\ ~payload'[t].listed => payload'[t].stamp < Stamp(n)'
    BY <1>1, <1>2, <2>3 DEF WillBeHeard, Fetched
  <2>7. row' # NULL => /\ row'.answered < Stamp(n)'
                       /\ row'.told /\ row'.since >= Stamp(n)' => Ringing' # {}
    BY <1>1, <1>2, <1>4, <2>3 DEF WillBeHeard
  <2>8. Past(n)' => WillRing' \/ ToBeOpened(n)' BY <1>3, <1>4, <2>3, <2>5 DEF WillBeHeard
  <2>. QED BY <2>6, <2>7, <2>8 DEF WillBeHeard
<1>6. ASSUME unrung', LastAsk(N)' PROVE WillBeHeard(N)'
  <2>0. IsRequest(review, named) /\ stays BY <1>1, <1>2, <1>6 DEF LastAsk
  <2>1. ASSUME NEW t \in Syncs, Fetched(t)', ~payload'[t].listed PROVE payload'[t].stamp < Stamp(N)'
    <3>1. /\ payload'[t] = payload[t] /\ payload[t].arrived = 0
          /\ payload[t].stamp <= second /\ payload[t].stamp \in Nat
      BY <1>2, <2>1, LoadsTyped DEF Fetched, LoadsAre
    <3>2. payload[t].stamp # second' BY <1>2, <2>0, <2>1, <3>1
    <3>. QED BY <1>1, <3>1, <3>2
  <2>2. ASSUME NEW j \in DOMAIN letters, letters[j].listed PROVE Stamp(j) < second'
    <3>1. Stamp(j) # second' BY <1>2, <2>0, <2>2 DEF Stamp
    <3>. QED BY <1>1, <3>1
  <2>3. ASSUME row' # NULL
        PROVE  /\ row'.answered < Stamp(N)'
               /\ row'.told /\ row'.since >= Stamp(N)' => Ringing' # {}
    <3>1. row.since < second' BY <1>2, <2>2, <2>3 DEF RowIs, ListedAt
    <3>2. row.answered < second'
      <4>1. CASE row.answered = 0 BY <1>1, <4>1
      <4>2. CASE row.answered # 0
        <5>1. PICK m \in DOMAIN letters : letters[m].review /\ Stamp(m) = row.answered
          BY <1>2, <2>3, <4>2 DEF RowIs
        <5>2. letters[m].listed BY <5>1 DEF LettersInOrder
        <5>. QED BY <2>2, <5>1, <5>2
      <4>. QED BY <4>1, <4>2
    <3>3. row.since \in Nat BY <1>2, <2>3 DEF TableKinds, Assignments
    <3>. QED BY <1>1, <1>2, <3>1, <3>2, <3>3
  <2>4. ~Past(N)'
    <3>1. mark \in Nat /\ mark <= second /\ applied \in 0 .. Len(letters) /\ (applied # 0 => applied \in DOMAIN letters)
      BY LettersAre DEF TableKinds, RowIs
    <3>2. applied < N BY <1>1, <3>1
    <3>3. applied \in Nat BY <3>1, LettersAre
    <3>. QED BY <1>1, <1>2, <3>1, <3>2, <3>3 DEF Past
  <2>. QED BY <2>1, <2>3, <2>4 DEF WillBeHeard
<1>. QED BY <1>1, <1>5, <1>6 DEF AskIsHeard

(* The whole of it. *)

LEMMA AsksInit == Requests!Init => AsksInv
<1>. SUFFICES ASSUME Requests!Init PROVE AsksInv OBVIOUS
<1>. USE DEF Requests!Init
<1>1. RequestsInv /\ HistoryKinds BY RequestsInit DEF HistoryKinds
<1>2. letters = << >> /\ DOMAIN letters = {} /\ unread = {} /\ row = NULL /\ mark = 0 /\ applied = 0 OBVIOUS
<1>3. \A s \in Syncs : doing[s] = "idle" /\ payload[s].arrived = 0 BY DEF Requests!NoLoad
<1>4. AskLetters(letters) = {} /\ Cardinality(AskLetters(letters)) = 0 BY <1>2, FS_EmptySet DEF AskLetters
<1>5. LettersInOrder BY <1>2, <1>4 DEF LettersInOrder
<1>6. LoadsAre /\ NoTies BY <1>2, <1>3 DEF LoadsAre, NoTies, Fetched
<1>7. RowIs BY <1>2, <1>3 DEF RowIs
<1>8. AskStands /\ AskIsHeard /\ RowOfAnAsk BY <1>2 DEF AskStands, AskIsHeard, RowOfAnAsk
<1>9. Used = 0
  <2>1. Ringing = {} BY <1>3 DEF Ringing
  <2>2. Cardinality(Ringing) = 0 BY <2>1, FS_EmptySet
  <2>3. ToTell = 0 BY <1>2 DEF ToTell
  <2>. QED BY <2>2, <2>3 DEF Used
<1>10. AskToCome BY <1>2, <1>3, <1>9 DEF AskToCome
<1>. QED BY <1>1, <1>5, <1>6, <1>7, <1>8, <1>10 DEF AsksInv

LEMMA HistoriesKept ==
  ASSUME HistoryKinds, Requests!Next PROVE HistoryKinds'
<1>1. asks' \in {asks, asks + 1} /\ rung' \in {rung, rung + 1}
  BY DEF Requests!Next, Requests!GitHub, Requests!Ask, Requests!Review, Requests!TeamAnswered,
    Requests!Withdraw, Requests!Fulfil, Requests!Sync, Requests!Deliver, Requests!Fetch, Requests!Record,
    Requests!ClaimNone, Requests!ClaimPing, Requests!Ping, Requests!PingFails, Requests!GiveBack,
    Requests!GiveBackFails, Requests!Abort, Requests!LoseLock, Requests!counts
<1>2. unrung' \in BOOLEAN
  BY DEF HistoryKinds, Requests!Next, Requests!GitHub, Requests!Ask, Requests!Review, Requests!TeamAnswered,
    Requests!Withdraw, Requests!Fulfil, Requests!Sync, Requests!Deliver, Requests!Fetch, Requests!Record,
    Requests!ClaimNone, Requests!ClaimPing, Requests!Ping, Requests!PingFails, Requests!GiveBack,
    Requests!GiveBackFails, Requests!Abort, Requests!LoseLock, Requests!counts
<1>3. excused' \in BOOLEAN
  BY DEF HistoryKinds, Requests!Next, Requests!GitHub, Requests!Ask, Requests!Review, Requests!TeamAnswered,
    Requests!Withdraw, Requests!Fulfil, Requests!Sync, Requests!Deliver, Requests!Fetch, Requests!Record,
    Requests!ClaimNone, Requests!ClaimPing, Requests!Ping, Requests!PingFails, Requests!GiveBack,
    Requests!GiveBackFails, Requests!Abort, Requests!LoseLock
<1>4. asks' \in Nat /\ rung' \in Nat BY <1>1 DEF HistoryKinds
<1>. QED BY <1>2, <1>3, <1>4 DEF HistoryKinds

LEMMA AsksGitHub ==
  ASSUME AsksInv, IsFiniteSet(Syncs), Requests!GitHub, RequestsInv', HistoryKinds' PROVE AsksInv'
<1>. USE DEF AsksInv
<1>1. CASE Requests!TeamAnswered
  <2>1. excused' = excused BY <1>1 DEF Requests!TeamAnswered
  <2>. QED BY <1>1, <2>1, ListChanges
<1>2. ASSUME NEW N \in Nat, NEW review \in BOOLEAN, NEW named \in BOOLEAN, NEW stays \in BOOLEAN,
             Sends(N, review, named, stays)
      PROVE  AsksInv'
  <2>1. LettersInOrder' /\ LoadsAre' /\ RowIs' /\ AskStands' BY <1>2, OrderAfterALetter, RowAfterALetter
  <2>2. ASSUME ~excused' PROVE NoTies' /\ RowOfAnAsk' /\ AskToCome' /\ AskIsHeard'
    <3>1. NoTies /\ RowOfAnAsk /\ AskToCome /\ AskIsHeard BY <1>2, <2>2 DEF Sends
    <3>. QED BY <1>2, <2>2, <3>1, TiesAfterALetter, BudgetAfterALetter, HeardAfterALetter
  <2>. QED BY <2>1, <2>2
<1>. QED BY <1>1, <1>2, ALetterIsSent

LEMMA AsksSync ==
  ASSUME AsksInv, IsFiniteSet(Syncs), NEW s \in Syncs, Requests!Sync(s), RequestsInv', HistoryKinds'
  PROVE  AsksInv'
<1>. USE DEF AsksInv
<1>1. Steady BY DEF Requests!Sync, Requests!Deliver, Requests!Fetch, Requests!Record, Requests!ClaimNone,
    Requests!ClaimPing, Requests!Ping, Requests!PingFails, Requests!GiveBack, Requests!GiveBackFails,
    Requests!Abort, Requests!LoseLock, Requests!hub, Requests!counts, Steady
<1>2. LettersInOrder' BY <1>1 DEF Steady, LettersInOrder, Stamp, Drops, IsAsk, AskedSince
<1>3. RowIs' BY RowIsAfterASync
<1>4. (unrung' = unrung \/ unrung' = FALSE) /\ (excused => excused')
  <2>2. unrung' = unrung \/ unrung' = FALSE
    BY DEF Requests!Sync, Requests!Deliver, Requests!Fetch, Requests!Record, Requests!ClaimNone,
      Requests!ClaimPing, Requests!Ping, Requests!PingFails, Requests!GiveBack, Requests!GiveBackFails,
      Requests!Abort, Requests!LoseLock, Requests!hub, Requests!counts
  <2>3. excused => excused'
    <3>1. CASE UNCHANGED excused BY <3>1
    <3>2. CASE Requests!Abort(s) BY <3>2 DEF Requests!Abort
    <3>3. CASE Requests!LoseLock(s) BY <3>3 DEF Requests!LoseLock
    <3>4. CASE Requests!ClaimPing(s) \/ Requests!GiveBack(s) \/ Requests!GiveBackFails(s) \/ Requests!Fetch(s)
      BY <3>4 DEF Requests!ClaimPing, Requests!GiveBack, Requests!GiveBackFails, Requests!Fetch
    <3>. QED BY <3>1, <3>2, <3>3, <3>4 DEF Requests!Sync, Requests!Deliver, Requests!Record,
      Requests!ClaimNone, Requests!Ping, Requests!PingFails
  <2>. QED BY <2>2, <2>3
<1>5. AskStands' BY <1>1, <1>4 DEF Steady, AskStands, LastAsk, IsAsk, Drops
<1>6. LoadsAre' /\ (NoTies /\ ~excused' => NoTies')
  <2>1. ASSUME NEW n \in unread, Requests!Deliver(s, n) PROVE LoadsAre' /\ (NoTies => NoTies')
    BY <1>1, <2>1, LoadTaken, Taking, TiesKept DEF Steady
  <2>2. CASE Requests!Fetch(s) BY <2>2, LoadRead, TiesOfARead
  <2>3. ASSUME OthersStay(s), Quits(s) \/ GoesOn(s) PROVE LoadsAre' /\ (NoTies => NoTies')
    <3>1. unread' \subseteq unread BY <2>3 DEF Quits, GoesOn
    <3>. QED BY <1>1, <2>3, <3>1, LoadsKept, TiesKept DEF Steady
  <2>4. CASE Requests!Record(s) BY <2>3, <2>4, Recording DEF RequestsInv
  <2>5. CASE \/ Requests!ClaimNone(s) \/ Requests!Ping(s) \/ Requests!GiveBack(s)
             \/ Requests!GiveBackFails(s) \/ Requests!Abort(s)
    BY <2>3, <2>5, Leaving DEF RequestsInv
  <2>6. CASE Requests!ClaimPing(s) \/ Requests!PingFails(s) BY <2>3, <2>6, Pinging DEF RequestsInv
  <2>7. CASE Requests!LoseLock(s)
    <3>1. UNCHANGED <<second, asked, letters, unread, doing, payload>>
      BY <2>7 DEF Requests!LoseLock, Requests!hub
    <3>2. \A t \in Syncs : Fetched(t)' <=> Fetched(t) BY <3>1 DEF Fetched
    <3>3. LoadsAre' BY <3>1 DEF LoadsAre, Fetched, OfALetter, ListedAt, Stamp
    <3>. QED BY <3>1, <3>2, <3>3, TiesKept
  <2>. QED BY <2>1, <2>2, <2>4, <2>5, <2>6, <2>7 DEF Requests!Sync
<1>7. ASSUME ~excused' PROVE NoTies' /\ RowOfAnAsk' /\ AskToCome' /\ AskIsHeard'
  <2>1. NoTies /\ RowOfAnAsk /\ AskToCome /\ AskIsHeard BY <1>4, <1>7
  <2>. QED BY <1>6, <1>7, <2>1, BudgetAfterASync, HeardAfterASync
<1>. QED BY <1>2, <1>3, <1>5, <1>6, <1>7

LEMMA AsksStep ==
  ASSUME IsFiniteSet(Syncs) PROVE AsksInv /\ [Requests!Next]_(Requests!requestsVars) => AsksInv'
<1>1. ASSUME AsksInv, Requests!Next PROVE RequestsInv' /\ HistoryKinds'
  BY <1>1, RequestsStep, HistoriesKept DEF AsksInv
<1>2. ASSUME AsksInv, Requests!GitHub, RequestsInv', HistoryKinds' PROVE AsksInv' BY <1>2, AsksGitHub
<1>3. ASSUME AsksInv, NEW s \in Syncs, Requests!Sync(s), RequestsInv', HistoryKinds' PROVE AsksInv'
  BY <1>3, AsksSync
<1>4. ASSUME AsksInv, NEW m \in unread, Requests!Fulfil(m), RequestsInv', HistoryKinds' PROVE AsksInv'
  <2>1. LettersInOrder'
    <3>1. UNCHANGED <<second, asked, letters, asks>>
      BY <1>4 DEF Requests!Fulfil, Requests!hub, Requests!counts
    <3>. QED BY <1>4, <3>1 DEF AsksInv, LettersInOrder, Stamp, Drops, IsAsk, AskedSince
  <2>. QED BY <1>4, <2>1, FulfilKeeps DEF AsksInv
<1>5. ASSUME AsksInv, UNCHANGED Requests!requestsVars PROVE AsksInv'
  <2>1. UNCHANGED <<second, asked, letters, unread, row, mark, applied, doing, payload, asks, rung, unrung, excused>>
    BY <1>5 DEF Requests!requestsVars, Requests!hub, Requests!table, Requests!sync, Requests!counts
  <2>2. RequestsInv' /\ HistoryKinds' BY <1>5, <2>1, RequestsStep DEF AsksInv, HistoryKinds
  <2>3. LettersInOrder' /\ LoadsAre'
    BY <1>5, <2>1 DEF AsksInv, LettersInOrder, LoadsAre, Fetched, OfALetter, ListedAt, Stamp, Drops, IsAsk, AskedSince
  <2>4. RowIs' BY <1>5, <2>1 DEF AsksInv, RowIs, ListedAt, Stamp, Past
  <2>5. AskStands' /\ (AskIsHeard => AskIsHeard')
    BY <1>5, <2>1 DEF AsksInv, AskStands, AskIsHeard, LastAsk, IsAsk, Drops, WillBeHeard, Fetched, Stamp,
      Past, WillRing, ToBeOpened, Recorded, Ringing
  <2>6. NoTies => NoTies'
    <3>1. \A t \in Syncs : Fetched(t)' <=> Fetched(t) BY <2>1 DEF Fetched
    <3>. QED BY <2>1, <3>1, TiesKept
  <2>7. RowOfAnAsk /\ AskToCome => RowOfAnAsk' /\ AskToCome'
    BY <2>1 DEF RowOfAnAsk, AskToCome, Used, Ringing, ToTell, Fetched, Drops, Stamp
  <2>. QED BY <1>5, <2>1, <2>2, <2>3, <2>4, <2>5, <2>6, <2>7 DEF AsksInv
<1>. QED BY <1>1, <1>2, <1>3, <1>4, <1>5 DEF Requests!Next

LEMMA AsksArePinged ==
  ASSUME IsFiniteSet(Syncs), AsksInv PROVE PingedAsAsked
<1>. USE DEF AsksInv
<1>1. Requests!RungOncePerAsk
  <2>. SUFFICES ASSUME ~excused PROVE rung <= asks BY DEF Requests!RungOncePerAsk
  <2>1. Used <= asks /\ asks \in Nat
    <3>1. asks \in Nat /\ \A x \in Nat : AsksBy(letters, x) \in Nat /\ AsksBy(letters, x) <= asks BY AsksOrder
    <3>2. CASE row = NULL BY <3>1, <3>2 DEF AskToCome
    <3>3. CASE row # NULL
      <4>1. row.since \in Nat /\ Used <= AsksBy(letters, row.since)
        BY <3>3 DEF RowOfAnAsk, RequestsInv, TableKinds, Assignments
      <4>. QED BY <3>1, <4>1, UsedIs
    <3>. QED BY <3>1, <3>2, <3>3
  <2>2. Used = rung + Cardinality(Ringing) + ToTell /\ ToTell \in {0, 1} /\ Cardinality(Ringing) \in Nat /\ rung \in Nat
    BY UsedIs DEF Used
  <2>. QED BY <2>1, <2>2
<1>2. Requests!ToldOrOwed
  <2>. SUFFICES ASSUME unread = {}, \A s \in Syncs : doing[s] = "idle", ~excused, unrung
                PROVE  Requests!OwedAPing BY DEF Requests!ToldOrOwed
  <2>1. PICK n \in DOMAIN letters : LastAsk(n) BY DEF AskStands
  <2>2. WillBeHeard(n) /\ Recorded(n) /\ Ringing = {} BY <2>1 DEF AskIsHeard, Recorded, Ringing
  <2>3. Past(n) BY <2>1 DEF RowIs, LastAsk, IsAsk
  <2>. QED BY <2>2, <2>3 DEF WillBeHeard, ToBeOpened, WillRing, Requests!OwedAPing
<1>. QED BY <1>1, <1>2 DEF PingedAsAsked, Requests!PingedAsAsked

LEMMA AsksHold ==
  ASSUME IsFiniteSet(Syncs)
  PROVE  /\ DeliveriesInit => AsksInv
         /\ AsksInv /\ [DeliveriesNext]_allVars => AsksInv'
         /\ AsksInv => PingedAsAsked
<1>1. DeliveriesInit => AsksInv BY AsksInit DEF DeliveriesInit
<1>2. AsksInv /\ [DeliveriesNext]_allVars => AsksInv' BY StepIsAPartsStep, AsksStep
<1>. QED BY <1>1, <1>2, AsksArePinged

----
\* A party asked to review is pinged at most once for each time it was
\* asked, and once the deliveries are read and no sync is under way it was
\* pinged, or what the table holds makes the next sync ping it: whichever
\* deliveries, commands, reviews, failed posts, lost locks and deaths
\* cross, but for those whose effect the code accepts
\* (shannon/services/sync/notifications.py:64-228,
\* shannon/db/stores/assignments.py, shannon/services/reviews.py:32-83).
THEOREM AlwaysPingedAsAsked ==
  ASSUME IsFiniteSet(Syncs) PROVE DeliveriesSpec => []PingedAsAsked
<1>1. DeliveriesInit => AsksInv BY AsksHold
<1>2. AsksInv /\ [DeliveriesNext]_allVars => AsksInv' BY AsksHold
<1>3. AsksInv => PingedAsAsked BY AsksHold
<1>. QED BY <1>1, <1>2, <1>3, PTL DEF DeliveriesSpec

----
(* The batch of one worker against the clock, for any settings. *)

CONSTANTS Timeout, Grace, LeaseFor
VARIABLES now, began, left, opening

Clock == INSTANCE LeaseClock

\* Each settled delivery took no more than Timeout + Grace.
Pace ==
    /\ Clock!Accepted
    /\ now \in Nat /\ began \in Nat /\ left \in 0..BatchSize
    /\ began <= now /\ now <= began + Timeout + Grace
    /\ began <= (BatchSize - left) * (Timeout + Grace)

\* k deliveries and one more.
LEMMA OneMore ==
  ASSUME NEW k \in Nat, NEW u \in Nat PROVE (k + 1) * u = k * u + u OBVIOUS

LEMMA Longer ==
  ASSUME NEW j \in Nat, NEW k \in Nat, NEW u \in Nat, j <= k PROVE j * u <= k * u
<1>1. k - j \in Nat /\ k = j + (k - j) OBVIOUS
<1>2. (k - j) * u \in Nat BY <1>1
<1>3. k * u = j * u + (k - j) * u BY <1>1
<1> QED BY <1>2, <1>3

\* With room for the grace, a batch is over before its lease, for any settings.
THEOREM GraceCovered ==
  ASSUME Clock!RoomForGrace PROVE Clock!Spec => []Clock!BatchWithinLease
<1> DEFINE u == Timeout + Grace
<1> USE DEF Clock!Accepted
<1>1. Clock!Init => Pace
  <2>1. ASSUME Clock!Accepted PROVE (BatchSize - BatchSize) * u = 0 BY <2>1
  <2> QED BY <2>1 DEF Clock!Init, Pace
<1>2. Pace /\ [Clock!Next]_(Clock!vars) => Pace'
  <2> SUFFICES ASSUME Pace, [Clock!Next]_(Clock!vars) PROVE Pace' OBVIOUS
  <2>1. CASE Clock!Tick BY <2>1 DEF Pace, Clock!Tick, Clock!Allowed
  <2>2. CASE Clock!StartsOpening BY <2>2 DEF Pace, Clock!StartsOpening
  <2>3. CASE Clock!Settles
    <3>1. /\ BatchSize - left \in Nat /\ u \in Nat
          /\ BatchSize - left' = (BatchSize - left) + 1
      BY <2>3 DEF Pace, Clock!Settles
    <3>2. (BatchSize - left') * u = (BatchSize - left) * u + u BY <3>1, OneMore
    <3>3. now <= (BatchSize - left') * u
      <4>1. (BatchSize - left) * u \in Nat BY <3>1
      <4> QED BY <3>1, <3>2, <4>1 DEF Pace
    <3>4. /\ now' = now /\ began' = now /\ left' \in 0..BatchSize
          /\ now \in Nat BY <2>3 DEF Pace, Clock!Settles
    <3>5. began' <= (BatchSize - left') * u BY <3>3, <3>4
    <3>6. began' <= now' /\ now' <= began' + Timeout + Grace BY <3>4 DEF Pace
    <3> QED BY <3>4, <3>5, <3>6 DEF Pace
  <2>4. CASE UNCHANGED Clock!vars BY <2>4 DEF Pace, Clock!vars
  <2> QED BY <2>1, <2>2, <2>3, <2>4 DEF Clock!Next
<1>3. Pace => Clock!BatchWithinLease
  <2> SUFFICES ASSUME Pace, left > 0 PROVE now <= LeaseFor BY DEF Clock!BatchWithinLease
  <2> DEFINE k == BatchSize - left
  <2>1. k \in Nat /\ u \in Nat /\ k + 1 <= BatchSize /\ BatchSize \in Nat BY DEF Pace
  <2>2. now <= k * u + u
    <3>1. k * u \in Nat BY <2>1
    <3> QED BY <2>1, <3>1 DEF Pace
  <2>3. (k + 1) * u = k * u + u BY <2>1, OneMore
  <2>4. (k + 1) * u <= BatchSize * u
    <3> HIDE DEF k, u
    <3> QED BY <2>1, Longer
  <2>5. BatchSize * u <= LeaseFor BY DEF Clock!RoomForGrace
  <2>6. k * u \in Nat /\ BatchSize * u \in Nat /\ LeaseFor \in Nat /\ now \in Nat BY <2>1 DEF Pace
  <2> HIDE DEF k, u
  <2> QED BY <2>1, <2>2, <2>3, <2>4, <2>5, <2>6
<1> QED BY <1>1, <1>2, <1>3, PTL DEF Clock!Spec
=============================================================================
