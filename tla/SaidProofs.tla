----------------------------- MODULE SaidProofs -----------------------------
(***************************************************************************)
(* What the three parts of MCNotes guarantee together, for any number of   *)
(* workers, deliveries, commits, comments and faults: notes and the state  *)
(* (NotesProofs), the lines of labels, the draft switch and commits, and   *)
(* whom a reply rings.  Lines and Replies have an inductive invariant of   *)
(* their own here, and the steps of the others leave their variables       *)
(* alone.                                                                  *)
(***************************************************************************)
EXTENDS MCNotes, NotesProofs, SequenceTheorems, WellFoundedInduction

----
\* Lines: what a delivery has to say beside the block.

TellSteps == {"idle", "judging", "reading", "noting", "claiming", "posting", "handing_back"}
Speaking  == {"claiming", "posting", "handing_back"}

\* The deliveries of the kind looked at.
Whats ==
    {"edited"} \cup
    CASE about = "labels" -> {"labeled", "unlabeled"}
      [] about = "draft"  -> Telling!Halves
      [] OTHER            -> {"pushed", "rewritten"}

WorkKinds ==
    [step : TellSteps, of : Telling!Deliveries \cup {NULL}, thread : Nat, wants : BOOLEAN,
     key : Telling!LineKeys \cup {NULL}, todo : SUBSET Telling!Commits, kept : Nat, said : Nat]

TellKinds ==
    /\ about \in {"labels", "draft", "commits"}
    /\ latest \in 2..(MaxEvents + 2) /\ tagged \in BOOLEAN /\ branch \subseteq Telling!Commits
    /\ queued \subseteq Telling!Deliveries
    /\ item \in [version : Nat, thread : Nat, shown : BOOLEAN, wants : BOOLEAN]
    /\ newest \in Nat /\ upsets \in 0..MaxUpsets
    /\ spoken \subseteq Telling!LineKeys
    /\ DOMAIN told \subseteq Telling!LineKeys /\ \A k \in DOMAIN told : told[k] \in Nat
    /\ counted \in [Telling!Versions -> Int]
    /\ work \in [Workers -> WorkKinds]
    /\ due \in [Telling!Versions -> SUBSET Telling!LineKeys]
    /\ leaned \subseteq Telling!LineKeys /\ dropped \subseteq Telling!LineKeys
    /\ ever \in {"on", "off", "nothing"}
    /\ mixed \in BOOLEAN /\ muffled \in BOOLEAN /\ chosen \in BOOLEAN

\* A delivery that was sent.
Sane(d) ==
    /\ d.v \in 1..latest /\ d.what \in Whats
    /\ d.what = "unlabeled" => ~d.on
    /\ d.what = "labeled" => d.on

Occupied(t) == work[t].step # "idle"

\* What each kind of delivery has to say.
KeyIsFor(w) ==
    LET d == w.of IN
    \/ Telling!Moves(d) /\ w.key = <<"label", d.v>>
    \/ d.what \in Telling!Halves /\ w.key = <<d.what, d.v>>
    \/ d.what = "rewritten" /\ w.key = <<"force-push", d.v>>
    \/ d.what = "pushed" /\ w.key = <<"commits-left", d.v>>
    \/ d.what = "pushed" /\ \E c \in Telling!Own(d) \ w.todo : w.key = <<"commit", c>>

\* What a worker holds, by where it is.
Held(w) ==
    /\ w.key # NULL <=> w.step \in Speaking
    /\ w.of = NULL <=> w.step = "idle"
    /\ w.step = "idle" => w.todo = {} /\ w.said = 0
    /\ w.step # "idle" =>
          /\ w.thread # 0
          /\ w.todo \subseteq Telling!Own(w.of)
          /\ w.step = "judging" => w.todo = {} /\ w.said = 0
          /\ w.step \in Speaking => KeyIsFor(w)
          /\ w.step = "reading" => w.of.what = "pushed"
          /\ w.step = "noting" => Telling!Moves(w.of)

WorkPlaces ==
    \A t \in Workers :
        /\ Held(work[t])
        /\ Occupied(t) => Sane(work[t].of) /\ work[t].of.v <= item.version

\* Every delivery has its own updated_at, and is in one place.
OneOfEach ==
    /\ \A d, e \in queued : d.v = e.v => d = e
    /\ \A t \in Workers, d \in queued : Occupied(t) => work[t].of.v # d.v
    /\ \A t, u \in Workers : Occupied(t) /\ Occupied(u) /\ work[t].of.v = work[u].of.v => t = u

\* A thread is opened only where there is none.
ThreadsMade ==
    /\ newest <= upsets + (IF item.thread = 0 THEN 0 ELSE 1)
    /\ item.thread \in 0..newest
    /\ item.thread = 0 => ~item.shown

TellShapes ==
    /\ TellKinds /\ WorkPlaces /\ OneOfEach /\ ThreadsMade
    /\ \A d \in queued : Sane(d)
    /\ item.version \in 0..latest

LEMMA TellSorts ==
  /\ LastCommit \in Nat /\ MaxEvents \in Nat /\ MaxUpsets \in Nat /\ MaxSlips \in Nat
  /\ PerPush \in Nat \ {0}
  /\ NULL \notin Nat /\ NULL \notin Telling!Deliveries /\ NULL \notin Telling!LineKeys
  /\ Telling!Commits \subseteq Nat /\ Telling!Versions = 1..(MaxEvents + 2)
<1>1. Telling!LinesAssumption BY TellingAssumption
<1>2. LastCommit \in Nat /\ MaxEvents \in Nat /\ MaxUpsets \in Nat /\ MaxSlips \in Nat /\ PerPush \in Nat \ {0}
  BY <1>1 DEF Telling!LinesAssumption
<1>3. NULL \notin Nat /\ NULL \notin Telling!Deliveries /\ NULL \notin Telling!LineKeys
  BY <1>1 DEF Telling!LinesAssumption
<1>4. Telling!Commits \subseteq Nat /\ Telling!Versions = 1..(MaxEvents + 2)
  BY <1>2 DEF Telling!Commits, Telling!Versions
<1>. QED BY <1>2, <1>3, <1>4

\* The instances count as everybody does.
LEMMA CountsAlike ==
  \A S : Telling!Cardinality(S) = Cardinality(S) /\ Replying!Cardinality(S) = Cardinality(S)
BY DEF Telling!Cardinality, Replying!Cardinality, Cardinality

LEMMA VersionsCounted == Telling!Cardinality(Telling!Versions) = MaxEvents + 2
<1>1. 1 \in Int /\ MaxEvents + 2 \in Int /\ 1 <= MaxEvents + 2 /\ (MaxEvents + 2) - 1 + 1 = MaxEvents + 2
  BY TellSorts
<1>. QED BY <1>1, TellSorts, FS_Interval, CountsAlike


LEMMA CommitsFinite == IsFiniteSet(Telling!Commits)
<1>1. 1 \in Int /\ LastCommit \in Int BY TellSorts
<1>. QED BY <1>1, FS_Interval DEF Telling!Commits

----
\* Kinds.

\* What a step does to one worker.
LEMMA TellInit == Telling!Init /\ (part # "lines" => about = "labels") => TellShapes
<1>. SUFFICES ASSUME Telling!Init PROVE TellShapes OBVIOUS
<1>. USE TellSorts DEF Telling!Init, Telling!hub
<1>1. Telling!AtRest \in WorkKinds /\ Held(Telling!AtRest)
  BY DEF Telling!AtRest, WorkKinds, TellSteps, Held, Speaking
<1>2. queued \subseteq Telling!Deliveries /\ \A d \in queued : Sane(d)
  <2>1. 1 \in Telling!Versions /\ 2 \in Telling!Versions OBVIOUS
  <2>2. PICK w \in {1, 2} : queued \subseteq {Telling!Delivery(w, "edited", tagged, {}), Telling!Delivery(2, "labeled", TRUE, {})}
                            /\ (~tagged => queued \subseteq {Telling!Delivery(w, "edited", tagged, {})})
    OBVIOUS
  <2>3. Telling!Delivery(w, "edited", tagged, {}) \in Telling!Deliveries /\ Telling!Delivery(2, "labeled", TRUE, {}) \in Telling!Deliveries
    BY <2>1 DEF Telling!Delivery, Telling!Deliveries
  <2>4. Sane(Telling!Delivery(w, "edited", tagged, {})) /\ (tagged => Sane(Telling!Delivery(2, "labeled", TRUE, {})))
    <3>1. tagged <=> about = "labels" OBVIOUS
    <3>2. "edited" \in Whats /\ (about = "labels" => "labeled" \in Whats) BY DEF Whats
    <3> QED BY <3>1, <3>2 DEF Telling!Delivery, Sane
  <2> QED BY <2>2, <2>3, <2>4
<1>3. TellKinds
  <2>1. DOMAIN told = {} OBVIOUS
  <2>2. latest \in 2..(MaxEvents + 2) /\ branch \subseteq Telling!Commits /\ newest \in Nat /\ upsets \in 0..MaxUpsets
    OBVIOUS
  <2>3. item \in [version : Nat, thread : Nat, shown : BOOLEAN, wants : BOOLEAN] OBVIOUS
  <2>4. counted \in [Telling!Versions -> Int] /\ work \in [Workers -> WorkKinds]
        /\ due \in [Telling!Versions -> SUBSET Telling!LineKeys] BY <1>1
  <2> QED BY <1>2, <2>1, <2>2, <2>3, <2>4 DEF TellKinds
<1>4. WorkPlaces BY <1>1 DEF WorkPlaces, Occupied, Telling!AtRest
<1>5. OneOfEach
  <2>1. \A t \in Workers : ~Occupied(t) BY DEF Occupied, Telling!AtRest
  <2>2. \A d, e \in queued : d.v = e.v => d = e
    <3>1. CASE tagged
      <4>1. queued = {Telling!Delivery(1, "edited", tagged, {}), Telling!Delivery(2, "labeled", TRUE, {})}
        BY <3>1
      <4>2. Telling!Delivery(1, "edited", tagged, {}).v = 1 /\ Telling!Delivery(2, "labeled", TRUE, {}).v = 2
        BY DEF Telling!Delivery
      <4>3. ASSUME NEW d, NEW e, NEW a, NEW b, d \in {a, b}, e \in {a, b}, a.v = 1, b.v = 2, d.v = e.v PROVE d = e
        BY <4>3
      <4>4. ASSUME NEW d \in queued, NEW e \in queued, d.v = e.v PROVE d = e
        <5> DEFINE a == Telling!Delivery(1, "edited", tagged, {})
                   b == Telling!Delivery(2, "labeled", TRUE, {})
        <5>1. a.v = 1 /\ b.v = 2 /\ d \in {a, b} /\ e \in {a, b} BY <4>1, <4>2
        <5> HIDE DEF a, b
        <5> QED BY <5>1, <4>3, <4>4
      <4> QED BY <4>4
    <3>2. CASE ~tagged BY <3>2
    <3> QED BY <3>1, <3>2
  <2> QED BY <2>1, <2>2 DEF OneOfEach
<1>6. ThreadsMade /\ item.version \in 0..latest BY DEF ThreadsMade
<1>. QED BY <1>2, <1>3, <1>4, <1>5, <1>6 DEF TellShapes

ItemKinds == [version : Nat, thread : Nat, shown : BOOLEAN, wants : BOOLEAN]

Newer(v, w) == IF v > w THEN v ELSE w

LEMMA DeliveryMade ==
  ASSUME NEW d \in Telling!Deliveries
  PROVE  /\ d.v \in Telling!Versions /\ d.v \in Nat \ {0} /\ d.v <= MaxEvents + 2
         /\ d.on \in BOOLEAN /\ d.fresh \subseteq Telling!Commits
         /\ Telling!Own(d) \subseteq Telling!Commits
BY TellSorts DEF Telling!Deliveries, Telling!Own

LEMMA OpensMakes ==
  ASSUME item \in ItemKinds, newest \in Nat, NEW d \in Telling!Deliveries, NEW noted \in BOOLEAN
  PROVE  /\ Telling!Opens(d, noted) \in ItemKinds
         /\ Telling!Opens(d, noted).version = Newer(d.v, item.version)
         /\ Telling!Opens(d, noted).thread = newest + 1
         /\ Telling!Opens(d, noted).shown = (d.on /\ noted)
         /\ Telling!Opens(d, noted).wants = item.wants
<1>1. item.version \in Nat /\ d.v \in Nat /\ d.on \in BOOLEAN /\ newest + 1 \in Nat
  BY DeliveryMade DEF ItemKinds
<1> DEFINE n == IF d.v > item.version THEN d.v ELSE item.version
           i == [item EXCEPT !.version = n, !.thread = newest + 1, !.shown = d.on /\ noted]
<1>2. n \in Nat /\ (d.on /\ noted) \in BOOLEAN BY <1>1
<1>3. Telling!Opens(d, noted) = i BY DEF Telling!Opens
<1>4. i \in ItemKinds BY <1>1, <1>2 DEF ItemKinds
<1>5. i.version = n /\ i.thread = newest + 1 /\ i.shown = (d.on /\ noted) /\ i.wants = item.wants
  BY <1>1, <1>2 DEF ItemKinds
<1>. QED BY <1>3, <1>4, <1>5 DEF Newer

LEMMA UpdatesMakes ==
  ASSUME item \in ItemKinds, NEW d \in Telling!Deliveries
  PROVE  /\ Telling!Updates(d) \in ItemKinds
         /\ Telling!Updates(d).version = Newer(d.v, item.version)
         /\ Telling!Updates(d).thread = item.thread
         /\ Telling!Updates(d).shown = item.shown
         /\ Telling!Updates(d).wants = item.wants
BY DeliveryMade DEF Telling!Updates, ItemKinds, Newer

LEMMA ShownMakes ==
  ASSUME item \in ItemKinds, NEW t \in Workers, work[t].of \in Telling!Deliveries
  PROVE  /\ Telling!Shown(t) \in ItemKinds
         /\ Telling!Shown(t).version = item.version
         /\ Telling!Shown(t).thread = item.thread
         /\ Telling!Shown(t).shown = IF item.thread = work[t].thread THEN work[t].of.on ELSE item.shown
         /\ Telling!Shown(t).wants = item.wants
BY DeliveryMade DEF Telling!Shown, ItemKinds

\* What the steps of a worker make of its record.
LEMMA SaysMakes ==
  ASSUME NEW t \in Workers, work[t] \in WorkKinds, NEW k \in Telling!LineKeys
  PROVE  LET w == [work[t] EXCEPT !.step = "claiming", !.key = k] IN
         /\ Telling!Says(t, k) = [work EXCEPT ![t] = w] /\ w \in WorkKinds
         /\ w.step = "claiming" /\ w.key = k /\ w.of = work[t].of /\ w.thread = work[t].thread
         /\ w.wants = work[t].wants /\ w.todo = work[t].todo /\ w.kept = work[t].kept /\ w.said = work[t].said
BY DEF Telling!Says, WorkKinds, TellSteps

LEMMA RestsMakes ==
  ASSUME NEW t \in Workers
  PROVE  /\ Telling!Rests(t) = [work EXCEPT ![t] = Telling!AtRest] /\ Telling!AtRest \in WorkKinds
         /\ Telling!AtRest.step = "idle" /\ Telling!AtRest.key = NULL /\ Telling!AtRest.of = NULL
         /\ Telling!AtRest.todo = {} /\ Telling!AtRest.said = 0
BY DEF Telling!Rests, Telling!AtRest, WorkKinds, TellSteps

LEMMA AtWork ==
  ASSUME TellShapes, NEW t \in Workers
  PROVE  /\ work \in [Workers -> WorkKinds] /\ work[t] \in WorkKinds /\ Held(work[t])
         /\ Occupied(t) => /\ work[t].of \in Telling!Deliveries /\ Sane(work[t].of)
                       /\ work[t].of.v <= item.version
         /\ work[t].step \in Speaking => work[t].key \in Telling!LineKeys /\ KeyIsFor(work[t])
         /\ item \in ItemKinds /\ newest \in Nat
<1>1. /\ work \in [Workers -> WorkKinds] /\ work[t] \in WorkKinds /\ Held(work[t])
      /\ item \in ItemKinds /\ newest \in Nat
      /\ Occupied(t) => Sane(work[t].of) /\ work[t].of.v <= item.version
  BY DEF TellShapes, TellKinds, WorkPlaces, ItemKinds
<1>2. work[t].of \in Telling!Deliveries \cup {NULL} /\ work[t].key \in Telling!LineKeys \cup {NULL}
  BY <1>1 DEF WorkKinds
<1>3. work[t].step \in Speaking => work[t].step # "idle" BY DEF Speaking
<1>. QED BY <1>1, <1>2, <1>3 DEF Held, Occupied

----
\* What each step of a worker does, in terms of its record.

OnlyMoves(t) ==
    /\ work' \in [Workers -> WorkKinds]
    /\ \A u \in Workers \ {t} : work'[u] = work[u]
Keeps(t) ==
    /\ work'[t].of = work[t].of /\ work'[t].thread = work[t].thread
    /\ work'[t].wants = work[t].wants /\ work'[t].kept = work[t].kept

Rested(t) ==
    /\ OnlyMoves(t)
    /\ work'[t].step = "idle" /\ work'[t].key = NULL /\ work'[t].of = NULL
    /\ work'[t].todo = {} /\ work'[t].said = 0
Goes(t, step, key, todo, said) ==
    /\ OnlyMoves(t) /\ Keeps(t)
    /\ work'[t].step = step /\ work'[t].key = key /\ work'[t].todo = todo /\ work'[t].said = said
Speaks(t, k) == Goes(t, "claiming", k, work[t].todo, work[t].said)
Followed(t) ==
    \/ work[t].key[1] = "label" /\ Goes(t, "noting", NULL, work[t].todo, work[t].said)
    \/ work[t].key[1] = "commit" /\ Goes(t, "reading", NULL, work[t].todo, work[t].said + 1)
    \/ work[t].key[1] \notin {"label", "commit"} /\ Rested(t)

LEMMA MovesOne ==
  ASSUME work \in [Workers -> WorkKinds], NEW t \in Workers, NEW w \in WorkKinds, work' = [work EXCEPT ![t] = w]
  PROVE  OnlyMoves(t) /\ work'[t] = w BY DEF OnlyMoves

LEMMA RestsDoes ==
  ASSUME TellShapes, NEW t \in Workers, work' = Telling!Rests(t)
  PROVE  Rested(t) BY AtWork, RestsMakes, MovesOne DEF Rested

LEMMA SaysDoes ==
  ASSUME TellShapes, NEW t \in Workers, NEW k \in Telling!LineKeys, work' = Telling!Says(t, k)
  PROVE  Speaks(t, k)
<1> DEFINE w == [work[t] EXCEPT !.step = "claiming", !.key = k]
<1>0. work[t] \in WorkKinds BY AtWork
<1>1. /\ work' = [work EXCEPT ![t] = w] /\ w \in WorkKinds
      /\ w.step = "claiming" /\ w.key = k /\ w.of = work[t].of /\ w.thread = work[t].thread
      /\ w.wants = work[t].wants /\ w.todo = work[t].todo /\ w.kept = work[t].kept /\ w.said = work[t].said
  BY <1>0, SaysMakes
<1> HIDE DEF w
<1>2. OnlyMoves(t) /\ work'[t] = w BY <1>1, AtWork, MovesOne
<1>. QED BY <1>1, <1>2 DEF Speaks, Goes, Keeps

LEMMA GoesToDoes ==
  ASSUME TellShapes, NEW t \in Workers, NEW s \in TellSteps, work' = [work EXCEPT ![t].step = s]
  PROVE  Goes(t, s, work[t].key, work[t].todo, work[t].said)
<1> DEFINE w == [work[t] EXCEPT !.step = s]
<1>0. work[t] \in WorkKinds BY AtWork
<1>1. w \in WorkKinds /\ w.step = s /\ w.of = work[t].of /\ w.thread = work[t].thread /\ w.wants = work[t].wants
      /\ w.key = work[t].key /\ w.todo = work[t].todo /\ w.kept = work[t].kept /\ w.said = work[t].said
  BY <1>0 DEF WorkKinds
<1>2. work' = [work EXCEPT ![t] = w] OBVIOUS
<1>3. OnlyMoves(t) /\ work'[t] = w BY <1>1, <1>2, AtWork, MovesOne
<1>. QED BY <1>1, <1>3 DEF Goes, Keeps

LEMMA FollowsDoes ==
  ASSUME TellShapes, NEW t \in Workers, work' = Telling!Follows(t) PROVE Followed(t)
<1>0. work[t] \in WorkKinds /\ NULL \in {NULL} BY AtWork
<1>1. CASE work[t].key[1] = "label"
  <2> DEFINE w == [work[t] EXCEPT !.step = "noting", !.key = NULL]
  <2>1. w \in WorkKinds /\ w.step = "noting" /\ w.of = work[t].of /\ w.thread = work[t].thread /\ w.wants = work[t].wants
        /\ w.key = NULL /\ w.todo = work[t].todo /\ w.kept = work[t].kept /\ w.said = work[t].said
    BY <1>0 DEF WorkKinds, TellSteps
  <2>2. work' = [work EXCEPT ![t] = w] BY <1>1 DEF Telling!Follows
  <2>3. OnlyMoves(t) /\ work'[t] = w BY <2>1, <2>2, AtWork, MovesOne
  <2> QED BY <1>1, <2>1, <2>3 DEF Goes, Keeps, Followed
<1>2. CASE work[t].key[1] = "commit"
  <2> DEFINE n == work[t].said + 1
             w == [work[t] EXCEPT !.step = "reading", !.said = n, !.key = NULL]
  <2>0. n \in Nat /\ w = [work[t] EXCEPT !.step = "reading", !.said = @ + 1, !.key = NULL]
    BY <1>0 DEF WorkKinds
  <2>1. w \in WorkKinds /\ w.step = "reading" /\ w.of = work[t].of /\ w.thread = work[t].thread /\ w.wants = work[t].wants
        /\ w.key = NULL /\ w.todo = work[t].todo /\ w.kept = work[t].kept /\ w.said = n
    BY <1>0, <2>0 DEF WorkKinds, TellSteps
  <2>2. work' = [work EXCEPT ![t] = w] BY <1>2 DEF Telling!Follows
  <2>3. OnlyMoves(t) /\ work'[t] = w BY <2>1, <2>2, AtWork, MovesOne
  <2> QED BY <1>2, <2>1, <2>3 DEF Goes, Keeps, Followed
<1>3. CASE work[t].key[1] \notin {"label", "commit"}
  <2>1. work' = Telling!Rests(t) BY <1>3 DEF Telling!Follows
  <2> QED BY <1>3, <2>1, RestsDoes DEF Followed
<1>. QED BY <1>1, <1>2, <1>3

SameWords == UNCHANGED <<spoken, told, counted, leaned, dropped>>
SameOutside == UNCHANGED <<about, latest, tagged, branch, chosen, upsets>>

\* GitHub sends a delivery with the next updated_at.
Sends(d) ==
    /\ latest < MaxEvents + 2 /\ latest' = latest + 1 /\ queued' = queued \cup {d}
    /\ d \in Telling!Deliveries /\ d.v = latest + 1 /\ Sane(d)'
    /\ due' = IF d.what \in Telling!Halves THEN [due EXCEPT ![latest + 1] = {<<d.what, latest + 1>>}] ELSE due
    /\ tagged' \in BOOLEAN /\ branch' \subseteq Telling!Commits
    /\ SameWords
    /\ UNCHANGED <<about, item, newest, work, chosen, upsets, slips, ever, mixed, muffled, backward, overtaken>>

LEMMA SendsOne ==
  ASSUME TellShapes, NEW what, NEW on \in BOOLEAN, NEW fresh \in SUBSET Telling!Commits, Telling!Happens(what, on, fresh),
         what \in Whats, what = "unlabeled" => ~on, what = "labeled" => on,
         tagged' \in BOOLEAN, branch' \subseteq Telling!Commits
  PROVE  \E d : Sends(d)
<1>0. PICK d : d = Telling!Delivery(latest + 1, what, on, fresh) OBVIOUS
<1>1. latest \in 2..(MaxEvents + 2) /\ about \in {"labels", "draft", "commits"} BY DEF TellShapes, TellKinds
<1>2. latest < MaxEvents + 2 /\ latest' = latest + 1 /\ queued' = queued \cup {d} /\ about' = about
  BY <1>0, VersionsCounted DEF Telling!Happens
<1>3. d.v = latest + 1 /\ d.what = what /\ d.on = on /\ d.fresh = fresh BY <1>0 DEF Telling!Delivery
<1>4. latest + 1 \in Telling!Versions BY <1>1, <1>2, TellSorts
<1>5. what \in {"edited", "labeled", "unlabeled", "pushed", "rewritten"} \cup Telling!Halves BY DEF Whats
<1>6. d \in Telling!Deliveries BY <1>0, <1>4, <1>5 DEF Telling!Delivery, Telling!Deliveries
<1>7. Sane(d)'
  <2>1. Whats' = Whats BY <1>2 DEF Whats
  <2>2. latest + 1 \in 1..latest' BY <1>1, <1>2
  <2> QED BY <1>3, <2>1, <2>2 DEF Sane
<1>8. due' = IF d.what \in Telling!Halves THEN [due EXCEPT ![latest + 1] = {<<d.what, latest + 1>>}] ELSE due
  BY <1>3 DEF Telling!Happens
<1>9. SameWords /\ UNCHANGED <<about, item, newest, work, chosen, upsets, slips, ever, mixed, muffled, backward, overtaken>>
  BY DEF Telling!Happens, Telling!choice, SameWords
<1>. QED BY <1>2, <1>3, <1>6, <1>7, <1>8, <1>9 DEF Sends

LEMMA GitHubSends ==
  ASSUME TellShapes,
         Telling!MoveLabel \/ Telling!Switch \/ Telling!Edit \/ \E after \in SUBSET Telling!Commits : Telling!Push(after)
  PROVE  \E d : Sends(d)
<1>0. tagged \in BOOLEAN /\ branch \subseteq Telling!Commits BY DEF TellShapes, TellKinds
<1>1. CASE Telling!MoveLabel
  <2>1. tagged' \in BOOLEAN /\ branch' \subseteq Telling!Commits /\ about = "labels" /\ {} \in SUBSET Telling!Commits
    BY <1>0, <1>1 DEF Telling!MoveLabel
  <2>2. Whats = {"edited", "labeled", "unlabeled"} BY <2>1 DEF Whats
  <2>3. CASE tagged
    <3>1. Telling!Happens("unlabeled", FALSE, {}) BY <1>1, <2>3 DEF Telling!MoveLabel
    <3> QED BY <2>1, <2>2, <3>1, SendsOne
  <2>4. CASE ~tagged
    <3>1. Telling!Happens("labeled", TRUE, {}) BY <1>1, <2>4 DEF Telling!MoveLabel
    <3> QED BY <2>1, <2>2, <3>1, SendsOne
  <2> QED BY <2>3, <2>4
<1>2. CASE Telling!Switch
  <2>1. tagged' \in BOOLEAN /\ branch' \subseteq Telling!Commits /\ about = "draft" /\ {} \in SUBSET Telling!Commits
    BY <1>0, <1>2 DEF Telling!Switch
  <2>2. Whats = {"edited"} \cup Telling!Halves BY <2>1 DEF Whats
  <2>3. PICK what \in Telling!Halves : Telling!Happens(what, ~tagged, {})
    BY <1>2 DEF Telling!Switch, Telling!Halves
  <2>4. what \in Whats /\ what # "unlabeled" /\ what # "labeled" /\ (~tagged) \in BOOLEAN
    BY <2>2, <1>0 DEF Telling!Halves
  <2> QED BY <2>1, <2>3, <2>4, SendsOne
<1>3. CASE Telling!Edit
  <2>1. tagged' \in BOOLEAN /\ branch' \subseteq Telling!Commits /\ {} \in SUBSET Telling!Commits
        /\ Telling!Happens("edited", tagged, {}) BY <1>0, <1>3 DEF Telling!Edit
  <2>2. "edited" \in Whats BY DEF Whats
  <2> QED BY <1>0, <2>1, <2>2, SendsOne
<1>4. ASSUME NEW after \in SUBSET Telling!Commits, Telling!Push(after) PROVE \E d : Sends(d)
  <2>1. tagged' \in BOOLEAN /\ branch' \subseteq Telling!Commits /\ after \ branch \in SUBSET Telling!Commits /\ about = "commits"
    BY <1>0, <1>4 DEF Telling!Push
  <2>2. PICK what \in {"pushed", "rewritten"} : Telling!Happens(what, tagged, after \ branch)
    BY <1>4 DEF Telling!Push
  <2>3. what \in Whats /\ what # "unlabeled" /\ what # "labeled" BY <2>1 DEF Whats
  <2> QED BY <1>0, <2>1, <2>2, <2>3, SendsOne
<1>. QED BY <1>1, <1>2, <1>3, <1>4

LEMMA ChooseDoes ==
  ASSUME TellShapes, Telling!Choose
  PROVE  /\ item' \in ItemKinds /\ item'.version = item.version /\ item'.thread = item.thread /\ item'.shown = item.shown
         /\ chosen' = TRUE /\ upsets' = upsets + 1 /\ upsets < MaxUpsets /\ SameWords
         /\ UNCHANGED <<about, latest, tagged, branch, queued, newest, work, slips, ever, mixed, muffled, backward, overtaken, due>>
<1>1. item \in ItemKinds BY DEF TellShapes, TellKinds, ItemKinds
<1>2. item' = [item EXCEPT !.wants = ~item.wants] /\ (~item.wants) \in BOOLEAN
  BY <1>1 DEF Telling!Choose, ItemKinds
<1>3. item' \in ItemKinds /\ item'.version = item.version /\ item'.thread = item.thread /\ item'.shown = item.shown
  BY <1>1, <1>2 DEF ItemKinds
<1>. QED BY <1>3 DEF Telling!Choose, Telling!Upset, Telling!hub, Telling!past, SameWords

LEMMA LoseDoes ==
  ASSUME TellShapes, Telling!Lose
  PROVE  /\ item.thread # 0
         /\ item' \in ItemKinds /\ item'.version = item.version /\ item'.thread = 0 /\ item'.shown = FALSE
         /\ item'.wants = item.wants /\ ever' = "nothing" /\ upsets' = upsets + 1 /\ upsets < MaxUpsets /\ SameWords
         /\ UNCHANGED <<about, latest, tagged, branch, queued, newest, work, chosen, slips, mixed, muffled, backward, overtaken, due>>
<1>1. item \in ItemKinds BY DEF TellShapes, TellKinds, ItemKinds
<1>2. item' = [item EXCEPT !.thread = 0, !.shown = FALSE] BY DEF Telling!Lose
<1>3. item' \in ItemKinds /\ item'.version = item.version /\ item'.thread = 0 /\ item'.shown = FALSE /\ item'.wants = item.wants
  BY <1>1, <1>2 DEF ItemKinds
<1>. QED BY <1>3 DEF Telling!Lose, Telling!Upset, Telling!hub, SameWords

LEMMA DiesOpeningDoes ==
  ASSUME TellShapes, Telling!DiesOpening
  PROVE  \E d \in queued :
         /\ item.thread = 0
         /\ item' \in ItemKinds /\ item'.version = Newer(d.v, item.version) /\ item'.thread = newest + 1
         /\ item'.shown = FALSE /\ item'.wants = item.wants /\ newest' = newest + 1
         /\ ever' = IF d.on THEN "on" ELSE "nothing"
         /\ mixed' = (mixed \/ (about = "labels" /\ Telling!OutOfTurn(d)))
         /\ SameWords /\ SameOutside
         /\ UNCHANGED <<queued, work, muffled, backward, overtaken, due>>
<1>1. item \in ItemKinds /\ newest \in Nat /\ queued \subseteq Telling!Deliveries
  BY DEF TellShapes, TellKinds, ItemKinds
<1>2. PICK d \in queued : /\ item' = Telling!Opens(d, FALSE) /\ ever' = IF d.on THEN "on" ELSE "nothing"
                          /\ mixed' = (mixed \/ (about = "labels" /\ Telling!OutOfTurn(d)))
  BY DEF Telling!DiesOpening
<1>3. /\ item' \in ItemKinds /\ item'.version = Newer(d.v, item.version) /\ item'.thread = newest + 1
      /\ item'.shown = (d.on /\ FALSE) /\ item'.wants = item.wants
  BY <1>1, <1>2, OpensMakes
<1>4. (d.on /\ FALSE) = FALSE OBVIOUS
<1>. QED BY <1>2, <1>3, <1>4 DEF Telling!DiesOpening, Telling!hub, Telling!choice, SameWords, SameOutside

LEMMA KeysMade ==
  /\ \A n \in Nat : \A s \in {"label", "commit", "commits-left", "force-push", "ready", "draft"} :
        /\ <<s, n>> \in Telling!LineKeys /\ <<s, n>>[1] = s /\ <<s, n>>[2] = n
  /\ \A k \in Telling!LineKeys : k = <<k[1], k[2]>> /\ k[2] \in Nat
BY DEF Telling!LineKeys, Telling!Halves

LEMMA KeysAreKeys ==
  \A n \in Nat : \A s \in {"label", "commit", "commits-left", "force-push", "ready", "draft"} : <<s, n>> # NULL
<1>1. \A k \in Telling!LineKeys : k # NULL BY TellSorts
<1>2. ASSUME NEW n \in Nat, NEW s \in {"label", "commit", "commits-left", "force-push", "ready", "draft"}
      PROVE  <<s, n>> # NULL
  <2>1. <<s, n>> \in Telling!LineKeys BY KeysMade
  <2> QED BY <1>1, <2>1
<1>. QED BY <1>2

LEMMA LineSyncDoes ==
  ASSUME TellShapes, NEW t \in Workers, Telling!Sync(t)
  PROVE  \E d \in queued :
         /\ work[t].step = "idle" /\ queued' = queued \ {d}
         /\ OnlyMoves(t)
         /\ work'[t].step = "judging" /\ work'[t].key = NULL /\ work'[t].todo = {} /\ work'[t].said = 0
         /\ work'[t].of = d /\ work'[t].thread = item'.thread /\ work'[t].wants = item.wants
         /\ item' \in ItemKinds /\ item'.version = Newer(d.v, item.version) /\ item'.wants = item.wants
         /\ \/ /\ item.thread = 0 /\ item'.thread = newest + 1 /\ newest' = newest + 1
               /\ item'.shown = d.on /\ ever' = IF d.on THEN "on" ELSE "nothing"
            \/ /\ item.thread # 0 /\ item'.thread = item.thread /\ newest' = newest
               /\ item'.shown = item.shown /\ ever' = ever
         /\ mixed' = (mixed \/ (about = "labels" /\ Telling!OutOfTurn(d)))
         /\ overtaken' = overtaken \cup Telling!OvertakenBy(d)
         /\ SameWords /\ SameOutside /\ UNCHANGED <<muffled, backward, due>>
<1>1. /\ item \in ItemKinds /\ newest \in Nat /\ queued \subseteq Telling!Deliveries
      /\ work \in [Workers -> WorkKinds] /\ work[t] \in WorkKinds /\ Held(work[t])
  BY AtWork DEF TellShapes, TellKinds
<1>2. PICK d \in queued :
          /\ queued' = queued \ {d}
          /\ IF item.thread = 0
             THEN item' = Telling!Opens(d, TRUE) /\ newest' = newest + 1 /\ ever' = IF d.on THEN "on" ELSE "nothing"
             ELSE item' = Telling!Updates(d) /\ UNCHANGED <<newest, ever>>
          /\ work' = [work EXCEPT ![t].step = "judging", ![t].of = d,
                                  ![t].thread = item'.thread, ![t].wants = item.wants]
          /\ mixed' = (mixed \/ (about = "labels" /\ Telling!OutOfTurn(d)))
          /\ overtaken' = overtaken \cup Telling!OvertakenBy(d)
  BY DEF Telling!Sync
<1>3. /\ item' \in ItemKinds /\ item'.version = Newer(d.v, item.version) /\ item'.wants = item.wants
      /\ \/ /\ item.thread = 0 /\ item'.thread = newest + 1 /\ newest' = newest + 1
            /\ item'.shown = d.on /\ ever' = IF d.on THEN "on" ELSE "nothing"
         \/ /\ item.thread # 0 /\ item'.thread = item.thread /\ newest' = newest
            /\ item'.shown = item.shown /\ ever' = ever
  <2>1. CASE item.thread = 0
    <3>1. d.on \in BOOLEAN /\ TRUE \in BOOLEAN /\ (d.on /\ TRUE) = d.on BY <1>1, DeliveryMade
    <3>2. /\ Telling!Opens(d, TRUE) \in ItemKinds /\ Telling!Opens(d, TRUE).version = Newer(d.v, item.version)
          /\ Telling!Opens(d, TRUE).thread = newest + 1 /\ Telling!Opens(d, TRUE).shown = (d.on /\ TRUE)
          /\ Telling!Opens(d, TRUE).wants = item.wants BY <1>1, <3>1, OpensMakes
    <3> QED BY <1>2, <2>1, <3>1, <3>2
  <2>2. CASE item.thread # 0 BY <1>1, <1>2, <2>2, UpdatesMakes
  <2> QED BY <2>1, <2>2
<1>4. item'.thread \in Nat /\ item.wants \in BOOLEAN /\ d \in Telling!Deliveries BY <1>1, <1>3 DEF ItemKinds
<1>5. PICK w : w = [work[t] EXCEPT !.step = "judging", !.of = d, !.thread = item'.thread, !.wants = item.wants]
  OBVIOUS
<1>6. /\ w \in WorkKinds /\ w.step = "judging" /\ w.of = d /\ w.thread = item'.thread /\ w.wants = item.wants
      /\ w.key = work[t].key /\ w.todo = work[t].todo /\ w.said = work[t].said
  BY <1>1, <1>4, <1>5 DEF WorkKinds, TellSteps
<1>7. work' = [work EXCEPT ![t] = w] BY <1>2, <1>5
<1>8. OnlyMoves(t) /\ work'[t] = w BY <1>1, <1>6, <1>7, MovesOne
<1>9. work[t].step = "idle" BY DEF Telling!Sync
<1>10. work[t].key = NULL /\ work[t].todo = {} /\ work[t].said = 0 BY <1>1, <1>9 DEF Held, Speaking
<1>11. SameWords /\ SameOutside /\ UNCHANGED <<muffled, backward, due>>
  BY DEF Telling!Sync, Telling!hub, Telling!choice, SameWords, SameOutside
<1>. QED BY <1>2, <1>3, <1>6, <1>8, <1>9, <1>10, <1>11

Untouched == SameWords /\ SameOutside /\ UNCHANGED <<queued, item, newest, slips, mixed>>

LEMMA JudgeLabelDoes ==
  ASSUME TellShapes, NEW t \in Workers, Telling!JudgeLabel(t)
  PROVE  /\ work[t].step = "judging" /\ Telling!Moves(work[t].of)
         /\ \/ Rested(t) /\ work[t].of.what = "labeled"
            \/ ~work[t].wants /\ work[t].of.what = "unlabeled" /\ Goes(t, "noting", work[t].key, work[t].todo, work[t].said)
            \/ work[t].wants /\ Speaks(t, <<"label", work[t].of.v>>)
         /\ muffled' = (muffled \/ (work[t].wants /\ Telling!AlreadyShown(t) /\ ever = "off" /\ ~mixed))
         /\ ever' = IF ~work[t].wants /\ ~work[t].of.on THEN "off" ELSE ever
         /\ Untouched /\ UNCHANGED <<backward, overtaken, due>>
<1>1. work[t].step = "judging" /\ Telling!Moves(work[t].of) BY DEF Telling!JudgeLabel
<1>2. work[t].of \in Telling!Deliveries /\ work[t].of.v \in Nat BY <1>1, AtWork, DeliveryMade DEF Occupied
<1>3. Untouched /\ UNCHANGED <<backward, overtaken, due>>
  BY DEF Telling!JudgeLabel, Telling!hub, Telling!choice, Untouched, SameWords, SameOutside
<1>4. \/ Rested(t) /\ work[t].of.what = "labeled"
      \/ ~work[t].wants /\ work[t].of.what = "unlabeled" /\ Goes(t, "noting", work[t].key, work[t].todo, work[t].said)
      \/ work[t].wants /\ Speaks(t, <<"label", work[t].of.v>>)
  <2>1. CASE ~work[t].wants
    <3>1. work' = Telling!Unsaid(t) BY <2>1 DEF Telling!JudgeLabel
    <3>2. CASE work[t].of.what = "unlabeled"
      <4>1. work' = [work EXCEPT ![t].step = "noting"] /\ "noting" \in TellSteps
        BY <3>1, <3>2 DEF Telling!Unsaid, Telling!ToNote, TellSteps
      <4> QED BY <2>1, <3>2, <4>1, GoesToDoes
    <3>3. CASE work[t].of.what # "unlabeled"
      <4>1. work' = Telling!Rests(t) BY <3>1, <3>3 DEF Telling!Unsaid
      <4> QED BY <1>1, <3>3, <4>1, RestsDoes DEF Telling!Moves
    <3> QED BY <3>2, <3>3
  <2>2. CASE work[t].wants /\ Telling!AlreadyShown(t)
    <3>1. work' = Telling!Rests(t) BY <2>2 DEF Telling!JudgeLabel
    <3> QED BY <2>2, <3>1, RestsDoes DEF Telling!AlreadyShown
  <2>3. CASE work[t].wants /\ ~Telling!AlreadyShown(t)
    <3>1. work' = Telling!Says(t, <<"label", work[t].of.v>>) BY <2>3 DEF Telling!JudgeLabel
    <3> QED BY <1>2, <2>3, <3>1, SaysDoes, KeysMade
  <2> QED BY <2>1, <2>2, <2>3
<1>. QED BY <1>1, <1>3, <1>4 DEF Telling!JudgeLabel

LEMMA JudgeSwitchDoes ==
  ASSUME TellShapes, NEW t \in Workers, Telling!JudgeSwitch(t)
  PROVE  LET says == work[t].wants /\ ~Telling!MovedOn(t) IN
         /\ work[t].step = "judging" /\ work[t].of.what \in Telling!Halves
         /\ says => Speaks(t, <<work[t].of.what, work[t].of.v>>)
         /\ ~says => Rested(t)
         /\ Untouched /\ UNCHANGED <<ever, muffled, backward, overtaken, due>>
<1> DEFINE says == work[t].wants /\ ~Telling!MovedOn(t)
<1>1. work[t].step = "judging" /\ work[t].of.what \in Telling!Halves BY DEF Telling!JudgeSwitch
<1>2. work[t].of \in Telling!Deliveries /\ work[t].of.v \in Nat BY <1>1, AtWork, DeliveryMade DEF Occupied
<1>3. Untouched /\ UNCHANGED <<ever, muffled, backward, overtaken, due>>
  BY DEF Telling!JudgeSwitch, Telling!hub, Telling!choice, Telling!past, Untouched, SameWords, SameOutside
<1>4. says => Speaks(t, <<work[t].of.what, work[t].of.v>>)
  <2>1. says => work' = Telling!Says(t, <<work[t].of.what, work[t].of.v>>) BY DEF Telling!JudgeSwitch
  <2>2. <<work[t].of.what, work[t].of.v>> \in Telling!LineKeys BY <1>1, <1>2, KeysMade DEF Telling!Halves
  <2> QED BY <2>1, <2>2, SaysDoes
<1>5. ~says => Rested(t)
  <2>1. ~says => work' = Telling!Rests(t) BY DEF Telling!JudgeSwitch
  <2> QED BY <2>1, RestsDoes
<1>. QED BY <1>1, <1>3, <1>4, <1>5

LEMMA NothingToSayDoes ==
  ASSUME TellShapes, NEW t \in Workers, Telling!NothingToSay(t)
  PROVE  /\ work[t].step = "judging" /\ work[t].of.what = "edited" /\ Rested(t)
         /\ Untouched /\ UNCHANGED <<ever, muffled, backward, overtaken, due>>
<1>1. work' = Telling!Rests(t) BY DEF Telling!NothingToSay
<1>. QED BY <1>1, RestsDoes DEF Telling!NothingToSay, Telling!hub, Telling!choice, Telling!past, Untouched, SameWords, SameOutside

LEMMA CompareDoes ==
  ASSUME TellShapes, NEW t \in Workers, Telling!Compare(t)
  PROVE  LET d == work[t].of IN
         /\ work[t].step = "judging" /\ d.what \in {"pushed", "rewritten"}
         /\ \/ /\ d.what = "rewritten" /\ Speaks(t, <<"force-push", d.v>>)
               /\ due' = [due EXCEPT ![d.v] = {<<"force-push", d.v>>}]
            \/ /\ d.what = "pushed" /\ OnlyMoves(t)
               /\ work'[t].step = "reading" /\ work'[t].key = work[t].key /\ work'[t].of = d
               /\ work'[t].thread = work[t].thread /\ work'[t].wants = work[t].wants
               /\ work'[t].todo = Telling!Wanted(d) /\ work'[t].said = work[t].said
               /\ work'[t].kept = Cardinality(Telling!Own(d))
               /\ due' = [due EXCEPT ![d.v] = {<<"commit", c>> : c \in Telling!Own(d)}]
            \/ Rested(t) /\ due' = [due EXCEPT ![d.v] = {}]
         /\ Untouched /\ UNCHANGED <<ever, muffled, backward, overtaken>>
<1> DEFINE d == work[t].of
<1>1. work[t].step = "judging" /\ d.what \in {"pushed", "rewritten"} BY DEF Telling!Compare
<1>2. d \in Telling!Deliveries /\ d.v \in Nat /\ work[t] \in WorkKinds /\ work \in [Workers -> WorkKinds]
  BY <1>1, AtWork, DeliveryMade DEF Occupied
<1>3. Untouched /\ UNCHANGED <<ever, muffled, backward, overtaken>>
  BY DEF Telling!Compare, Telling!hub, Telling!choice, Untouched, SameWords, SameOutside
<1>4. CASE Rested(t) /\ due' = [due EXCEPT ![d.v] = {}] BY <1>1, <1>3, <1>4
<1>5. CASE work' = Telling!Rests(t) /\ due' = [due EXCEPT ![d.v] = {}] BY <1>4, <1>5, RestsDoes
<1>6. CASE /\ d.what = "rewritten" /\ work' = Telling!Says(t, <<"force-push", d.v>>)
           /\ due' = [due EXCEPT ![d.v] = {<<"force-push", d.v>>}]
  <2>1. Speaks(t, <<"force-push", d.v>>) BY <1>2, <1>6, SaysDoes, KeysMade
  <2> QED BY <1>1, <1>3, <1>6, <2>1
<1>7. CASE /\ d.what = "pushed"
           /\ work' = [work EXCEPT ![t].step = "reading", ![t].todo = Telling!Wanted(d), ![t].kept = Telling!Kept(d)]
           /\ due' = [due EXCEPT ![d.v] = {<<"commit", c>> : c \in Telling!Own(d)}]
  <2>1. Telling!Own(d) \subseteq Telling!Commits /\ IsFiniteSet(Telling!Commits)
    BY <1>2, DeliveryMade, CommitsFinite
  <2>2. Telling!Kept(d) = Cardinality(Telling!Own(d)) /\ Telling!Kept(d) \in Nat
    BY <2>1, FS_Subset, FS_CardinalityType, CountsAlike DEF Telling!Kept
  <2>3. Telling!Wanted(d) \in SUBSET Telling!Commits BY <2>1 DEF Telling!Wanted
  <2>4. PICK w : w = [work[t] EXCEPT !.step = "reading", !.todo = Telling!Wanted(d), !.kept = Telling!Kept(d)]
    OBVIOUS
  <2>5. /\ w \in WorkKinds /\ w.step = "reading" /\ w.key = work[t].key /\ w.of = d
        /\ w.thread = work[t].thread /\ w.wants = work[t].wants
        /\ w.todo = Telling!Wanted(d) /\ w.said = work[t].said /\ w.kept = Telling!Kept(d)
    BY <1>2, <2>2, <2>3, <2>4 DEF WorkKinds, TellSteps
  <2>6. work' = [work EXCEPT ![t] = w] BY <1>7, <2>4
  <2>7. OnlyMoves(t) /\ work'[t] = w BY <1>2, <2>5, <2>6, MovesOne
  <2> QED BY <1>1, <1>3, <1>7, <2>2, <2>5, <2>7
<1>8. d.what # "rewritten" => d.what = "pushed" BY <1>1
<1>. QED BY <1>5, <1>6, <1>7, <1>8 DEF Telling!Compare

LEMMA ReadCommitDoes ==
  ASSUME TellShapes, NEW t \in Workers, Telling!ReadCommit(t)
  PROVE  \E c \in work[t].todo :
         /\ work[t].step = "reading"
         /\ \/ Goes(t, "claiming", <<"commit", c>>, work[t].todo \ {c}, work[t].said)
            \/ Goes(t, "reading", work[t].key, work[t].todo \ {c}, work[t].said)
         /\ Untouched /\ UNCHANGED <<ever, muffled, backward, overtaken, due>>
<1>1. PICK c \in work[t].todo :
          \/ work' = [Telling!Says(t, <<"commit", c>>) EXCEPT ![t].todo = @ \ {c}]
          \/ work' = [work EXCEPT ![t].todo = @ \ {c}] BY DEF Telling!ReadCommit
<1>2. work[t] \in WorkKinds /\ work \in [Workers -> WorkKinds] /\ c \in Nat BY AtWork, TellSorts DEF WorkKinds
<1>3. <<"commit", c>> \in Telling!LineKeys BY <1>2, KeysMade
<1>4. work[t].step = "reading" /\ Untouched /\ UNCHANGED <<ever, muffled, backward, overtaken, due>>
  BY DEF Telling!ReadCommit, Telling!hub, Telling!choice, Telling!past, Untouched, SameWords, SameOutside
<1>5. CASE work' = [work EXCEPT ![t].todo = @ \ {c}]
  <2>1. PICK w : w = [work[t] EXCEPT !.todo = @ \ {c}] OBVIOUS
  <2>2. /\ w \in WorkKinds /\ w.step = work[t].step /\ w.of = work[t].of /\ w.thread = work[t].thread /\ w.wants = work[t].wants
        /\ w.key = work[t].key /\ w.todo = work[t].todo \ {c} /\ w.kept = work[t].kept /\ w.said = work[t].said
    BY <1>2, <2>1 DEF WorkKinds
  <2>3. work' = [work EXCEPT ![t] = w] BY <1>5, <2>1
  <2>4. OnlyMoves(t) /\ work'[t] = w BY <1>2, <2>2, <2>3, MovesOne
  <2> QED BY <1>4, <2>2, <2>4 DEF Goes, Keeps
<1>6. CASE work' = [Telling!Says(t, <<"commit", c>>) EXCEPT ![t].todo = @ \ {c}]
  <2>1. PICK v : v = [work[t] EXCEPT !.step = "claiming", !.key = <<"commit", c>>] OBVIOUS
  <2>2. /\ Telling!Says(t, <<"commit", c>>) = [work EXCEPT ![t] = v]
        /\ v \in WorkKinds /\ v.step = "claiming" /\ v.of = work[t].of /\ v.thread = work[t].thread /\ v.wants = work[t].wants
        /\ v.key = <<"commit", c>> /\ v.todo = work[t].todo /\ v.kept = work[t].kept /\ v.said = work[t].said
    BY <1>2, <1>3, <2>1, SaysMakes
  <2>3. PICK w : w = [v EXCEPT !.todo = @ \ {c}] OBVIOUS
  <2>4. /\ w \in WorkKinds /\ w.step = v.step /\ w.of = v.of /\ w.thread = v.thread /\ w.wants = v.wants
        /\ w.key = v.key /\ w.todo = v.todo \ {c} /\ w.kept = v.kept /\ w.said = v.said
    BY <2>2, <2>3 DEF WorkKinds
  <2>5. work' = [work EXCEPT ![t] = w] BY <1>2, <1>6, <2>2, <2>3
  <2>6. OnlyMoves(t) /\ work'[t] = w BY <1>2, <2>4, <2>5, MovesOne
  <2> QED BY <1>4, <2>2, <2>4, <2>6 DEF Goes, Keeps
<1>. QED BY <1>1, <1>5, <1>6

LEMMA FootnoteDoes ==
  ASSUME TellShapes, NEW t \in Workers, Telling!Footnote(t)
  PROVE  /\ work[t].step = "reading" /\ work[t].todo = {}
         /\ \/ work[t].kept > work[t].said /\ Speaks(t, <<"commits-left", work[t].of.v>>)
            \/ ~(work[t].kept > work[t].said) /\ Rested(t)
         /\ Untouched /\ UNCHANGED <<ever, muffled, backward, overtaken, due>>
<1>1. work[t].step = "reading" /\ work[t].todo = {} /\ Untouched /\ UNCHANGED <<ever, muffled, backward, overtaken, due>>
  BY DEF Telling!Footnote, Telling!hub, Telling!choice, Telling!past, Untouched, SameWords, SameOutside
<1>2. work[t].of \in Telling!Deliveries /\ work[t].of.v \in Nat BY <1>1, AtWork, DeliveryMade DEF Occupied
<1>3. CASE work[t].kept > work[t].said
  <2>1. work' = Telling!Says(t, <<"commits-left", work[t].of.v>>) BY <1>3 DEF Telling!Footnote
  <2> QED BY <1>1, <1>2, <1>3, <2>1, SaysDoes, KeysMade
<1>4. CASE ~(work[t].kept > work[t].said)
  <2>1. work' = Telling!Rests(t) BY <1>4 DEF Telling!Footnote
  <2> QED BY <1>1, <1>4, <2>1, RestsDoes
<1>. QED BY <1>3, <1>4

LEMMA ClaimDoes ==
  ASSUME TellShapes, NEW t \in Workers, Telling!Claim(t)
  PROVE  LET k == work[t].key IN
         /\ work[t].step = "claiming"
         /\ \/ /\ k \in spoken /\ spoken' = spoken /\ Followed(t)
               /\ leaned' = IF k \in DOMAIN told THEN leaned ELSE leaned \cup {k}
            \/ /\ k \notin spoken /\ spoken' = spoken \cup {k} /\ leaned' = leaned
               /\ Goes(t, "posting", k, work[t].todo, work[t].said)
         /\ SameOutside
         /\ UNCHANGED <<queued, item, newest, told, counted, dropped, ever, mixed, muffled, backward, overtaken, due>>
<1>1. /\ work[t].step = "claiming" /\ SameOutside
      /\ UNCHANGED <<queued, item, newest, told, counted, dropped, ever, mixed, muffled, backward, overtaken, due>>
  BY DEF Telling!Claim, Telling!hub, Telling!choice, SameOutside
<1>2. CASE work[t].key \in spoken
  <2>1. work' = Telling!Follows(t) BY <1>2 DEF Telling!Claim
  <2> QED BY <1>1, <1>2, <2>1, FollowsDoes DEF Telling!Claim
<1>3. CASE work[t].key \notin spoken
  <2>1. work' = [work EXCEPT ![t].step = "posting"] /\ "posting" \in TellSteps
    BY <1>3 DEF Telling!Claim, TellSteps
  <2> QED BY <1>1, <1>3, <2>1, GoesToDoes DEF Telling!Claim
<1>. QED BY <1>2, <1>3

\* A line that lands in the thread.
LineLanded(t) ==
    LET k == work[t].key IN
    /\ work[t].thread = item.thread
    /\ DOMAIN told' = DOMAIN told \cup {k}
    /\ told'[k] = (IF k \in DOMAIN told THEN told[k] ELSE 0) + 1
    /\ \A j \in DOMAIN told \ {k} : told'[j] = told[j]
    /\ counted' = IF k[1] = "commits-left" THEN [counted EXCEPT ![work[t].of.v] = work[t].kept - work[t].said] ELSE counted
    /\ backward' = (backward \/ Telling!GoesBack(k))

LEMMA LandsDoes ==
  ASSUME TellShapes, NEW t \in Workers, Telling!Lands(t) PROVE LineLanded(t)
<1>1. /\ told' = Telling!Told(work[t].key)
      /\ work[t].thread = item.thread /\ backward' = (backward \/ Telling!GoesBack(work[t].key))
      /\ counted' = IF work[t].key[1] = "commits-left" THEN [counted EXCEPT ![work[t].of.v] = work[t].kept - work[t].said] ELSE counted
  BY DEF Telling!Lands
<1>2. \A j \in DOMAIN told : told[j] \in Nat BY DEF TellShapes, TellKinds
<1>. QED BY <1>1, <1>2 DEF Telling!Told, LineLanded

LEMMA PostDoes ==
  ASSUME TellShapes, NEW t \in Workers, Telling!Post(t)
  PROVE  /\ work[t].step = "posting" /\ LineLanded(t) /\ Followed(t)
         /\ SameOutside
         /\ UNCHANGED <<queued, item, newest, spoken, leaned, dropped, ever, mixed, muffled, overtaken, due>>
BY LandsDoes, FollowsDoes DEF Telling!Post, Telling!hub, Telling!choice, Telling!past, SameOutside

LEMMA PostFailsDoes ==
  ASSUME TellShapes, NEW t \in Workers, Telling!PostFails(t)
  PROVE  /\ work[t].step = "posting" /\ Goes(t, "handing_back", work[t].key, work[t].todo, work[t].said)
         /\ \/ UNCHANGED <<told, counted, backward, dropped>>
            \/ LineLanded(t) /\ dropped' = dropped \cup {work[t].key}
         /\ SameOutside
         /\ UNCHANGED <<queued, item, newest, spoken, leaned, ever, mixed, muffled, overtaken, due>>
<1>1. work' = [work EXCEPT ![t].step = "handing_back"] /\ "handing_back" \in TellSteps
  BY DEF Telling!PostFails, TellSteps
<1>2. Goes(t, "handing_back", work[t].key, work[t].todo, work[t].said) BY <1>1, GoesToDoes
<1>. QED BY <1>2, LandsDoes DEF Telling!PostFails, Telling!hub, Telling!choice, SameOutside

LEMMA HandBackDoes ==
  ASSUME TellShapes, NEW t \in Workers, Telling!HandBack(t)
  PROVE  /\ work[t].step = "handing_back" /\ Rested(t) /\ queued' = queued \cup {work[t].of}
         /\ \/ spoken' = spoken \ {work[t].key} /\ dropped' = dropped
            \/ spoken' = spoken /\ dropped' = dropped \cup {work[t].key}
         /\ SameOutside
         /\ UNCHANGED <<item, newest, told, counted, leaned, ever, mixed, muffled, backward, overtaken, due>>
<1>1. work' = Telling!Rests(t) /\ queued' = queued \cup {work[t].of} BY DEF Telling!HandBack, Telling!Again
<1>. QED BY <1>1, RestsDoes DEF Telling!HandBack, Telling!GivenBack, Telling!hub, Telling!choice, SameOutside

LEMMA NoteDoes ==
  ASSUME TellShapes, NEW t \in Workers, Telling!Note(t)
  PROVE  /\ work[t].step = "noting" /\ Rested(t)
         /\ item' \in ItemKinds /\ item'.version = item.version /\ item'.thread = item.thread /\ item'.wants = item.wants
         /\ item'.shown = IF item.thread = work[t].thread THEN work[t].of.on ELSE item.shown
         /\ ever' = IF item.thread # work[t].thread THEN ever ELSE IF work[t].of.on THEN "on" ELSE "off"
         /\ SameWords /\ SameOutside /\ UNCHANGED <<queued, newest, mixed, muffled, backward, overtaken, due>>
<1>1. work' = Telling!Rests(t) /\ work[t].step = "noting" /\ item' = Telling!Shown(t) BY DEF Telling!Note
<1>2. work[t].of \in Telling!Deliveries /\ item \in ItemKinds BY <1>1, AtWork DEF Occupied
<1>3. /\ item' \in ItemKinds /\ item'.version = item.version /\ item'.thread = item.thread /\ item'.wants = item.wants
      /\ item'.shown = IF item.thread = work[t].thread THEN work[t].of.on ELSE item.shown
  BY <1>1, <1>2, ShownMakes
<1>. QED BY <1>1, <1>3, RestsDoes DEF Telling!Note, Telling!hub, Telling!choice, SameWords, SameOutside

LEMMA FailsDoes ==
  ASSUME TellShapes, NEW t \in Workers, Telling!Fails(t)
  PROVE  /\ Occupied(t) /\ Rested(t) /\ queued' = queued \cup {work[t].of}
         /\ dropped' = IF work[t].step \in {"posting", "handing_back"} THEN dropped \cup {work[t].key} ELSE dropped
         /\ SameOutside
         /\ UNCHANGED <<item, newest, spoken, told, counted, leaned, ever, mixed, muffled, backward, overtaken, due>>
<1>1. work' = Telling!Rests(t) /\ queued' = queued \cup {work[t].of} BY DEF Telling!Fails, Telling!Again
<1>. QED BY <1>1, RestsDoes DEF Telling!Fails, Occupied, Telling!hub, Telling!choice, SameOutside

----
\* Kinds and places hold.

Outside ==
    /\ about \in {"labels", "draft", "commits"}
    /\ latest \in 2..(MaxEvents + 2) /\ tagged \in BOOLEAN /\ branch \subseteq Telling!Commits
RowSorts == item \in ItemKinds /\ newest \in Nat /\ upsets \in 0..MaxUpsets
WordKinds ==
    /\ spoken \subseteq Telling!LineKeys /\ leaned \subseteq Telling!LineKeys /\ dropped \subseteq Telling!LineKeys
    /\ DOMAIN told \subseteq Telling!LineKeys /\ \A k \in DOMAIN told : told[k] \in Nat
PastKinds ==
    /\ due \in [Telling!Versions -> SUBSET Telling!LineKeys]
    /\ ever \in {"on", "off", "nothing"}
    /\ mixed \in BOOLEAN /\ muffled \in BOOLEAN /\ chosen \in BOOLEAN
CountKinds == counted \in [Telling!Versions -> Int]

LEMMA TellParts ==
  ASSUME TellShapes
  PROVE  Outside /\ RowSorts /\ WordKinds /\ PastKinds /\ CountKinds
         /\ queued \subseteq Telling!Deliveries /\ work \in [Workers -> WorkKinds]
BY DEF TellShapes, TellKinds, Outside, RowSorts, WordKinds, PastKinds, CountKinds, ItemKinds

LEMMA OutsideHolds == TellShapes /\ Telling!Next => Outside'
<1>. SUFFICES ASSUME TellShapes, Telling!Next PROVE Outside' OBVIOUS
<1>0. Outside /\ MaxEvents \in Nat BY TellParts, TellSorts
<1>. USE DEF Outside
<1>1. ASSUME NEW d, Sends(d) PROVE Outside' BY <1>0, <1>1 DEF Sends, Untouched, SameOutside
<1>2. CASE Telling!Choose BY <1>0, <1>2, ChooseDoes DEF Untouched, SameOutside
<1>3. CASE Telling!Lose BY <1>0, <1>3, LoseDoes DEF Untouched, SameOutside
<1>4. CASE Telling!DiesOpening BY <1>0, <1>4, DiesOpeningDoes DEF Untouched, SameOutside
<1>5. ASSUME NEW t \in Workers, Telling!Sync(t) PROVE Outside'
  BY <1>0, <1>5, LineSyncDoes DEF Untouched, SameOutside
<1>6. ASSUME NEW t \in Workers, Telling!JudgeLabel(t) PROVE Outside'
  BY <1>0, <1>6, JudgeLabelDoes DEF Untouched, SameOutside
<1>7. ASSUME NEW t \in Workers, Telling!JudgeSwitch(t) PROVE Outside'
  BY <1>0, <1>7, JudgeSwitchDoes DEF Untouched, SameOutside
<1>8. ASSUME NEW t \in Workers, Telling!NothingToSay(t) PROVE Outside'
  BY <1>0, <1>8, NothingToSayDoes DEF Untouched, SameOutside
<1>9. ASSUME NEW t \in Workers, Telling!Compare(t) PROVE Outside'
  BY <1>0, <1>9, CompareDoes DEF Untouched, SameOutside
<1>10. ASSUME NEW t \in Workers, Telling!ReadCommit(t) PROVE Outside'
  BY <1>0, <1>10, ReadCommitDoes DEF Untouched, SameOutside
<1>11. ASSUME NEW t \in Workers, Telling!Footnote(t) PROVE Outside'
  BY <1>0, <1>11, FootnoteDoes DEF Untouched, SameOutside
<1>12. ASSUME NEW t \in Workers, Telling!Claim(t) PROVE Outside'
  BY <1>0, <1>12, ClaimDoes DEF Untouched, SameOutside
<1>13. ASSUME NEW t \in Workers, Telling!Post(t) PROVE Outside'
  BY <1>0, <1>13, PostDoes DEF Untouched, SameOutside
<1>14. ASSUME NEW t \in Workers, Telling!PostFails(t) PROVE Outside'
  BY <1>0, <1>14, PostFailsDoes DEF Untouched, SameOutside
<1>15. ASSUME NEW t \in Workers, Telling!HandBack(t) PROVE Outside'
  BY <1>0, <1>15, HandBackDoes DEF Untouched, SameOutside
<1>16. ASSUME NEW t \in Workers, Telling!Note(t) PROVE Outside'
  BY <1>0, <1>16, NoteDoes DEF Untouched, SameOutside
<1>17. ASSUME NEW t \in Workers, Telling!Fails(t) PROVE Outside'
  BY <1>0, <1>17, FailsDoes DEF Untouched, SameOutside
<1>. QED BY <1>0, <1>1, <1>2, <1>3, <1>4, <1>5, <1>6, <1>7, <1>8, <1>9, <1>10, <1>11, <1>12, <1>13, <1>14, <1>15, <1>16, <1>17, GitHubSends DEF Telling!Next

LEMMA RowKindsHold == TellShapes /\ Telling!Next => RowSorts'
<1>. SUFFICES ASSUME TellShapes, Telling!Next PROVE RowSorts' OBVIOUS
<1>0. RowSorts /\ MaxUpsets \in Nat BY TellParts, TellSorts
<1>. USE DEF RowSorts
<1>1. ASSUME NEW d, Sends(d) PROVE RowSorts' BY <1>0, <1>1 DEF Sends, Untouched, SameOutside
<1>2. CASE Telling!Choose BY <1>0, <1>2, ChooseDoes DEF Untouched, SameOutside
<1>3. CASE Telling!Lose BY <1>0, <1>3, LoseDoes DEF Untouched, SameOutside
<1>4. CASE Telling!DiesOpening
  <2>1. item' \in ItemKinds /\ newest' = newest + 1 /\ upsets' = upsets
    BY <1>4, DiesOpeningDoes DEF SameOutside
  <2> QED BY <1>0, <2>1
<1>5. ASSUME NEW t \in Workers, Telling!Sync(t) PROVE RowSorts'
  BY <1>0, <1>5, LineSyncDoes DEF Untouched, SameOutside
<1>6. ASSUME NEW t \in Workers, Telling!JudgeLabel(t) PROVE RowSorts'
  BY <1>0, <1>6, JudgeLabelDoes DEF Untouched, SameOutside
<1>7. ASSUME NEW t \in Workers, Telling!JudgeSwitch(t) PROVE RowSorts'
  BY <1>0, <1>7, JudgeSwitchDoes DEF Untouched, SameOutside
<1>8. ASSUME NEW t \in Workers, Telling!NothingToSay(t) PROVE RowSorts'
  BY <1>0, <1>8, NothingToSayDoes DEF Untouched, SameOutside
<1>9. ASSUME NEW t \in Workers, Telling!Compare(t) PROVE RowSorts'
  BY <1>0, <1>9, CompareDoes DEF Untouched, SameOutside
<1>10. ASSUME NEW t \in Workers, Telling!ReadCommit(t) PROVE RowSorts'
  BY <1>0, <1>10, ReadCommitDoes DEF Untouched, SameOutside
<1>11. ASSUME NEW t \in Workers, Telling!Footnote(t) PROVE RowSorts'
  BY <1>0, <1>11, FootnoteDoes DEF Untouched, SameOutside
<1>12. ASSUME NEW t \in Workers, Telling!Claim(t) PROVE RowSorts'
  BY <1>0, <1>12, ClaimDoes DEF Untouched, SameOutside
<1>13. ASSUME NEW t \in Workers, Telling!Post(t) PROVE RowSorts'
  BY <1>0, <1>13, PostDoes DEF Untouched, SameOutside
<1>14. ASSUME NEW t \in Workers, Telling!PostFails(t) PROVE RowSorts'
  BY <1>0, <1>14, PostFailsDoes DEF Untouched, SameOutside
<1>15. ASSUME NEW t \in Workers, Telling!HandBack(t) PROVE RowSorts'
  BY <1>0, <1>15, HandBackDoes DEF Untouched, SameOutside
<1>16. ASSUME NEW t \in Workers, Telling!Note(t) PROVE RowSorts'
  BY <1>0, <1>16, NoteDoes DEF Untouched, SameOutside
<1>17. ASSUME NEW t \in Workers, Telling!Fails(t) PROVE RowSorts'
  BY <1>0, <1>17, FailsDoes DEF Untouched, SameOutside
<1>. QED BY <1>0, <1>1, <1>2, <1>3, <1>4, <1>5, <1>6, <1>7, <1>8, <1>9, <1>10, <1>11, <1>12, <1>13, <1>14, <1>15, <1>16, <1>17, GitHubSends DEF Telling!Next

LEMMA ThreadsMadeHold == TellShapes /\ Telling!Next => ThreadsMade'
<1>. SUFFICES ASSUME TellShapes, Telling!Next PROVE ThreadsMade' OBVIOUS
<1>0. ThreadsMade /\ newest \in Nat /\ upsets \in Nat /\ item.thread \in Nat
  <2>1. ThreadsMade /\ RowSorts BY TellParts DEF TellShapes
  <2> QED BY <2>1, TellSorts DEF RowSorts, ItemKinds
<1>. USE DEF ThreadsMade
<1>1. ASSUME NEW d, Sends(d) PROVE ThreadsMade' BY <1>0, <1>1 DEF Sends, Untouched, SameOutside
<1>2. CASE Telling!Choose BY <1>0, <1>2, ChooseDoes DEF Untouched, SameOutside
<1>3. CASE Telling!Lose
  <2>1. /\ item.thread # 0 /\ item'.thread = 0 /\ item'.shown = FALSE /\ newest' = newest /\ upsets' = upsets + 1
    BY <1>3, LoseDoes
  <2> QED BY <1>0, <2>1
<1>4. CASE Telling!DiesOpening
  <2>1. /\ item.thread = 0 /\ item'.thread = newest + 1 /\ item'.shown = FALSE /\ newest' = newest + 1 /\ upsets' = upsets
    BY <1>4, DiesOpeningDoes DEF SameOutside
  <2> QED BY <1>0, <2>1
<1>5. ASSUME NEW t \in Workers, Telling!Sync(t) PROVE ThreadsMade'
  BY <1>0, <1>5, LineSyncDoes DEF Untouched, SameOutside
<1>6. ASSUME NEW t \in Workers, Telling!JudgeLabel(t) PROVE ThreadsMade'
  BY <1>0, <1>6, JudgeLabelDoes DEF Untouched, SameOutside
<1>7. ASSUME NEW t \in Workers, Telling!JudgeSwitch(t) PROVE ThreadsMade'
  BY <1>0, <1>7, JudgeSwitchDoes DEF Untouched, SameOutside
<1>8. ASSUME NEW t \in Workers, Telling!NothingToSay(t) PROVE ThreadsMade'
  BY <1>0, <1>8, NothingToSayDoes DEF Untouched, SameOutside
<1>9. ASSUME NEW t \in Workers, Telling!Compare(t) PROVE ThreadsMade'
  BY <1>0, <1>9, CompareDoes DEF Untouched, SameOutside
<1>10. ASSUME NEW t \in Workers, Telling!ReadCommit(t) PROVE ThreadsMade'
  BY <1>0, <1>10, ReadCommitDoes DEF Untouched, SameOutside
<1>11. ASSUME NEW t \in Workers, Telling!Footnote(t) PROVE ThreadsMade'
  BY <1>0, <1>11, FootnoteDoes DEF Untouched, SameOutside
<1>12. ASSUME NEW t \in Workers, Telling!Claim(t) PROVE ThreadsMade'
  BY <1>0, <1>12, ClaimDoes DEF Untouched, SameOutside
<1>13. ASSUME NEW t \in Workers, Telling!Post(t) PROVE ThreadsMade'
  BY <1>0, <1>13, PostDoes DEF Untouched, SameOutside
<1>14. ASSUME NEW t \in Workers, Telling!PostFails(t) PROVE ThreadsMade'
  BY <1>0, <1>14, PostFailsDoes DEF Untouched, SameOutside
<1>15. ASSUME NEW t \in Workers, Telling!HandBack(t) PROVE ThreadsMade'
  BY <1>0, <1>15, HandBackDoes DEF Untouched, SameOutside
<1>16. ASSUME NEW t \in Workers, Telling!Note(t) PROVE ThreadsMade'
  <2>1. /\ item'.thread = item.thread /\ newest' = newest /\ upsets' = upsets
        /\ item'.shown = IF item.thread = work[t].thread THEN work[t].of.on ELSE item.shown
    BY <1>16, NoteDoes DEF SameOutside
  <2>2. work[t].thread # 0 BY <1>16, NoteDoes, AtWork DEF Held
  <2> QED BY <1>0, <2>1, <2>2
<1>17. ASSUME NEW t \in Workers, Telling!Fails(t) PROVE ThreadsMade'
  BY <1>0, <1>17, FailsDoes DEF Untouched, SameOutside
<1>. QED BY <1>0, <1>1, <1>2, <1>3, <1>4, <1>5, <1>6, <1>7, <1>8, <1>9, <1>10, <1>11, <1>12, <1>13, <1>14, <1>15, <1>16, <1>17, GitHubSends DEF Telling!Next

LEMMA VersionHolds == TellShapes /\ Telling!Next => (item.version \in 0..latest)'
<1>. SUFFICES ASSUME TellShapes, Telling!Next PROVE (item.version \in 0..latest)' OBVIOUS
<1>0. item.version \in 0..latest /\ latest \in Nat /\ \A d \in queued : d.v \in 1..latest
  BY TellParts DEF TellShapes, Sane, Outside
<1>1. ASSUME NEW d, Sends(d) PROVE (item.version \in 0..latest)'
  BY <1>0, <1>1 DEF Sends, Untouched, SameOutside, Newer
<1>2. CASE Telling!Choose BY <1>0, <1>2, ChooseDoes DEF Untouched, SameOutside, Newer
<1>3. CASE Telling!Lose BY <1>0, <1>3, LoseDoes DEF Untouched, SameOutside, Newer
<1>4. CASE Telling!DiesOpening
  <2>1. latest' = latest /\ \E d \in queued : item'.version = Newer(d.v, item.version)
    BY <1>4, DiesOpeningDoes DEF SameOutside
  <2> QED BY <1>0, <2>1 DEF Newer
<1>5. ASSUME NEW t \in Workers, Telling!Sync(t) PROVE (item.version \in 0..latest)'
  BY <1>0, <1>5, LineSyncDoes DEF Untouched, SameOutside, Newer
<1>6. ASSUME NEW t \in Workers, Telling!JudgeLabel(t) PROVE (item.version \in 0..latest)'
  BY <1>0, <1>6, JudgeLabelDoes DEF Untouched, SameOutside, Newer
<1>7. ASSUME NEW t \in Workers, Telling!JudgeSwitch(t) PROVE (item.version \in 0..latest)'
  BY <1>0, <1>7, JudgeSwitchDoes DEF Untouched, SameOutside, Newer
<1>8. ASSUME NEW t \in Workers, Telling!NothingToSay(t) PROVE (item.version \in 0..latest)'
  BY <1>0, <1>8, NothingToSayDoes DEF Untouched, SameOutside, Newer
<1>9. ASSUME NEW t \in Workers, Telling!Compare(t) PROVE (item.version \in 0..latest)'
  BY <1>0, <1>9, CompareDoes DEF Untouched, SameOutside, Newer
<1>10. ASSUME NEW t \in Workers, Telling!ReadCommit(t) PROVE (item.version \in 0..latest)'
  BY <1>0, <1>10, ReadCommitDoes DEF Untouched, SameOutside, Newer
<1>11. ASSUME NEW t \in Workers, Telling!Footnote(t) PROVE (item.version \in 0..latest)'
  BY <1>0, <1>11, FootnoteDoes DEF Untouched, SameOutside, Newer
<1>12. ASSUME NEW t \in Workers, Telling!Claim(t) PROVE (item.version \in 0..latest)'
  BY <1>0, <1>12, ClaimDoes DEF Untouched, SameOutside, Newer
<1>13. ASSUME NEW t \in Workers, Telling!Post(t) PROVE (item.version \in 0..latest)'
  BY <1>0, <1>13, PostDoes DEF Untouched, SameOutside, Newer
<1>14. ASSUME NEW t \in Workers, Telling!PostFails(t) PROVE (item.version \in 0..latest)'
  BY <1>0, <1>14, PostFailsDoes DEF Untouched, SameOutside, Newer
<1>15. ASSUME NEW t \in Workers, Telling!HandBack(t) PROVE (item.version \in 0..latest)'
  BY <1>0, <1>15, HandBackDoes DEF Untouched, SameOutside, Newer
<1>16. ASSUME NEW t \in Workers, Telling!Note(t) PROVE (item.version \in 0..latest)'
  BY <1>0, <1>16, NoteDoes DEF Untouched, SameOutside, Newer
<1>17. ASSUME NEW t \in Workers, Telling!Fails(t) PROVE (item.version \in 0..latest)'
  BY <1>0, <1>17, FailsDoes DEF Untouched, SameOutside, Newer
<1>. QED BY <1>0, <1>1, <1>2, <1>3, <1>4, <1>5, <1>6, <1>7, <1>8, <1>9, <1>10, <1>11, <1>12, <1>13, <1>14, <1>15, <1>16, <1>17, GitHubSends DEF Telling!Next

LEMMA QueuedHold == TellShapes /\ Telling!Next => (queued \subseteq Telling!Deliveries)'
<1>. SUFFICES ASSUME TellShapes, Telling!Next PROVE (queued \subseteq Telling!Deliveries)' OBVIOUS
<1>0. queued \subseteq Telling!Deliveries BY TellParts
<1>a. \A t \in Workers : Occupied(t) => work[t].of \in Telling!Deliveries BY AtWork
<1>1. ASSUME NEW d, Sends(d) PROVE (queued \subseteq Telling!Deliveries)'
  BY <1>0, <1>a, <1>1 DEF Sends, Untouched, SameOutside, Occupied
<1>2. CASE Telling!Choose BY <1>0, <1>a, <1>2, ChooseDoes DEF Untouched, SameOutside, Occupied
<1>3. CASE Telling!Lose BY <1>0, <1>a, <1>3, LoseDoes DEF Untouched, SameOutside, Occupied
<1>4. CASE Telling!DiesOpening BY <1>0, <1>a, <1>4, DiesOpeningDoes DEF Untouched, SameOutside, Occupied
<1>5. ASSUME NEW t \in Workers, Telling!Sync(t) PROVE (queued \subseteq Telling!Deliveries)'
  BY <1>0, <1>a, <1>5, LineSyncDoes DEF Untouched, SameOutside, Occupied
<1>6. ASSUME NEW t \in Workers, Telling!JudgeLabel(t) PROVE (queued \subseteq Telling!Deliveries)'
  BY <1>0, <1>a, <1>6, JudgeLabelDoes DEF Untouched, SameOutside, Occupied
<1>7. ASSUME NEW t \in Workers, Telling!JudgeSwitch(t) PROVE (queued \subseteq Telling!Deliveries)'
  BY <1>0, <1>a, <1>7, JudgeSwitchDoes DEF Untouched, SameOutside, Occupied
<1>8. ASSUME NEW t \in Workers, Telling!NothingToSay(t) PROVE (queued \subseteq Telling!Deliveries)'
  BY <1>0, <1>a, <1>8, NothingToSayDoes DEF Untouched, SameOutside, Occupied
<1>9. ASSUME NEW t \in Workers, Telling!Compare(t) PROVE (queued \subseteq Telling!Deliveries)'
  BY <1>0, <1>a, <1>9, CompareDoes DEF Untouched, SameOutside, Occupied
<1>10. ASSUME NEW t \in Workers, Telling!ReadCommit(t) PROVE (queued \subseteq Telling!Deliveries)'
  BY <1>0, <1>a, <1>10, ReadCommitDoes DEF Untouched, SameOutside, Occupied
<1>11. ASSUME NEW t \in Workers, Telling!Footnote(t) PROVE (queued \subseteq Telling!Deliveries)'
  BY <1>0, <1>a, <1>11, FootnoteDoes DEF Untouched, SameOutside, Occupied
<1>12. ASSUME NEW t \in Workers, Telling!Claim(t) PROVE (queued \subseteq Telling!Deliveries)'
  BY <1>0, <1>a, <1>12, ClaimDoes DEF Untouched, SameOutside, Occupied
<1>13. ASSUME NEW t \in Workers, Telling!Post(t) PROVE (queued \subseteq Telling!Deliveries)'
  BY <1>0, <1>a, <1>13, PostDoes DEF Untouched, SameOutside, Occupied
<1>14. ASSUME NEW t \in Workers, Telling!PostFails(t) PROVE (queued \subseteq Telling!Deliveries)'
  BY <1>0, <1>a, <1>14, PostFailsDoes DEF Untouched, SameOutside, Occupied
<1>15. ASSUME NEW t \in Workers, Telling!HandBack(t) PROVE (queued \subseteq Telling!Deliveries)'
  BY <1>0, <1>a, <1>15, HandBackDoes DEF Untouched, SameOutside, Occupied
<1>16. ASSUME NEW t \in Workers, Telling!Note(t) PROVE (queued \subseteq Telling!Deliveries)'
  BY <1>0, <1>a, <1>16, NoteDoes DEF Untouched, SameOutside, Occupied
<1>17. ASSUME NEW t \in Workers, Telling!Fails(t) PROVE (queued \subseteq Telling!Deliveries)'
  BY <1>0, <1>a, <1>17, FailsDoes DEF Untouched, SameOutside, Occupied
<1>. QED BY <1>0, <1>a, <1>1, <1>2, <1>3, <1>4, <1>5, <1>6, <1>7, <1>8, <1>9, <1>10, <1>11, <1>12, <1>13, <1>14, <1>15, <1>16, <1>17, GitHubSends DEF Telling!Next

LEMMA WorkKindsHold == TellShapes /\ Telling!Next => (work \in [Workers -> WorkKinds])'
<1>. SUFFICES ASSUME TellShapes, Telling!Next PROVE (work \in [Workers -> WorkKinds])' OBVIOUS
<1>0. work \in [Workers -> WorkKinds] BY TellParts
<1>1. ASSUME NEW d, Sends(d) PROVE (work \in [Workers -> WorkKinds])'
  BY <1>0, <1>1 DEF Sends, OnlyMoves, Rested, Goes, Speaks, Followed
<1>2. CASE Telling!Choose BY <1>0, <1>2, ChooseDoes DEF OnlyMoves, Rested, Goes, Speaks, Followed
<1>3. CASE Telling!Lose BY <1>0, <1>3, LoseDoes DEF OnlyMoves, Rested, Goes, Speaks, Followed
<1>4. CASE Telling!DiesOpening BY <1>0, <1>4, DiesOpeningDoes DEF OnlyMoves, Rested, Goes, Speaks, Followed
<1>5. ASSUME NEW t \in Workers, Telling!Sync(t) PROVE (work \in [Workers -> WorkKinds])'
  BY <1>0, <1>5, LineSyncDoes DEF OnlyMoves, Rested, Goes, Speaks, Followed
<1>6. ASSUME NEW t \in Workers, Telling!JudgeLabel(t) PROVE (work \in [Workers -> WorkKinds])'
  BY <1>0, <1>6, JudgeLabelDoes DEF OnlyMoves, Rested, Goes, Speaks, Followed
<1>7. ASSUME NEW t \in Workers, Telling!JudgeSwitch(t) PROVE (work \in [Workers -> WorkKinds])'
  BY <1>0, <1>7, JudgeSwitchDoes DEF OnlyMoves, Rested, Goes, Speaks, Followed
<1>8. ASSUME NEW t \in Workers, Telling!NothingToSay(t) PROVE (work \in [Workers -> WorkKinds])'
  BY <1>0, <1>8, NothingToSayDoes DEF OnlyMoves, Rested, Goes, Speaks, Followed
<1>9. ASSUME NEW t \in Workers, Telling!Compare(t) PROVE (work \in [Workers -> WorkKinds])'
  BY <1>0, <1>9, CompareDoes DEF OnlyMoves, Rested, Goes, Speaks, Followed
<1>10. ASSUME NEW t \in Workers, Telling!ReadCommit(t) PROVE (work \in [Workers -> WorkKinds])'
  BY <1>0, <1>10, ReadCommitDoes DEF OnlyMoves, Rested, Goes, Speaks, Followed
<1>11. ASSUME NEW t \in Workers, Telling!Footnote(t) PROVE (work \in [Workers -> WorkKinds])'
  BY <1>0, <1>11, FootnoteDoes DEF OnlyMoves, Rested, Goes, Speaks, Followed
<1>12. ASSUME NEW t \in Workers, Telling!Claim(t) PROVE (work \in [Workers -> WorkKinds])'
  BY <1>0, <1>12, ClaimDoes DEF OnlyMoves, Rested, Goes, Speaks, Followed
<1>13. ASSUME NEW t \in Workers, Telling!Post(t) PROVE (work \in [Workers -> WorkKinds])'
  BY <1>0, <1>13, PostDoes DEF OnlyMoves, Rested, Goes, Speaks, Followed
<1>14. ASSUME NEW t \in Workers, Telling!PostFails(t) PROVE (work \in [Workers -> WorkKinds])'
  BY <1>0, <1>14, PostFailsDoes DEF OnlyMoves, Rested, Goes, Speaks, Followed
<1>15. ASSUME NEW t \in Workers, Telling!HandBack(t) PROVE (work \in [Workers -> WorkKinds])'
  BY <1>0, <1>15, HandBackDoes DEF OnlyMoves, Rested, Goes, Speaks, Followed
<1>16. ASSUME NEW t \in Workers, Telling!Note(t) PROVE (work \in [Workers -> WorkKinds])'
  BY <1>0, <1>16, NoteDoes DEF OnlyMoves, Rested, Goes, Speaks, Followed
<1>17. ASSUME NEW t \in Workers, Telling!Fails(t) PROVE (work \in [Workers -> WorkKinds])'
  BY <1>0, <1>17, FailsDoes DEF OnlyMoves, Rested, Goes, Speaks, Followed
<1>. QED BY <1>0, <1>1, <1>2, <1>3, <1>4, <1>5, <1>6, <1>7, <1>8, <1>9, <1>10, <1>11, <1>12, <1>13, <1>14, <1>15, <1>16, <1>17, GitHubSends DEF Telling!Next

LEMMA WordKindsHold == TellShapes /\ Telling!Next => WordKinds'
<1>. SUFFICES ASSUME TellShapes, Telling!Next PROVE WordKinds' OBVIOUS
<1>0. WordKinds BY TellParts
<1>a. \A t \in Workers : work[t].step \in Speaking => work[t].key \in Telling!LineKeys BY AtWork
<1>. USE DEF WordKinds
<1>1. ASSUME NEW d, Sends(d) PROVE WordKinds'
  BY <1>0, <1>a, <1>1 DEF Sends, Untouched, SameWords, Speaking, LineLanded
<1>2. CASE Telling!Choose BY <1>0, <1>a, <1>2, ChooseDoes DEF Untouched, SameWords, Speaking, LineLanded
<1>3. CASE Telling!Lose BY <1>0, <1>a, <1>3, LoseDoes DEF Untouched, SameWords, Speaking, LineLanded
<1>4. CASE Telling!DiesOpening
  BY <1>0, <1>a, <1>4, DiesOpeningDoes DEF Untouched, SameWords, Speaking, LineLanded
<1>5. ASSUME NEW t \in Workers, Telling!Sync(t) PROVE WordKinds'
  BY <1>0, <1>a, <1>5, LineSyncDoes DEF Untouched, SameWords, Speaking, LineLanded
<1>6. ASSUME NEW t \in Workers, Telling!JudgeLabel(t) PROVE WordKinds'
  BY <1>0, <1>a, <1>6, JudgeLabelDoes DEF Untouched, SameWords, Speaking, LineLanded
<1>7. ASSUME NEW t \in Workers, Telling!JudgeSwitch(t) PROVE WordKinds'
  BY <1>0, <1>a, <1>7, JudgeSwitchDoes DEF Untouched, SameWords, Speaking, LineLanded
<1>8. ASSUME NEW t \in Workers, Telling!NothingToSay(t) PROVE WordKinds'
  BY <1>0, <1>a, <1>8, NothingToSayDoes DEF Untouched, SameWords, Speaking, LineLanded
<1>9. ASSUME NEW t \in Workers, Telling!Compare(t) PROVE WordKinds'
  BY <1>0, <1>a, <1>9, CompareDoes DEF Untouched, SameWords, Speaking, LineLanded
<1>10. ASSUME NEW t \in Workers, Telling!ReadCommit(t) PROVE WordKinds'
  BY <1>0, <1>a, <1>10, ReadCommitDoes DEF Untouched, SameWords, Speaking, LineLanded
<1>11. ASSUME NEW t \in Workers, Telling!Footnote(t) PROVE WordKinds'
  BY <1>0, <1>a, <1>11, FootnoteDoes DEF Untouched, SameWords, Speaking, LineLanded
<1>12. ASSUME NEW t \in Workers, Telling!Claim(t) PROVE WordKinds'
  BY <1>0, <1>a, <1>12, ClaimDoes DEF Untouched, SameWords, Speaking, LineLanded
<1>13. ASSUME NEW t \in Workers, Telling!Post(t) PROVE WordKinds'
  <2>1. /\ work[t].key \in Telling!LineKeys /\ spoken' = spoken /\ leaned' = leaned
        /\ dropped' \subseteq dropped \cup {work[t].key} /\ (LineLanded(t) \/ told' = told)
    BY <1>a, <1>13, PostDoes DEF Speaking
  <2>2. ASSUME LineLanded(t) PROVE DOMAIN told' \subseteq Telling!LineKeys /\ \A k \in DOMAIN told' : told'[k] \in Nat
    <3>1. told'[work[t].key] \in Nat BY <1>0, <2>2 DEF LineLanded
    <3> QED BY <1>0, <2>1, <2>2, <3>1 DEF LineLanded
  <2> QED BY <1>0, <2>1, <2>2
<1>14. ASSUME NEW t \in Workers, Telling!PostFails(t) PROVE WordKinds'
  <2>1. /\ work[t].key \in Telling!LineKeys /\ spoken' = spoken /\ leaned' = leaned
        /\ dropped' \subseteq dropped \cup {work[t].key} /\ (LineLanded(t) \/ told' = told)
    BY <1>a, <1>14, PostFailsDoes DEF Speaking
  <2>2. ASSUME LineLanded(t) PROVE DOMAIN told' \subseteq Telling!LineKeys /\ \A k \in DOMAIN told' : told'[k] \in Nat
    <3>1. told'[work[t].key] \in Nat BY <1>0, <2>2 DEF LineLanded
    <3> QED BY <1>0, <2>1, <2>2, <3>1 DEF LineLanded
  <2> QED BY <1>0, <2>1, <2>2
<1>15. ASSUME NEW t \in Workers, Telling!HandBack(t) PROVE WordKinds'
  BY <1>0, <1>a, <1>15, HandBackDoes DEF Untouched, SameWords, Speaking, LineLanded
<1>16. ASSUME NEW t \in Workers, Telling!Note(t) PROVE WordKinds'
  BY <1>0, <1>a, <1>16, NoteDoes DEF Untouched, SameWords, Speaking, LineLanded
<1>17. ASSUME NEW t \in Workers, Telling!Fails(t) PROVE WordKinds'
  BY <1>0, <1>a, <1>17, FailsDoes DEF Untouched, SameWords, Speaking, LineLanded
<1>. QED BY <1>0, <1>a, <1>1, <1>2, <1>3, <1>4, <1>5, <1>6, <1>7, <1>8, <1>9, <1>10, <1>11, <1>12, <1>13, <1>14, <1>15, <1>16, <1>17, GitHubSends DEF Telling!Next

LEMMA PastKindsHold == TellShapes /\ Telling!Next => PastKinds'
<1>. SUFFICES ASSUME TellShapes, Telling!Next PROVE PastKinds' OBVIOUS
<1>0. PastKinds BY TellParts
<1>. USE DEF PastKinds
<1>1. ASSUME NEW d, Sends(d) PROVE PastKinds'
  <2>1. d.v = latest + 1 /\ d \in Telling!Deliveries /\ UNCHANGED <<ever, mixed, muffled, backward, overtaken, chosen>>
        /\ due' = IF d.what \in Telling!Halves THEN [due EXCEPT ![latest + 1] = {<<d.what, latest + 1>>}] ELSE due
    BY <1>1 DEF Sends
  <2>2. latest + 1 \in Telling!Versions /\ latest + 1 \in Nat BY <2>1, DeliveryMade
  <2>3. d.what \in Telling!Halves => {<<d.what, latest + 1>>} \subseteq Telling!LineKeys
    <3>1. \A n \in Nat : <<"ready", n>> \in Telling!LineKeys /\ <<"draft", n>> \in Telling!LineKeys
      BY KeysMade
    <3> QED BY <2>2, <3>1 DEF Telling!Halves
  <2>4. due' \in [Telling!Versions -> SUBSET Telling!LineKeys] BY <1>0, <2>1, <2>2, <2>3
  <2> QED BY <1>0, <2>1, <2>4
<1>2. CASE Telling!Choose BY <1>0, <1>2, ChooseDoes DEF Untouched, SameOutside
<1>3. CASE Telling!Lose BY <1>0, <1>3, LoseDoes DEF Untouched, SameOutside
<1>4. CASE Telling!DiesOpening BY <1>0, <1>4, DiesOpeningDoes DEF Untouched, SameOutside
<1>5. ASSUME NEW t \in Workers, Telling!Sync(t) PROVE PastKinds'
  BY <1>0, <1>5, LineSyncDoes DEF Untouched, SameOutside
<1>6. ASSUME NEW t \in Workers, Telling!JudgeLabel(t) PROVE PastKinds'
  BY <1>0, <1>6, JudgeLabelDoes DEF Untouched, SameOutside
<1>7. ASSUME NEW t \in Workers, Telling!JudgeSwitch(t) PROVE PastKinds'
  BY <1>0, <1>7, JudgeSwitchDoes DEF Untouched, SameOutside
<1>8. ASSUME NEW t \in Workers, Telling!NothingToSay(t) PROVE PastKinds'
  BY <1>0, <1>8, NothingToSayDoes DEF Untouched, SameOutside
<1>9. ASSUME NEW t \in Workers, Telling!Compare(t) PROVE PastKinds'
  <2>1. work[t].of.v \in Telling!Versions /\ Telling!Own(work[t].of) \subseteq Nat /\ work[t].of.v \in Nat
    <3>1. work[t].of \in Telling!Deliveries BY <1>9, CompareDoes, AtWork DEF Occupied
    <3> QED BY <3>1, DeliveryMade, TellSorts
  <2>2. /\ {<<"force-push", work[t].of.v>>} \subseteq Telling!LineKeys
        /\ {<<"commit", c>> : c \in Telling!Own(work[t].of)} \subseteq Telling!LineKeys
    <3>1. \A n \in Nat : <<"force-push", n>> \in Telling!LineKeys /\ <<"commit", n>> \in Telling!LineKeys
      BY KeysMade
    <3> QED BY <2>1, <3>1
  <2>3. due' \in [Telling!Versions -> SUBSET Telling!LineKeys] BY <1>0, <1>9, <2>1, <2>2, CompareDoes
  <2> QED BY <1>0, <1>9, <2>3, CompareDoes DEF Untouched, SameOutside
<1>10. ASSUME NEW t \in Workers, Telling!ReadCommit(t) PROVE PastKinds'
  BY <1>0, <1>10, ReadCommitDoes DEF Untouched, SameOutside
<1>11. ASSUME NEW t \in Workers, Telling!Footnote(t) PROVE PastKinds'
  BY <1>0, <1>11, FootnoteDoes DEF Untouched, SameOutside
<1>12. ASSUME NEW t \in Workers, Telling!Claim(t) PROVE PastKinds'
  BY <1>0, <1>12, ClaimDoes DEF Untouched, SameOutside
<1>13. ASSUME NEW t \in Workers, Telling!Post(t) PROVE PastKinds'
  BY <1>0, <1>13, PostDoes DEF Untouched, SameOutside
<1>14. ASSUME NEW t \in Workers, Telling!PostFails(t) PROVE PastKinds'
  BY <1>0, <1>14, PostFailsDoes DEF Untouched, SameOutside
<1>15. ASSUME NEW t \in Workers, Telling!HandBack(t) PROVE PastKinds'
  BY <1>0, <1>15, HandBackDoes DEF Untouched, SameOutside
<1>16. ASSUME NEW t \in Workers, Telling!Note(t) PROVE PastKinds'
  BY <1>0, <1>16, NoteDoes DEF Untouched, SameOutside
<1>17. ASSUME NEW t \in Workers, Telling!Fails(t) PROVE PastKinds'
  BY <1>0, <1>17, FailsDoes DEF Untouched, SameOutside
<1>. QED BY <1>0, <1>1, <1>2, <1>3, <1>4, <1>5, <1>6, <1>7, <1>8, <1>9, <1>10, <1>11, <1>12, <1>13, <1>14, <1>15, <1>16, <1>17, GitHubSends DEF Telling!Next

LEMMA CountKindsHold == TellShapes /\ Telling!Next => CountKinds'
<1>. SUFFICES ASSUME TellShapes, Telling!Next PROVE CountKinds' OBVIOUS
<1>0. CountKinds BY TellParts
<1>. USE DEF CountKinds
<1>1. ASSUME NEW d, Sends(d) PROVE CountKinds' BY <1>0, <1>1 DEF Sends, Untouched, SameWords
<1>2. CASE Telling!Choose BY <1>0, <1>2, ChooseDoes DEF Untouched, SameWords
<1>3. CASE Telling!Lose BY <1>0, <1>3, LoseDoes DEF Untouched, SameWords
<1>4. CASE Telling!DiesOpening BY <1>0, <1>4, DiesOpeningDoes DEF Untouched, SameWords
<1>5. ASSUME NEW t \in Workers, Telling!Sync(t) PROVE CountKinds'
  BY <1>0, <1>5, LineSyncDoes DEF Untouched, SameWords
<1>6. ASSUME NEW t \in Workers, Telling!JudgeLabel(t) PROVE CountKinds'
  BY <1>0, <1>6, JudgeLabelDoes DEF Untouched, SameWords
<1>7. ASSUME NEW t \in Workers, Telling!JudgeSwitch(t) PROVE CountKinds'
  BY <1>0, <1>7, JudgeSwitchDoes DEF Untouched, SameWords
<1>8. ASSUME NEW t \in Workers, Telling!NothingToSay(t) PROVE CountKinds'
  BY <1>0, <1>8, NothingToSayDoes DEF Untouched, SameWords
<1>9. ASSUME NEW t \in Workers, Telling!Compare(t) PROVE CountKinds'
  BY <1>0, <1>9, CompareDoes DEF Untouched, SameWords
<1>10. ASSUME NEW t \in Workers, Telling!ReadCommit(t) PROVE CountKinds'
  BY <1>0, <1>10, ReadCommitDoes DEF Untouched, SameWords
<1>11. ASSUME NEW t \in Workers, Telling!Footnote(t) PROVE CountKinds'
  BY <1>0, <1>11, FootnoteDoes DEF Untouched, SameWords
<1>12. ASSUME NEW t \in Workers, Telling!Claim(t) PROVE CountKinds'
  BY <1>0, <1>12, ClaimDoes DEF Untouched, SameWords
<1>13. ASSUME NEW t \in Workers, Telling!Post(t) PROVE CountKinds'
  <2>1. work[t].kept - work[t].said \in Int BY AtWork DEF WorkKinds
  <2> QED BY <1>0, <1>13, <2>1, PostDoes DEF LineLanded
<1>14. ASSUME NEW t \in Workers, Telling!PostFails(t) PROVE CountKinds'
  <2>1. work[t].kept - work[t].said \in Int BY AtWork DEF WorkKinds
  <2> QED BY <1>0, <1>14, <2>1, PostFailsDoes DEF LineLanded
<1>15. ASSUME NEW t \in Workers, Telling!HandBack(t) PROVE CountKinds'
  BY <1>0, <1>15, HandBackDoes DEF Untouched, SameWords
<1>16. ASSUME NEW t \in Workers, Telling!Note(t) PROVE CountKinds'
  BY <1>0, <1>16, NoteDoes DEF Untouched, SameWords
<1>17. ASSUME NEW t \in Workers, Telling!Fails(t) PROVE CountKinds'
  BY <1>0, <1>17, FailsDoes DEF Untouched, SameWords
<1>. QED BY <1>0, <1>1, <1>2, <1>3, <1>4, <1>5, <1>6, <1>7, <1>8, <1>9, <1>10, <1>11, <1>12, <1>13, <1>14, <1>15, <1>16, <1>17, GitHubSends DEF Telling!Next


LEMMA TellKindsHold == TellShapes /\ Telling!Next => TellKinds'
BY OutsideHolds, RowKindsHold, QueuedHold, WorkKindsHold, WordKindsHold, PastKindsHold, CountKindsHold
   DEF TellKinds, Outside, RowSorts, WordKinds, PastKinds, CountKinds, ItemKinds

\* What was sent stays sent, and the row never goes back to an older delivery.
LEMMA NothingOlder ==
  ASSUME TellShapes, Telling!Next
  PROVE  /\ about' = about /\ latest <= latest' /\ item.version <= item'.version
         /\ \A d : Sane(d) => Sane(d)'
<1>0. latest \in Nat /\ item.version \in Nat /\ \A d \in queued : d.v \in Nat
  BY TellParts, DeliveryMade DEF Outside, RowSorts, ItemKinds
<1> DEFINE Later == about' = about /\ latest <= latest' /\ item.version <= item'.version
<1>1. ASSUME NEW d, Sends(d) PROVE Later BY <1>0, <1>1 DEF Sends, Untouched, SameOutside, Newer
<1>2. ASSUME Telling!Choose PROVE Later
  <2>1. UNCHANGED <<about, latest>> /\ item'.version = item.version
    BY <1>2, ChooseDoes DEF Untouched, SameOutside
  <2> QED BY <1>0, <2>1 DEF Newer
<1>3. ASSUME Telling!Lose PROVE Later
  <2>1. UNCHANGED <<about, latest>> /\ item'.version = item.version
    BY <1>3, LoseDoes DEF Untouched, SameOutside
  <2> QED BY <1>0, <2>1 DEF Newer
<1>4. ASSUME Telling!DiesOpening PROVE Later
  <2>1. UNCHANGED <<about, latest>> /\ \E d \in queued : item'.version = Newer(d.v, item.version)
    BY <1>4, DiesOpeningDoes DEF Untouched, SameOutside
  <2> QED BY <1>0, <2>1 DEF Newer
<1>5. ASSUME NEW t \in Workers, Telling!Sync(t) PROVE Later
  BY <1>0, <1>5, LineSyncDoes DEF Untouched, SameOutside, Newer
<1>6. ASSUME NEW t \in Workers, Telling!JudgeLabel(t) PROVE Later
  <2>1. UNCHANGED <<about, latest, item>> BY <1>6, JudgeLabelDoes DEF Untouched, SameOutside
  <2> QED BY <1>0, <2>1 DEF Newer
<1>7. ASSUME NEW t \in Workers, Telling!JudgeSwitch(t) PROVE Later
  <2>1. UNCHANGED <<about, latest, item>> BY <1>7, JudgeSwitchDoes DEF Untouched, SameOutside
  <2> QED BY <1>0, <2>1 DEF Newer
<1>8. ASSUME NEW t \in Workers, Telling!NothingToSay(t) PROVE Later
  <2>1. UNCHANGED <<about, latest, item>> BY <1>8, NothingToSayDoes DEF Untouched, SameOutside
  <2> QED BY <1>0, <2>1 DEF Newer
<1>9. ASSUME NEW t \in Workers, Telling!Compare(t) PROVE Later
  <2>1. UNCHANGED <<about, latest, item>> BY <1>9, CompareDoes DEF Untouched, SameOutside
  <2> QED BY <1>0, <2>1 DEF Newer
<1>10. ASSUME NEW t \in Workers, Telling!ReadCommit(t) PROVE Later
  <2>1. UNCHANGED <<about, latest, item>> BY <1>10, ReadCommitDoes DEF Untouched, SameOutside
  <2> QED BY <1>0, <2>1 DEF Newer
<1>11. ASSUME NEW t \in Workers, Telling!Footnote(t) PROVE Later
  <2>1. UNCHANGED <<about, latest, item>> BY <1>11, FootnoteDoes DEF Untouched, SameOutside
  <2> QED BY <1>0, <2>1 DEF Newer
<1>12. ASSUME NEW t \in Workers, Telling!Claim(t) PROVE Later
  BY <1>0, <1>12, ClaimDoes DEF Untouched, SameOutside, Newer
<1>13. ASSUME NEW t \in Workers, Telling!Post(t) PROVE Later
  BY <1>0, <1>13, PostDoes DEF Untouched, SameOutside, Newer
<1>14. ASSUME NEW t \in Workers, Telling!PostFails(t) PROVE Later
  BY <1>0, <1>14, PostFailsDoes DEF Untouched, SameOutside, Newer
<1>15. ASSUME NEW t \in Workers, Telling!HandBack(t) PROVE Later
  BY <1>0, <1>15, HandBackDoes DEF Untouched, SameOutside, Newer
<1>16. ASSUME NEW t \in Workers, Telling!Note(t) PROVE Later
  BY <1>0, <1>16, NoteDoes DEF Untouched, SameOutside, Newer
<1>17. ASSUME NEW t \in Workers, Telling!Fails(t) PROVE Later
  BY <1>0, <1>17, FailsDoes DEF Untouched, SameOutside, Newer
<1>18. Later
  BY <1>0, <1>1, <1>2, <1>3, <1>4, <1>5, <1>6, <1>7, <1>8, <1>9, <1>10, <1>11, <1>12, <1>13, <1>14, <1>15, <1>16, <1>17, GitHubSends DEF Telling!Next
<1>19. ASSUME NEW d, Sane(d) PROVE Sane(d)'
  <2>1. Whats' = Whats BY <1>18 DEF Whats
  <2> QED BY <1>0, <1>18, <1>19, <2>1, OutsideHolds DEF Sane, Outside
<1>. QED BY <1>18, <1>19

\* What a key says of the delivery it is for.
LEMMA KeySays ==
  ASSUME NEW w, KeyIsFor(w)
  PROVE  /\ w.key[1] = "label" => Telling!Moves(w.of) /\ w.key[2] = w.of.v
         /\ w.key[1] \in Telling!Halves => w.of.what = w.key[1] /\ w.key[2] = w.of.v
         /\ w.key[1] = "force-push" => w.of.what = "rewritten" /\ w.key[2] = w.of.v
         /\ w.key[1] = "commits-left" => w.of.what = "pushed" /\ w.key[2] = w.of.v
         /\ w.key[1] = "commit" => w.of.what = "pushed" /\ w.key[2] \in Telling!Own(w.of) \ w.todo
         /\ w.key = <<w.key[1], w.key[2]>> BY DEF KeyIsFor, Telling!Halves

LEMMA RestedWell == ASSUME NEW t \in Workers, Rested(t) PROVE Held(work'[t])
BY DEF Rested, Held, Speaking

LEMMA GoesOnWell ==
  ASSUME TellShapes, NEW t \in Workers, NEW s \in {"posting", "handing_back"}, work[t].step \in Speaking,
         Goes(t, s, work[t].key, work[t].todo, work[t].said)
  PROVE  Held(work'[t]) /\ Occupied(t)
<1>1. Held(work[t]) /\ Occupied(t) /\ KeyIsFor(work[t]) BY AtWork DEF Occupied, Speaking
<1>2. /\ work'[t].of = work[t].of /\ work'[t].thread = work[t].thread /\ work'[t].key = work[t].key
      /\ work'[t].todo = work[t].todo /\ work'[t].step = s BY DEF Goes, Keeps
<1>3. KeyIsFor(work'[t]) BY <1>1, <1>2 DEF KeyIsFor
<1>4. s \in Speaking /\ s \notin {"idle", "judging", "reading", "noting"} BY DEF Speaking
<1>. QED BY <1>1, <1>2, <1>3, <1>4 DEF Held, Occupied

LEMMA SpeaksWell ==
  ASSUME TellShapes, NEW t \in Workers, Occupied(t), NEW k, NEW left, NEW said, Goes(t, "claiming", k, left, said), k # NULL,
         left \subseteq work[t].todo,
         \E w : w.of = work[t].of /\ w.key = k /\ w.todo = left /\ KeyIsFor(w)
  PROVE  Held(work'[t])
<1>1. Held(work[t]) BY AtWork
<1>2. /\ work'[t].of = work[t].of /\ work'[t].thread = work[t].thread /\ work'[t].key = k
      /\ work'[t].todo = left /\ work'[t].step = "claiming" BY DEF Goes, Keeps
<1>3. KeyIsFor(work'[t]) BY <1>2 DEF KeyIsFor
<1>. QED BY <1>1, <1>2, <1>3 DEF Held, Occupied, Speaking

LEMMA FollowedWell ==
  ASSUME TellShapes, NEW t \in Workers, work[t].step \in Speaking, Followed(t)
  PROVE  Held(work'[t]) /\ Occupied(t) /\ OnlyMoves(t) /\ (work'[t].step = "idle" \/ work'[t].of = work[t].of)
<1>1. Held(work[t]) /\ Occupied(t) /\ KeyIsFor(work[t]) BY AtWork DEF Occupied, Speaking
<1>2. CASE Rested(t) BY <1>1, <1>2, RestedWell DEF Rested
<1>3. CASE work[t].key[1] = "label" /\ Goes(t, "noting", NULL, work[t].todo, work[t].said)
  <2>1. Telling!Moves(work[t].of) BY <1>1, <1>3, KeySays
  <2> QED BY <1>1, <1>3, <2>1 DEF Goes, Keeps, Held, Occupied, Speaking
<1>4. CASE work[t].key[1] = "commit" /\ Goes(t, "reading", NULL, work[t].todo, work[t].said + 1)
  <2>1. work[t].of.what = "pushed" BY <1>1, <1>4, KeySays
  <2> QED BY <1>1, <1>4, <2>1 DEF Goes, Keeps, Held, Occupied, Speaking
<1>. QED BY <1>2, <1>3, <1>4 DEF Followed

\* It is enough to look at the one who moved.
LEMMA PlacesByOne ==
  ASSUME TellShapes, Telling!Next, NEW t \in Workers, OnlyMoves(t), Held(work'[t]),
         \/ work'[t].step = "idle"
         \/ Occupied(t) /\ work'[t].of = work[t].of
         \/ work'[t].of \in queued /\ work'[t].of.v <= item'.version
  PROVE  WorkPlaces'
<1>1. ASSUME NEW u \in Workers PROVE Held(work'[u]) /\ (work'[u].step # "idle" => Sane(work[u].of)' /\ work'[u].of.v <= item'.version)
  <2>1. /\ item.version \in Nat /\ item'.version \in Nat /\ item.version <= item'.version
    BY NothingOlder, TellParts, RowKindsHold DEF RowSorts, ItemKinds
  <2>2. Occupied(u) => work[u].of \in Telling!Deliveries /\ work[u].of.v \in Nat /\ Sane(work[u].of) /\ work[u].of.v <= item.version
    BY AtWork, DeliveryMade
  <2>3. \A d \in queued : Sane(d) BY DEF TellShapes
  <2>4. CASE u # t BY <2>1, <2>2, <2>4, AtWork, NothingOlder DEF OnlyMoves, Occupied, Sane
  <2>5. CASE u = t BY <2>1, <2>2, <2>3, <2>5, NothingOlder DEF Sane
  <2> QED BY <2>4, <2>5
<1>. QED BY <1>1 DEF WorkPlaces, Occupied

LEMMA PlacesByNone == ASSUME TellShapes, Telling!Next, work' = work PROVE WorkPlaces'
<1>1. ASSUME NEW u \in Workers PROVE Held(work'[u]) /\ (work'[u].step # "idle" => Sane(work[u].of)' /\ work'[u].of.v <= item'.version)
  <2>1. /\ item.version \in Nat /\ item'.version \in Nat /\ item.version <= item'.version
    BY NothingOlder, TellParts, RowKindsHold DEF RowSorts, ItemKinds
  <2>2. Occupied(u) => work[u].of \in Telling!Deliveries /\ work[u].of.v \in Nat /\ Sane(work[u].of) /\ work[u].of.v <= item.version
    BY AtWork, DeliveryMade
  <2> QED BY <2>1, <2>2, AtWork, NothingOlder DEF Occupied, Sane
<1>. QED BY <1>1 DEF WorkPlaces, Occupied

LEMMA WorkPlacesHold == TellShapes /\ Telling!Next => WorkPlaces'
<1>. SUFFICES ASSUME TellShapes, Telling!Next PROVE WorkPlaces' OBVIOUS
<1>1. ASSUME NEW d, Sends(d) PROVE WorkPlaces' BY <1>1, PlacesByNone DEF Sends
<1>2. CASE Telling!Choose BY <1>2, ChooseDoes, PlacesByNone
<1>3. CASE Telling!Lose BY <1>3, LoseDoes, PlacesByNone
<1>4. CASE Telling!DiesOpening BY <1>4, DiesOpeningDoes, PlacesByNone
<1>5. ASSUME NEW t \in Workers, Telling!Sync(t) PROVE WorkPlaces'
  <2>1. PICK d \in queued :
            /\ OnlyMoves(t) /\ work'[t].step = "judging" /\ work'[t].key = NULL /\ work'[t].todo = {} /\ work'[t].said = 0
            /\ work'[t].of = d /\ work'[t].thread = item'.thread /\ item'.version = Newer(d.v, item.version)
            /\ (item'.thread = newest + 1 \/ item'.thread # 0)
    BY <1>5, LineSyncDoes
  <2>2. d \in Telling!Deliveries /\ d.v \in Nat /\ d # NULL /\ newest \in Nat /\ item.version \in Nat
    BY TellParts, DeliveryMade, TellSorts DEF RowSorts, ItemKinds
  <2>3. Held(work'[t]) BY <2>1, <2>2 DEF Held, Speaking
  <2>4. d.v <= item'.version BY <2>1, <2>2 DEF Newer
  <2> QED BY <2>1, <2>3, <2>4, PlacesByOne
<1>6. ASSUME NEW t \in Workers, Telling!JudgeLabel(t) PROVE WorkPlaces'
  <2>1. Occupied(t) /\ work[t].of \in Telling!Deliveries /\ work[t].of.v \in Nat
    BY <1>6, JudgeLabelDoes, AtWork, DeliveryMade DEF Occupied
  <2>2. CASE Rested(t) BY <2>2, RestedWell, PlacesByOne DEF Rested
  <2>3. CASE Goes(t, "noting", work[t].key, work[t].todo, work[t].said)
    <3>1. Held(work[t]) /\ work[t].step = "judging" /\ Telling!Moves(work[t].of)
      BY <1>6, JudgeLabelDoes, AtWork
    <3>2. Held(work'[t]) BY <2>1, <2>3, <3>1 DEF Goes, Keeps, Held, Occupied, Speaking
    <3> QED BY <2>1, <2>3, <3>2, PlacesByOne DEF Goes, Keeps
  <2>4. CASE Speaks(t, <<"label", work[t].of.v>>)
    <3>1. <<"label", work[t].of.v>> # NULL BY <2>1, KeysAreKeys
    <3>2. \E w : w.of = work[t].of /\ w.key = <<"label", work[t].of.v>> /\ w.todo = work[t].todo /\ KeyIsFor(w)
      <4> WITNESS [of |-> work[t].of, key |-> <<"label", work[t].of.v>>, todo |-> work[t].todo]
      <4> QED BY <1>6, JudgeLabelDoes DEF KeyIsFor
    <3>3. Held(work'[t]) BY <2>1, <2>4, <3>1, <3>2, SpeaksWell DEF Speaks
    <3> QED BY <2>1, <2>4, <3>3, PlacesByOne DEF Speaks, Goes, Keeps
  <2> QED BY <1>6, <2>2, <2>3, <2>4, JudgeLabelDoes
<1>7. ASSUME NEW t \in Workers, Telling!JudgeSwitch(t) PROVE WorkPlaces'
  <2>1. Occupied(t) /\ work[t].of \in Telling!Deliveries /\ work[t].of.v \in Nat
    BY <1>7, JudgeSwitchDoes, AtWork, DeliveryMade DEF Occupied
  <2>2. CASE Rested(t) BY <2>2, RestedWell, PlacesByOne DEF Rested
  <2>3. CASE Speaks(t, <<work[t].of.what, work[t].of.v>>)
    <3>1. <<work[t].of.what, work[t].of.v>> # NULL
      BY <1>7, <2>1, JudgeSwitchDoes, KeysAreKeys DEF Telling!Halves
    <3>2. \E w : w.of = work[t].of /\ w.key = <<work[t].of.what, work[t].of.v>> /\ w.todo = work[t].todo /\ KeyIsFor(w)
      <4> WITNESS [of |-> work[t].of, key |-> <<work[t].of.what, work[t].of.v>>, todo |-> work[t].todo]
      <4> QED BY <1>7, JudgeSwitchDoes DEF KeyIsFor
    <3>3. Held(work'[t]) BY <2>1, <2>3, <3>1, <3>2, SpeaksWell DEF Speaks
    <3> QED BY <2>1, <2>3, <3>3, PlacesByOne DEF Speaks, Goes, Keeps
  <2> QED BY <1>7, <2>2, <2>3, JudgeSwitchDoes
<1>8. ASSUME NEW t \in Workers, Telling!NothingToSay(t) PROVE WorkPlaces'
  BY <1>8, NothingToSayDoes, RestedWell, PlacesByOne DEF Rested
<1>9. ASSUME NEW t \in Workers, Telling!Compare(t) PROVE WorkPlaces'
  <2>1. Occupied(t) /\ work[t].of \in Telling!Deliveries /\ work[t].of.v \in Nat
    BY <1>9, CompareDoes, AtWork, DeliveryMade DEF Occupied
  <2>2. CASE Rested(t) BY <2>2, RestedWell, PlacesByOne DEF Rested
  <2>3. CASE work[t].of.what = "rewritten" /\ Speaks(t, <<"force-push", work[t].of.v>>)
    <3>1. <<"force-push", work[t].of.v>> # NULL BY <1>9, <2>1, CompareDoes, KeysAreKeys DEF Telling!Halves
    <3>2. \E w : w.of = work[t].of /\ w.key = <<"force-push", work[t].of.v>> /\ w.todo = work[t].todo /\ KeyIsFor(w)
      <4> WITNESS [of |-> work[t].of, key |-> <<"force-push", work[t].of.v>>, todo |-> work[t].todo]
      <4> QED BY <1>9, <2>3, CompareDoes DEF KeyIsFor
    <3>3. Held(work'[t]) BY <2>1, <2>3, <3>1, <3>2, SpeaksWell DEF Speaks
    <3> QED BY <2>1, <2>3, <3>3, PlacesByOne DEF Speaks, Goes, Keeps
  <2>4. CASE /\ work[t].of.what = "pushed" /\ OnlyMoves(t)
             /\ work'[t].step = "reading" /\ work'[t].key = work[t].key /\ work'[t].of = work[t].of
             /\ work'[t].thread = work[t].thread /\ work'[t].todo = Telling!Wanted(work[t].of)
    <3>1. Held(work[t]) /\ work[t].step = "judging" /\ Telling!Wanted(work[t].of) \subseteq Telling!Own(work[t].of)
      BY <1>9, CompareDoes, AtWork DEF Telling!Wanted
    <3>2. Held(work'[t]) BY <2>1, <2>4, <3>1 DEF Held, Occupied, Speaking
    <3> QED BY <2>1, <2>4, <3>2, PlacesByOne
  <2> QED BY <1>9, <2>2, <2>3, <2>4, CompareDoes
<1>10. ASSUME NEW t \in Workers, Telling!ReadCommit(t) PROVE WorkPlaces'
  <2>1. Occupied(t) /\ work[t].of \in Telling!Deliveries /\ work[t].of.v \in Nat
    BY <1>10, ReadCommitDoes, AtWork, DeliveryMade DEF Occupied
  <2>2. PICK c \in work[t].todo :
            \/ Goes(t, "claiming", <<"commit", c>>, work[t].todo \ {c}, work[t].said)
            \/ Goes(t, "reading", work[t].key, work[t].todo \ {c}, work[t].said)
    BY <1>10, ReadCommitDoes
  <2>3. Held(work[t]) /\ work[t].step = "reading" /\ work[t].of.what = "pushed" /\ work[t].todo \subseteq Telling!Own(work[t].of)
    BY <1>10, ReadCommitDoes, AtWork DEF Held
  <2>4. CASE Goes(t, "reading", work[t].key, work[t].todo \ {c}, work[t].said)
    <3>1. Held(work'[t]) BY <2>1, <2>3, <2>4 DEF Goes, Keeps, Held, Occupied, Speaking
    <3> QED BY <2>1, <2>4, <3>1, PlacesByOne DEF Goes, Keeps
  <2>5. CASE Goes(t, "claiming", <<"commit", c>>, work[t].todo \ {c}, work[t].said)
    <3>1. <<"commit", c>> # NULL BY <2>1, <2>3, DeliveryMade, TellSorts, KeysAreKeys
    <3>2. \E w : w.of = work[t].of /\ w.key = <<"commit", c>> /\ w.todo = work[t].todo \ {c} /\ KeyIsFor(w)
      <4> WITNESS [of |-> work[t].of, key |-> <<"commit", c>>, todo |-> work[t].todo \ {c}]
      <4> QED BY <2>3 DEF KeyIsFor
    <3>3. Held(work'[t]) BY <2>1, <2>5, <3>1, <3>2, SpeaksWell
    <3> QED BY <2>1, <2>5, <3>3, PlacesByOne DEF Goes, Keeps
  <2> QED BY <2>2, <2>4, <2>5
<1>11. ASSUME NEW t \in Workers, Telling!Footnote(t) PROVE WorkPlaces'
  <2>1. Occupied(t) /\ work[t].of \in Telling!Deliveries /\ work[t].of.v \in Nat
    BY <1>11, FootnoteDoes, AtWork, DeliveryMade DEF Occupied
  <2>2. CASE Rested(t) BY <2>2, RestedWell, PlacesByOne DEF Rested
  <2>3. CASE Speaks(t, <<"commits-left", work[t].of.v>>)
    <3>0. work[t].of.what = "pushed" BY <1>11, FootnoteDoes, AtWork DEF Held
    <3>1. <<"commits-left", work[t].of.v>> # NULL BY <1>11, <2>1, FootnoteDoes, KeysAreKeys DEF Telling!Halves
    <3>2. \E w : w.of = work[t].of /\ w.key = <<"commits-left", work[t].of.v>> /\ w.todo = work[t].todo /\ KeyIsFor(w)
      <4> WITNESS [of |-> work[t].of, key |-> <<"commits-left", work[t].of.v>>, todo |-> work[t].todo]
      <4> QED BY <1>11, <3>0, FootnoteDoes DEF KeyIsFor
    <3>3. Held(work'[t]) BY <2>1, <2>3, <3>1, <3>2, SpeaksWell DEF Speaks
    <3> QED BY <2>1, <2>3, <3>3, PlacesByOne DEF Speaks, Goes, Keeps
  <2> QED BY <1>11, <2>2, <2>3, FootnoteDoes
<1>12. ASSUME NEW t \in Workers, Telling!Claim(t) PROVE WorkPlaces'
  <2>1. work[t].step = "claiming" /\ work[t].step \in Speaking BY <1>12, ClaimDoes DEF Speaking
  <2>2. CASE Followed(t) BY <2>1, <2>2, FollowedWell, PlacesByOne
  <2>3. CASE Goes(t, "posting", work[t].key, work[t].todo, work[t].said)
    BY <2>1, <2>3, GoesOnWell, PlacesByOne DEF Goes, Keeps
  <2> QED BY <1>12, <2>2, <2>3, ClaimDoes
<1>13. ASSUME NEW t \in Workers, Telling!Post(t) PROVE WorkPlaces'
  BY <1>13, PostDoes, FollowedWell, PlacesByOne DEF Speaking
<1>14. ASSUME NEW t \in Workers, Telling!PostFails(t) PROVE WorkPlaces'
  BY <1>14, PostFailsDoes, GoesOnWell, PlacesByOne DEF Speaking, Goes, Keeps
<1>15. ASSUME NEW t \in Workers, Telling!HandBack(t) PROVE WorkPlaces'
  BY <1>15, HandBackDoes, RestedWell, PlacesByOne DEF Rested
<1>16. ASSUME NEW t \in Workers, Telling!Note(t) PROVE WorkPlaces'
  BY <1>16, NoteDoes, RestedWell, PlacesByOne DEF Rested
<1>17. ASSUME NEW t \in Workers, Telling!Fails(t) PROVE WorkPlaces'
  BY <1>17, FailsDoes, RestedWell, PlacesByOne DEF Rested
<1>. QED BY <1>1, <1>2, <1>3, <1>4, <1>5, <1>6, <1>7, <1>8, <1>9, <1>10, <1>11, <1>12, <1>13, <1>14, <1>15, <1>16, <1>17, GitHubSends DEF Telling!Next

\* Whoever goes on with its delivery, or is done with it.
LEMMA OneByOne ==
  ASSUME TellShapes, NEW t \in Workers, OnlyMoves(t), queued' = queued,
         work'[t].step = "idle" \/ (Occupied(t) /\ work'[t].of = work[t].of)
  PROVE  OneOfEach'
<1>1. OneOfEach BY DEF TellShapes
<1>2. \A u \in Workers : work'[u].step # "idle" => Occupied(u) /\ work'[u].of = work[u].of
  BY DEF OnlyMoves, Occupied
<1>. QED BY <1>1, <1>2 DEF OneOfEach, Occupied

LEMMA OneByReturn ==
  ASSUME TellShapes, NEW t \in Workers, OnlyMoves(t), Occupied(t), work'[t].step = "idle", queued' = queued \cup {work[t].of}
  PROVE  OneOfEach'
<1>1. OneOfEach BY DEF TellShapes
<1>2. \A u \in Workers : work'[u].step # "idle" => Occupied(u) /\ work'[u].of = work[u].of /\ u # t
  BY DEF OnlyMoves, Occupied
<1>. QED BY <1>1, <1>2 DEF OneOfEach, Occupied

LEMMA OneOfEachHolds == TellShapes /\ Telling!Next => OneOfEach'
<1>. SUFFICES ASSUME TellShapes, Telling!Next PROVE OneOfEach' OBVIOUS
<1>1. ASSUME NEW d, Sends(d) PROVE OneOfEach'
  <2>1. /\ OneOfEach /\ latest \in Nat /\ \A e \in queued : e.v \in Nat /\ e.v <= latest
        /\ \A u \in Workers : Occupied(u) => work[u].of.v \in Nat /\ work[u].of.v <= latest
    BY TellParts, AtWork DEF TellShapes, Outside, Sane
  <2>2. d.v = latest + 1 /\ queued' = queued \cup {d} /\ work' = work BY <1>1 DEF Sends
  <2> QED BY <2>1, <2>2 DEF OneOfEach, Occupied
<1>2. CASE Telling!Choose BY <1>2, ChooseDoes DEF TellShapes, OneOfEach, Occupied
<1>3. CASE Telling!Lose BY <1>3, LoseDoes DEF TellShapes, OneOfEach, Occupied
<1>4. CASE Telling!DiesOpening BY <1>4, DiesOpeningDoes DEF TellShapes, OneOfEach, Occupied
<1>5. ASSUME NEW t \in Workers, Telling!Sync(t) PROVE OneOfEach'
  <2>1. PICK d \in queued : queued' = queued \ {d} /\ OnlyMoves(t) /\ work'[t].of = d BY <1>5, LineSyncDoes
  <2>2. OneOfEach BY DEF TellShapes
  <2>3. \A u \in Workers \ {t} : work'[u] = work[u] BY <2>1 DEF OnlyMoves
  <2> QED BY <2>1, <2>2, <2>3 DEF OneOfEach, Occupied
<1>6. ASSUME NEW t \in Workers, Telling!JudgeLabel(t) PROVE OneOfEach'
  <2>1. Occupied(t) /\ queued' = queued /\ OnlyMoves(t) /\ (work'[t].step = "idle" \/ work'[t].of = work[t].of)
    BY <1>6, JudgeLabelDoes DEF Occupied, Untouched, Rested, Goes, Speaks, Keeps
  <2> QED BY <2>1, OneByOne
<1>7. ASSUME NEW t \in Workers, Telling!JudgeSwitch(t) PROVE OneOfEach'
  <2>1. Occupied(t) /\ queued' = queued /\ OnlyMoves(t) /\ (work'[t].step = "idle" \/ work'[t].of = work[t].of)
    BY <1>7, JudgeSwitchDoes DEF Occupied, Untouched, Rested, Goes, Speaks, Keeps
  <2> QED BY <2>1, OneByOne
<1>8. ASSUME NEW t \in Workers, Telling!NothingToSay(t) PROVE OneOfEach'
  BY <1>8, NothingToSayDoes, OneByOne DEF Rested, Untouched
<1>9. ASSUME NEW t \in Workers, Telling!Compare(t) PROVE OneOfEach'
  <2>1. Occupied(t) /\ queued' = queued /\ OnlyMoves(t) /\ (work'[t].step = "idle" \/ work'[t].of = work[t].of)
    BY <1>9, CompareDoes DEF Occupied, Untouched, Rested, Goes, Speaks, Keeps
  <2> QED BY <2>1, OneByOne
<1>10. ASSUME NEW t \in Workers, Telling!ReadCommit(t) PROVE OneOfEach'
  <2>1. Occupied(t) /\ queued' = queued /\ OnlyMoves(t) /\ (work'[t].step = "idle" \/ work'[t].of = work[t].of)
    BY <1>10, ReadCommitDoes DEF Occupied, Untouched, Rested, Goes, Speaks, Keeps
  <2> QED BY <2>1, OneByOne
<1>11. ASSUME NEW t \in Workers, Telling!Footnote(t) PROVE OneOfEach'
  <2>1. Occupied(t) /\ queued' = queued /\ OnlyMoves(t) /\ (work'[t].step = "idle" \/ work'[t].of = work[t].of)
    BY <1>11, FootnoteDoes DEF Occupied, Untouched, Rested, Goes, Speaks, Keeps
  <2> QED BY <2>1, OneByOne
<1>12. ASSUME NEW t \in Workers, Telling!Claim(t) PROVE OneOfEach'
  BY <1>12, ClaimDoes, FollowedWell, OneByOne DEF Goes, Keeps, Speaking, Occupied
<1>13. ASSUME NEW t \in Workers, Telling!Post(t) PROVE OneOfEach'
  BY <1>13, PostDoes, FollowedWell, OneByOne DEF Goes, Keeps, Speaking, Occupied
<1>14. ASSUME NEW t \in Workers, Telling!PostFails(t) PROVE OneOfEach'
  BY <1>14, PostFailsDoes, OneByOne DEF Goes, Keeps, Occupied
<1>15. ASSUME NEW t \in Workers, Telling!HandBack(t) PROVE OneOfEach'
  BY <1>15, HandBackDoes, OneByReturn DEF Rested, Occupied
<1>16. ASSUME NEW t \in Workers, Telling!Note(t) PROVE OneOfEach' BY <1>16, NoteDoes, OneByOne DEF Rested
<1>17. ASSUME NEW t \in Workers, Telling!Fails(t) PROVE OneOfEach'
  BY <1>17, FailsDoes, OneByReturn DEF Rested, Occupied
<1>. QED BY <1>1, <1>2, <1>3, <1>4, <1>5, <1>6, <1>7, <1>8, <1>9, <1>10, <1>11, <1>12, <1>13, <1>14, <1>15, <1>16, <1>17, GitHubSends DEF Telling!Next

LEMMA QueuedSane == TellShapes /\ Telling!Next => \A d \in queued' : Sane(d)'
<1>. SUFFICES ASSUME TellShapes, Telling!Next, NEW d \in queued' PROVE Sane(d)' OBVIOUS
<1>1. \A e : Sane(e) => Sane(e)' BY NothingOlder
<1>2. CASE d \in queued BY <1>1, <1>2 DEF TellShapes
<1>3. CASE \E t \in Workers : Occupied(t) /\ d = work[t].of BY <1>1, <1>3, AtWork
<1>4. CASE \E e : Sends(e) /\ d = e BY <1>4 DEF Sends
<1>5. ASSUME NEW e, Sends(e) PROVE Sane(d)' BY <1>2, <1>4, <1>5 DEF Sends
<1>6. CASE queued' = queued BY <1>2, <1>6
<1>7. ASSUME NEW t \in Workers, Telling!Sync(t) \/ Telling!HandBack(t) \/ Telling!Fails(t) PROVE Sane(d)'
  BY <1>2, <1>3, <1>7, LineSyncDoes, HandBackDoes, FailsDoes DEF Occupied
<1>8. ASSUME NEW t \in Workers,
             \/ Telling!JudgeLabel(t) \/ Telling!JudgeSwitch(t) \/ Telling!NothingToSay(t) \/ Telling!Compare(t)
             \/ Telling!ReadCommit(t) \/ Telling!Footnote(t) \/ Telling!Claim(t) \/ Telling!Post(t) \/ Telling!PostFails(t)
             \/ Telling!Note(t)
      PROVE  queued' = queued
  BY <1>8, JudgeLabelDoes, JudgeSwitchDoes, NothingToSayDoes, CompareDoes, ReadCommitDoes, FootnoteDoes,
    ClaimDoes, PostDoes, PostFailsDoes, NoteDoes DEF Untouched
<1>9. Telling!Choose \/ Telling!Lose \/ Telling!DiesOpening => queued' = queued
  BY ChooseDoes, LoseDoes, DiesOpeningDoes
<1>. QED BY <1>5, <1>6, <1>7, <1>8, <1>9, GitHubSends DEF Telling!Next

LEMMA TellShapesHold == TellShapes /\ Telling!Next => TellShapes'
BY TellKindsHold, WorkPlacesHold, OneOfEachHolds, ThreadsMadeHold, QueuedSane, VersionHolds DEF TellShapes

----
\* A line is claimed by one, and said once.

HoldsClaim(t) == work[t].step \in {"posting", "handing_back"}

Claims ==
    /\ \A t \in Workers : HoldsClaim(t) =>
          /\ work[t].key \in spoken
          /\ work[t].key \in DOMAIN told => work[t].key \in dropped
    /\ \A t, u \in Workers : HoldsClaim(t) /\ HoldsClaim(u) /\ work[t].key = work[u].key => t = u
    /\ \A k \in spoken : k \in DOMAIN told \cup dropped \/ \E t \in Workers : HoldsClaim(t) /\ work[t].key = k
    /\ DOMAIN told \subseteq spoken \cup dropped
    /\ \A k \in DOMAIN told : told[k] = 1 \/ k \in dropped
    /\ \A k \in DOMAIN told : k[1] # "commit" => k[2] <= latest

LEMMA ClaimsAtFirst == Telling!Init => Claims
<1>. SUFFICES ASSUME Telling!Init PROVE Claims OBVIOUS
<1>1. spoken = {} /\ DOMAIN told = {} /\ \A t \in Workers : work[t].step = "idle"
  BY DEF Telling!Init, Telling!AtRest
<1>. QED BY <1>1 DEF Claims, HoldsClaim

\* Nobody takes a claim or lets go of one.
LEMMA ClaimsKept ==
  ASSUME TellShapes, Claims, Telling!Next, UNCHANGED <<spoken, told, dropped>>,
         \A t \in Workers : HoldsClaim(t)' <=> HoldsClaim(t),
         \A t \in Workers : HoldsClaim(t) => work'[t].key = work[t].key
  PROVE  Claims'
<1>1. latest <= latest' /\ latest \in Nat /\ latest' \in Nat /\ \A k \in DOMAIN told : k[2] \in Nat
  BY NothingOlder, OutsideHolds, TellParts, KeysMade DEF Outside, WordKinds
<1>. QED BY <1>1 DEF Claims, HoldsClaim

LEMMA FollowedLetsGo == ASSUME NEW t \in Workers, Followed(t) PROVE OnlyMoves(t) /\ ~HoldsClaim(t)'
BY DEF Followed, Rested, Goes, HoldsClaim

\* A line is of a delivery that was sent.
LEMMA KeyIsOfItsTime ==
  ASSUME TellShapes, NEW t \in Workers, work[t].step \in Speaking
  PROVE  work[t].key[1] # "commit" => work[t].key[2] = work[t].of.v /\ work[t].key[2] <= latest
<1>1. KeyIsFor(work[t]) /\ work[t].key \in Telling!LineKeys /\ work[t].of \in Telling!Deliveries /\ Sane(work[t].of)
  BY AtWork DEF Speaking, Occupied
<1>2. work[t].key[1] \in {"label", "commit", "commits-left", "force-push"} \cup Telling!Halves
  BY <1>1 DEF Telling!LineKeys
<1>3. work[t].key[1] # "commit" => work[t].key[2] = work[t].of.v BY <1>1, <1>2, KeySays
<1>. QED BY <1>1, <1>3, DeliveryMade DEF Sane

LEMMA ClaimsHold == TellShapes /\ Claims /\ Telling!Next => Claims'
<1>. SUFFICES ASSUME TellShapes /\ Claims, Telling!Next PROVE Claims' OBVIOUS
<1>1. ASSUME NEW d, Sends(d) PROVE Claims' BY <1>1, ClaimsKept DEF Sends, SameWords, HoldsClaim
<1>2. CASE Telling!Choose BY <1>2, ChooseDoes, ClaimsKept DEF SameWords, HoldsClaim
<1>3. CASE Telling!Lose BY <1>3, LoseDoes, ClaimsKept DEF SameWords, HoldsClaim
<1>4. CASE Telling!DiesOpening BY <1>4, DiesOpeningDoes, ClaimsKept DEF SameWords, HoldsClaim
<1>5. ASSUME NEW t \in Workers, Telling!Sync(t) PROVE Claims'
  <2>1. work[t].step = "idle" /\ work'[t].step = "judging" /\ OnlyMoves(t) /\ UNCHANGED <<spoken, told, dropped>>
    BY <1>5, LineSyncDoes DEF SameWords
  <2> QED BY <2>1, ClaimsKept DEF OnlyMoves, HoldsClaim
<1>6. ASSUME NEW t \in Workers, Telling!JudgeLabel(t) PROVE Claims'
  <2>1. ~HoldsClaim(t) /\ ~HoldsClaim(t)' /\ OnlyMoves(t) /\ UNCHANGED <<spoken, told, dropped>>
    BY <1>6, JudgeLabelDoes DEF Untouched, SameWords, Rested, Goes, Speaks, HoldsClaim
  <2> QED BY <2>1, ClaimsKept DEF OnlyMoves, HoldsClaim
<1>7. ASSUME NEW t \in Workers, Telling!JudgeSwitch(t) PROVE Claims'
  <2>1. ~HoldsClaim(t) /\ ~HoldsClaim(t)' /\ OnlyMoves(t) /\ UNCHANGED <<spoken, told, dropped>>
    BY <1>7, JudgeSwitchDoes DEF Untouched, SameWords, Rested, Goes, Speaks, HoldsClaim
  <2> QED BY <2>1, ClaimsKept DEF OnlyMoves, HoldsClaim
<1>8. ASSUME NEW t \in Workers, Telling!NothingToSay(t) PROVE Claims'
  <2>1. ~HoldsClaim(t) /\ ~HoldsClaim(t)' /\ OnlyMoves(t) /\ UNCHANGED <<spoken, told, dropped>>
    BY <1>8, NothingToSayDoes DEF Untouched, SameWords, Rested, Goes, Speaks, HoldsClaim
  <2> QED BY <2>1, ClaimsKept DEF OnlyMoves, HoldsClaim
<1>9. ASSUME NEW t \in Workers, Telling!Compare(t) PROVE Claims'
  <2>1. ~HoldsClaim(t) /\ ~HoldsClaim(t)' /\ OnlyMoves(t) /\ UNCHANGED <<spoken, told, dropped>>
    BY <1>9, CompareDoes DEF Untouched, SameWords, Rested, Goes, Speaks, HoldsClaim
  <2> QED BY <2>1, ClaimsKept DEF OnlyMoves, HoldsClaim
<1>10. ASSUME NEW t \in Workers, Telling!ReadCommit(t) PROVE Claims'
  <2>1. ~HoldsClaim(t) /\ ~HoldsClaim(t)' /\ OnlyMoves(t) /\ UNCHANGED <<spoken, told, dropped>>
    BY <1>10, ReadCommitDoes DEF Untouched, SameWords, Rested, Goes, Speaks, HoldsClaim
  <2> QED BY <2>1, ClaimsKept DEF OnlyMoves, HoldsClaim
<1>11. ASSUME NEW t \in Workers, Telling!Footnote(t) PROVE Claims'
  <2>1. ~HoldsClaim(t) /\ ~HoldsClaim(t)' /\ OnlyMoves(t) /\ UNCHANGED <<spoken, told, dropped>>
    BY <1>11, FootnoteDoes DEF Untouched, SameWords, Rested, Goes, Speaks, HoldsClaim
  <2> QED BY <2>1, ClaimsKept DEF OnlyMoves, HoldsClaim
<1>12. ASSUME NEW t \in Workers, Telling!Claim(t) PROVE Claims'
  <2>1. work[t].step = "claiming" /\ ~HoldsClaim(t) /\ UNCHANGED <<told, dropped, latest>>
    BY <1>12, ClaimDoes DEF HoldsClaim, SameOutside
  <2>2. CASE spoken' = spoken /\ Followed(t)
    BY <2>1, <2>2, FollowedLetsGo, ClaimsKept DEF OnlyMoves, HoldsClaim
  <2>3. CASE /\ work[t].key \notin spoken /\ spoken' = spoken \cup {work[t].key}
             /\ Goes(t, "posting", work[t].key, work[t].todo, work[t].said)
    <3>1. work'[t].step = "posting" /\ work'[t].key = work[t].key /\ \A u \in Workers \ {t} : work'[u] = work[u]
      BY <2>3 DEF Goes, OnlyMoves
    <3> QED BY <2>1, <2>3, <3>1 DEF Claims, HoldsClaim
  <2> QED BY <1>12, <2>2, <2>3, ClaimDoes
<1>13. ASSUME NEW t \in Workers, Telling!Post(t) PROVE Claims'
  <2>1. /\ HoldsClaim(t) /\ ~HoldsClaim(t)' /\ \A u \in Workers \ {t} : work'[u] = work[u]
    BY <1>13, PostDoes, FollowedLetsGo DEF HoldsClaim, OnlyMoves
  <2>2. /\ DOMAIN told' = DOMAIN told \cup {work[t].key}
        /\ work[t].key \notin DOMAIN told => told'[work[t].key] = 1
        /\ \A j \in DOMAIN told \ {work[t].key} : told'[j] = told[j]
        /\ UNCHANGED <<spoken, dropped, latest>>
    BY <1>13, PostDoes DEF LineLanded, SameOutside
  <2>3. work[t].key[1] # "commit" => work[t].key[2] <= latest BY <1>13, PostDoes, KeyIsOfItsTime DEF Speaking
  <2> QED BY <2>1, <2>2, <2>3 DEF Claims, HoldsClaim
<1>14. ASSUME NEW t \in Workers, Telling!PostFails(t) PROVE Claims'
  <2>1. /\ HoldsClaim(t) /\ HoldsClaim(t)' /\ work'[t].key = work[t].key /\ \A u \in Workers \ {t} : work'[u] = work[u]
    BY <1>14, PostFailsDoes DEF HoldsClaim, Goes, OnlyMoves
  <2>2. UNCHANGED <<spoken, latest>> BY <1>14, PostFailsDoes DEF SameOutside
  <2>3. work[t].key[1] # "commit" => work[t].key[2] <= latest
    BY <1>14, PostFailsDoes, KeyIsOfItsTime DEF Speaking
  <2>4. CASE UNCHANGED <<told, dropped>> BY <2>1, <2>2, <2>4 DEF Claims, HoldsClaim
  <2>5. CASE LineLanded(t) /\ dropped' = dropped \cup {work[t].key}
    <3>1. /\ DOMAIN told' = DOMAIN told \cup {work[t].key}
          /\ \A j \in DOMAIN told \ {work[t].key} : told'[j] = told[j]
      BY <2>5 DEF LineLanded
    <3> QED BY <2>1, <2>2, <2>3, <2>5, <3>1 DEF Claims, HoldsClaim
  <2> QED BY <1>14, <2>4, <2>5, PostFailsDoes
<1>15. ASSUME NEW t \in Workers, Telling!HandBack(t) PROVE Claims'
  <2>1. /\ HoldsClaim(t) /\ ~HoldsClaim(t)' /\ \A u \in Workers \ {t} : work'[u] = work[u]
        /\ UNCHANGED <<told, latest>>
    BY <1>15, HandBackDoes DEF HoldsClaim, Rested, OnlyMoves, SameOutside
  <2>2. \/ spoken' = spoken \ {work[t].key} /\ dropped' = dropped
        \/ spoken' = spoken /\ dropped' = dropped \cup {work[t].key}
    BY <1>15, HandBackDoes
  <2> QED BY <2>1, <2>2 DEF Claims, HoldsClaim
<1>16. ASSUME NEW t \in Workers, Telling!Note(t) PROVE Claims'
  <2>1. ~HoldsClaim(t) /\ ~HoldsClaim(t)' /\ OnlyMoves(t) /\ UNCHANGED <<spoken, told, dropped>>
    BY <1>16, NoteDoes DEF Untouched, SameWords, Rested, Goes, Speaks, HoldsClaim
  <2> QED BY <2>1, ClaimsKept DEF OnlyMoves, HoldsClaim
<1>17. ASSUME NEW t \in Workers, Telling!Fails(t) PROVE Claims'
  <2>1. Rested(t) /\ UNCHANGED <<spoken, told, latest>> BY <1>17, FailsDoes DEF SameOutside
  <2>2. /\ ~HoldsClaim(t)' /\ \A u \in Workers \ {t} : work'[u] = work[u]
    BY <2>1 DEF HoldsClaim, Rested, OnlyMoves
  <2>3. CASE HoldsClaim(t) /\ dropped' = dropped \cup {work[t].key} BY <2>1, <2>2, <2>3 DEF Claims, HoldsClaim
  <2>4. CASE ~HoldsClaim(t) /\ dropped' = dropped BY <2>1, <2>2, <2>4, ClaimsKept DEF HoldsClaim
  <2> QED BY <1>17, <2>3, <2>4, FailsDoes DEF HoldsClaim
<1>. QED BY <1>1, <1>2, <1>3, <1>4, <1>5, <1>6, <1>7, <1>8, <1>9, <1>10, <1>11, <1>12, <1>13, <1>14, <1>15, <1>16, <1>17, GitHubSends DEF Telling!Next

----
\* Not more is said of a push than there is room for.

\* The last n of a set of numbers are no more than n.
LEMMA LastOnes ==
  ASSUME NEW S, S \subseteq Nat, IsFiniteSet(S), NEW n \in Nat
  PROVE  LET L == {c \in S : Cardinality({b \in S : b > c}) < n} IN IsFiniteSet(L) /\ Cardinality(L) <= n
<1> DEFINE After(c) == {b \in S : b > c}
           L == {c \in S : Cardinality(After(c)) < n}
           f == [c \in L |-> Cardinality(After(c)) + 1]
<1>1. \A c \in S : IsFiniteSet(After(c)) /\ Cardinality(After(c)) \in Nat
  <2>. SUFFICES ASSUME NEW c \in S PROVE IsFiniteSet(After(c)) /\ Cardinality(After(c)) \in Nat OBVIOUS
  <2>1. After(c) \in SUBSET S OBVIOUS
  <2>2. IsFiniteSet(After(c)) BY <2>1, FS_Subset
  <2>. QED BY <2>2, FS_CardinalityType
<1>2. ASSUME NEW c \in S, NEW e \in S, c < e PROVE Cardinality(After(c)) # Cardinality(After(e))
  <2>0. \A b \in S : b \in Nat OBVIOUS
  <2>1. After(e) \in SUBSET After(c) /\ e \in After(c) /\ e \notin After(e)
    <3>1. \A b \in S : b > e => b > c BY <1>2, <2>0
    <3>2. e > c /\ ~(e > e) BY <1>2, <2>0
    <3>. QED BY <3>1, <3>2
  <2>2. After(e) # After(c) BY <2>1
  <2>3. IsFiniteSet(After(c)) BY <1>1
  <2> HIDE DEF After
  <2>. QED BY <2>1, <2>2, <2>3, FS_Subset
<1>3. f \in [L -> 1..n]
  <2>. SUFFICES ASSUME NEW c \in L PROVE Cardinality(After(c)) + 1 \in 1..n OBVIOUS
  <2>1. Cardinality(After(c)) \in Nat /\ Cardinality(After(c)) < n BY <1>1
  <2> HIDE DEF After
  <2>. QED BY <2>1
<1>4. \A c, e \in L : f[c] = f[e] => c = e
  <2>. SUFFICES ASSUME NEW c \in L, NEW e \in L, f[c] = f[e], c # e PROVE FALSE OBVIOUS
  <2>1. c < e \/ e < c OBVIOUS
  <2>2. Cardinality(After(c)) = Cardinality(After(e)) BY <1>1
  <2>. QED BY <2>1, <2>2, <1>2
<1>5. f \in Injection(L, 1..n) BY <1>3, <1>4 DEF Injection, IsInjective
<1>6. IsFiniteSet(1..n) /\ Cardinality(1..n) = n
  <2>1. 1 \in Int /\ n \in Int OBVIOUS
  <2>. QED BY <2>1, FS_Interval
<1>. QED BY <1>5, <1>6, FS_Injection

LEMMA WantedFits ==
  ASSUME NEW d \in Telling!Deliveries
  PROVE  IsFiniteSet(Telling!Wanted(d)) /\ Cardinality(Telling!Wanted(d)) <= PerPush
<1>1. Telling!Own(d) \subseteq Nat /\ IsFiniteSet(Telling!Own(d)) /\ PerPush \in Nat
  BY DeliveryMade, TellSorts, CommitsFinite, FS_Subset
<1>2. Telling!Wanted(d) = {c \in Telling!Own(d) : Cardinality({b \in Telling!Own(d) : b > c}) < PerPush}
  BY DEF Telling!Wanted, Telling!Cardinality, Cardinality
<1>3. PICK S : S = Telling!Own(d) OBVIOUS
<1>4. PICK n : n = PerPush OBVIOUS
<1>5. PICK L : L = {c \in S : Cardinality({b \in S : b > c}) < n} OBVIOUS
<1>6. IsFiniteSet(L) /\ Cardinality(L) <= n BY <1>1, <1>3, <1>4, <1>5, LastOnes, Zenon
<1>. QED BY <1>2, <1>3, <1>4, <1>5, <1>6

SayingCommit(w) == w.step \in Speaking /\ w.key[1] = "commit"
RoomFor(w) == w.said + Cardinality(w.todo) + (IF SayingCommit(w) THEN 1 ELSE 0) <= PerPush
Room == \A t \in Workers : RoomFor(work[t])

LEMMA TodoFinite ==
  ASSUME TellShapes, NEW t \in Workers
  PROVE  /\ IsFiniteSet(work[t].todo) /\ Cardinality(work[t].todo) \in Nat /\ work[t].said \in Nat
         /\ PerPush \in Nat
<1>1. work[t].todo \in SUBSET Telling!Commits /\ work[t].said \in Nat BY AtWork DEF WorkKinds
<1>2. IsFiniteSet(work[t].todo) BY <1>1, CommitsFinite, FS_Subset
<1>. QED BY <1>1, <1>2, FS_CardinalityType, TellSorts

LEMMA RoomByOne ==
  ASSUME Room, NEW t \in Workers, OnlyMoves(t), RoomFor(work'[t]) PROVE Room'
BY DEF Room, OnlyMoves, RoomFor, SayingCommit

LEMMA RestedHasRoom == ASSUME NEW t \in Workers, Rested(t) PROVE RoomFor(work'[t]) /\ OnlyMoves(t)
BY TellSorts, FS_EmptySet DEF Rested, RoomFor, SayingCommit, Speaking

\* What is no commit needs no room.
LEMMA SpeaksWithRoom ==
  ASSUME TellShapes, Room, NEW t \in Workers, NEW s, NEW k, Goes(t, s, k, work[t].todo, work[t].said),
         s \in Speaking => k[1] # "commit" \/ SayingCommit(work[t])
  PROVE  RoomFor(work'[t]) /\ OnlyMoves(t)
<1>1. RoomFor(work[t]) BY DEF Room
<1>2. work'[t].step = s /\ work'[t].key = k /\ work'[t].todo = work[t].todo /\ work'[t].said = work[t].said
  BY DEF Goes
<1>. QED BY <1>1, <1>2, TodoFinite DEF Goes, RoomFor, SayingCommit

LEMMA FollowedWithRoom ==
  ASSUME TellShapes, Room, NEW t \in Workers, work[t].step \in Speaking, Followed(t)
  PROVE  RoomFor(work'[t]) /\ OnlyMoves(t)
<1>1. CASE Rested(t) BY <1>1, RestedHasRoom
<1>2. CASE Goes(t, "noting", NULL, work[t].todo, work[t].said) BY <1>2, SpeaksWithRoom DEF Speaking
<1>3. CASE work[t].key[1] = "commit" /\ Goes(t, "reading", NULL, work[t].todo, work[t].said + 1)
  <2>1. RoomFor(work[t]) /\ SayingCommit(work[t]) BY <1>3 DEF Room, SayingCommit
  <2>2. work'[t].step = "reading" /\ work'[t].todo = work[t].todo /\ work'[t].said = work[t].said + 1 /\ OnlyMoves(t)
    BY <1>3 DEF Goes
  <2>3. ~SayingCommit(work'[t]) BY <2>2 DEF SayingCommit, Speaking
  <2> QED BY <2>1, <2>2, <2>3, TodoFinite DEF RoomFor
<1>. QED BY <1>1, <1>2, <1>3 DEF Followed

LEMMA RoomHolds == TellShapes /\ Room /\ Telling!Next => Room'
<1>. SUFFICES ASSUME TellShapes /\ Room, Telling!Next PROVE Room' OBVIOUS
<1>1. ASSUME NEW d, Sends(d) PROVE Room' BY <1>1 DEF Sends, Room, RoomFor, SayingCommit
<1>2. CASE Telling!Choose BY <1>2, ChooseDoes DEF Room, RoomFor, SayingCommit
<1>3. CASE Telling!Lose BY <1>3, LoseDoes DEF Room, RoomFor, SayingCommit
<1>4. CASE Telling!DiesOpening BY <1>4, DiesOpeningDoes DEF Room, RoomFor, SayingCommit
<1>5. ASSUME NEW t \in Workers, Telling!Sync(t) PROVE Room'
  <2>1. work'[t].step = "judging" /\ work'[t].todo = {} /\ work'[t].said = 0 /\ OnlyMoves(t)
    BY <1>5, LineSyncDoes
  <2>2. RoomFor(work'[t]) BY <2>1, TellSorts, FS_EmptySet DEF RoomFor, SayingCommit, Speaking
  <2> QED BY <2>1, <2>2, RoomByOne
<1>6. ASSUME NEW t \in Workers, Telling!JudgeLabel(t) PROVE Room'
  <2>1. CASE Rested(t) BY <2>1, RestedHasRoom, RoomByOne
  <2>2. CASE Goes(t, "noting", work[t].key, work[t].todo, work[t].said)
    BY <2>2, SpeaksWithRoom, RoomByOne DEF Speaking
  <2>3. CASE Speaks(t, <<"label", work[t].of.v>>) BY <2>3, SpeaksWithRoom, RoomByOne DEF Speaks
  <2> QED BY <1>6, <2>1, <2>2, <2>3, JudgeLabelDoes
<1>7. ASSUME NEW t \in Workers, Telling!JudgeSwitch(t) PROVE Room'
  <2>1. CASE Rested(t) BY <2>1, RestedHasRoom, RoomByOne
  <2>2. CASE Speaks(t, <<work[t].of.what, work[t].of.v>>)
    <3>1. work[t].of.what # "commit" BY <1>7, JudgeSwitchDoes DEF Telling!Halves
    <3> QED BY <2>2, <3>1, SpeaksWithRoom, RoomByOne DEF Speaks
  <2> QED BY <1>7, <2>1, <2>2, JudgeSwitchDoes
<1>8. ASSUME NEW t \in Workers, Telling!NothingToSay(t) PROVE Room'
  BY <1>8, NothingToSayDoes, RestedHasRoom, RoomByOne
<1>9. ASSUME NEW t \in Workers, Telling!Compare(t) PROVE Room'
  <2>1. CASE Rested(t) BY <2>1, RestedHasRoom, RoomByOne
  <2>2. CASE Speaks(t, <<"force-push", work[t].of.v>>) BY <2>2, SpeaksWithRoom, RoomByOne DEF Speaks
  <2>3. CASE /\ work'[t].step = "reading" /\ work'[t].todo = Telling!Wanted(work[t].of) /\ work'[t].said = work[t].said /\ OnlyMoves(t)
    <3>1. work[t].of \in Telling!Deliveries /\ work[t].said = 0
      BY <1>9, CompareDoes, AtWork DEF Occupied, Held
    <3>2. ~SayingCommit(work'[t]) BY <2>3 DEF SayingCommit, Speaking
    <3>3. Cardinality(Telling!Wanted(work[t].of)) \in Nat BY <3>1, WantedFits, FS_CardinalityType
    <3>4. RoomFor(work'[t]) BY <2>3, <3>1, <3>2, <3>3, WantedFits DEF RoomFor
    <3> QED BY <2>3, <3>4, RoomByOne
  <2> QED BY <1>9, <2>1, <2>2, <2>3, CompareDoes
<1>10. ASSUME NEW t \in Workers, Telling!ReadCommit(t) PROVE Room'
  <2>1. PICK c \in work[t].todo :
            \/ Goes(t, "claiming", <<"commit", c>>, work[t].todo \ {c}, work[t].said)
            \/ Goes(t, "reading", work[t].key, work[t].todo \ {c}, work[t].said)
    BY <1>10, ReadCommitDoes
  <2>2. /\ OnlyMoves(t) /\ work'[t].todo = work[t].todo \ {c} /\ work'[t].said = work[t].said BY <2>1 DEF Goes
  <2>3. Cardinality(work'[t].todo) = Cardinality(work[t].todo) - 1 BY <2>2, TodoFinite, FS_RemoveElement
  <2>4. RoomFor(work'[t]) BY <2>2, <2>3, TodoFinite DEF Room, RoomFor
  <2> QED BY <2>2, <2>4, RoomByOne
<1>11. ASSUME NEW t \in Workers, Telling!Footnote(t) PROVE Room'
  <2>1. CASE Rested(t) BY <2>1, RestedHasRoom, RoomByOne
  <2>2. CASE Speaks(t, <<"commits-left", work[t].of.v>>) BY <2>2, SpeaksWithRoom, RoomByOne DEF Speaks
  <2> QED BY <1>11, <2>1, <2>2, FootnoteDoes
<1>12. ASSUME NEW t \in Workers, Telling!Claim(t) PROVE Room'
  <2>1. work[t].step \in Speaking BY <1>12, ClaimDoes DEF Speaking
  <2>2. CASE Followed(t) BY <2>1, <2>2, FollowedWithRoom, RoomByOne
  <2>3. CASE Goes(t, "posting", work[t].key, work[t].todo, work[t].said)
    BY <2>1, <2>3, SpeaksWithRoom, RoomByOne DEF SayingCommit
  <2> QED BY <1>12, <2>2, <2>3, ClaimDoes
<1>13. ASSUME NEW t \in Workers, Telling!Post(t) PROVE Room'
  BY <1>13, PostDoes, FollowedWithRoom, RoomByOne DEF Speaking
<1>14. ASSUME NEW t \in Workers, Telling!PostFails(t) PROVE Room'
  BY <1>14, PostFailsDoes, SpeaksWithRoom, RoomByOne DEF Speaking, SayingCommit
<1>15. ASSUME NEW t \in Workers, Telling!HandBack(t) PROVE Room'
  BY <1>15, HandBackDoes, RestedHasRoom, RoomByOne
<1>16. ASSUME NEW t \in Workers, Telling!Note(t) PROVE Room' BY <1>16, NoteDoes, RestedHasRoom, RoomByOne
<1>17. ASSUME NEW t \in Workers, Telling!Fails(t) PROVE Room' BY <1>17, FailsDoes, RestedHasRoom, RoomByOne
<1>. QED BY <1>1, <1>2, <1>3, <1>4, <1>5, <1>6, <1>7, <1>8, <1>9, <1>10, <1>11, <1>12, <1>13, <1>14, <1>15, <1>16, <1>17, GitHubSends DEF Telling!Next

LEMMA RoomAtFirst == Telling!Init => Room
<1>. SUFFICES ASSUME Telling!Init, NEW t \in Workers PROVE RoomFor(work[t]) BY DEF Room
<1>1. work[t].step = "idle" /\ work[t].said = 0 /\ work[t].todo = {} BY DEF Telling!Init, Telling!AtRest
<1>. QED BY <1>1, TellSorts, FS_EmptySet DEF RoomFor, SayingCommit, Speaking

----
\* A label that goes on again is heard.

InTurn ==
    /\ \A t, u \in Workers : Occupied(t) /\ Occupied(u) => t = u
    /\ \A t \in Workers : Occupied(t) => item.thread \in {0, work[t].thread}
    /\ \A t \in Workers : Occupied(t) /\ Telling!Moves(work[t].of) =>
          \A e \in queued : Telling!Moves(e) => work[t].of.v <= e.v

\* What the row says was shown though it came off is about to be noted.
AboutToBeNoted ==
    \/ \E t \in Workers : Occupied(t) /\ work[t].of.what = "unlabeled"
    \/ \E x \in queued : /\ x.what = "unlabeled"
                         /\ \A e \in queued : Telling!Moves(e) => x.v <= e.v
                         /\ \A t \in Workers : Occupied(t) => ~Telling!Moves(work[t].of)

LabelInv ==
    /\ ~muffled
    /\ about = "labels" /\ ~mixed => InTurn /\ (item.shown /\ ever = "off" => AboutToBeNoted)

LEMMA LabelsAtFirst == Telling!Init => LabelInv
<1>. SUFFICES ASSUME Telling!Init PROVE LabelInv OBVIOUS
<1>1. ~muffled /\ ever = "nothing" /\ \A t \in Workers : work[t].step = "idle"
  BY DEF Telling!Init, Telling!AtRest
<1>. QED BY <1>1 DEF LabelInv, InTurn, Occupied

\* Whoever goes on with what is at hand.
LEMMA LabelsByOne ==
  ASSUME TellShapes, LabelInv, NEW t \in Workers, OnlyMoves(t), Occupied(t),
         \/ Occupied(t)' /\ work'[t].of = work[t].of /\ work'[t].thread = work[t].thread
         \/ ~Occupied(t)' /\ work[t].of.what # "unlabeled",
         UNCHANGED <<about, mixed, queued, muffled, item>>,
         ever' # ever => work[t].of.what = "unlabeled"
  PROVE  LabelInv'
<1>1. \A u \in Workers \ {t} : work'[u] = work[u] BY DEF OnlyMoves
<1>2. \A u \in Workers : Occupied(u)' => Occupied(u) /\ work'[u].of = work[u].of /\ work'[u].thread = work[u].thread
  BY <1>1 DEF Occupied
<1>3. InTurn => InTurn' BY <1>2 DEF InTurn
<1>4. CASE work[t].of.what = "unlabeled"
  <2>1. AboutToBeNoted' BY <1>4 DEF AboutToBeNoted
  <2> QED BY <1>3, <2>1 DEF LabelInv
<1>5. CASE work[t].of.what # "unlabeled"
  <2>1. \A u \in Workers : Occupied(u) /\ work[u].of.what = "unlabeled" => Occupied(u)' /\ work'[u].of = work[u].of
    BY <1>1, <1>5 DEF Occupied
  <2>2. AboutToBeNoted => AboutToBeNoted' BY <1>2, <2>1 DEF AboutToBeNoted
  <2> QED BY <1>3, <1>5, <2>2 DEF LabelInv
<1>. QED BY <1>4, <1>5

LEMMA LabelsByReturn ==
  ASSUME TellShapes, LabelInv, NEW t \in Workers, Rested(t), Occupied(t), queued' = queued \cup {work[t].of},
         UNCHANGED <<about, mixed, muffled, item, ever>>
  PROVE  LabelInv'
<1>. SUFFICES ASSUME about = "labels", ~mixed PROVE InTurn' /\ (item.shown /\ ever = "off" => AboutToBeNoted')
  BY DEF LabelInv
<1>1. InTurn /\ (item.shown /\ ever = "off" => AboutToBeNoted) BY DEF LabelInv
<1>2. \A u \in Workers : ~Occupied(u)' BY <1>1 DEF InTurn, Occupied, Rested, OnlyMoves
<1>3. InTurn' BY <1>2 DEF InTurn
<1>4. \A u \in Workers : Occupied(u) => u = t BY <1>1 DEF InTurn
<1>5. CASE work[t].of.what = "unlabeled"
  <2>1. Telling!Moves(work[t].of) /\ work[t].of.v \in Nat BY <1>5, AtWork, DeliveryMade DEF Telling!Moves
  <2>2. \A e \in queued' : Telling!Moves(e) => work[t].of.v <= e.v BY <1>1, <2>1 DEF InTurn
  <2> QED BY <1>2, <1>3, <1>5, <2>2 DEF AboutToBeNoted
<1>6. CASE work[t].of.what # "unlabeled" /\ item.shown /\ ever = "off"
  <2>1. PICK x \in queued : /\ x.what = "unlabeled" /\ \A e \in queued : Telling!Moves(e) => x.v <= e.v
                            /\ \A u \in Workers : Occupied(u) => ~Telling!Moves(work[u].of)
    BY <1>1, <1>4, <1>6 DEF AboutToBeNoted
  <2>2. \A e \in queued' : Telling!Moves(e) => x.v <= e.v BY <2>1
  <2> QED BY <1>2, <1>3, <2>1, <2>2 DEF AboutToBeNoted
<1>. QED BY <1>3, <1>5, <1>6

\* A line of something else than a label is of no label.
LEMMA FollowedInTurn ==
  ASSUME TellShapes, NEW t \in Workers, work[t].step \in Speaking, Followed(t)
  PROVE  /\ Occupied(t) /\ OnlyMoves(t)
         /\ \/ Occupied(t)' /\ work'[t].of = work[t].of /\ work'[t].thread = work[t].thread
            \/ ~Occupied(t)' /\ work[t].of.what # "unlabeled"
<1>1. KeyIsFor(work[t]) /\ Occupied(t) BY AtWork DEF Occupied, Speaking
<1>2. CASE Rested(t) /\ work[t].key[1] \notin {"label", "commit"}
  <2>1. ~Telling!Moves(work[t].of) BY <1>1, <1>2 DEF KeyIsFor, Telling!Moves, Telling!Halves
  <2> QED BY <1>1, <1>2, <2>1 DEF Rested, Occupied, Telling!Moves
<1>3. CASE Goes(t, "noting", NULL, work[t].todo, work[t].said) \/ Goes(t, "reading", NULL, work[t].todo, work[t].said + 1)
  BY <1>1, <1>3 DEF Goes, Keeps, Occupied
<1>. QED BY <1>2, <1>3 DEF Followed

LEMMA LabelsHold == TellShapes /\ LabelInv /\ Telling!Next => LabelInv'
<1>. SUFFICES ASSUME TellShapes /\ LabelInv, Telling!Next PROVE LabelInv' OBVIOUS
<1>1. ASSUME NEW d, Sends(d) PROVE LabelInv'
  <2>1. /\ d \in Telling!Deliveries /\ d.v = latest + 1 /\ queued' = queued \cup {d} /\ work' = work
        /\ UNCHANGED <<about, item, ever, mixed, muffled>> BY <1>1 DEF Sends
  <2>2. /\ latest \in Nat /\ \A e \in queued : e.v \in Nat /\ e.v <= latest
        /\ \A u \in Workers : Occupied(u) => work[u].of.v \in Nat /\ work[u].of.v <= latest
    BY TellParts, AtWork, DeliveryMade DEF TellShapes, Outside, Sane
  <2>3. \A e \in queued : e.v <= d.v BY <2>1, <2>2
  <2>4. \A u \in Workers : Occupied(u) => work[u].of.v <= d.v BY <2>1, <2>2
  <2>5. InTurn => InTurn' BY <2>1, <2>4 DEF InTurn, Occupied
  <2>6. AboutToBeNoted => AboutToBeNoted' BY <2>1, <2>3 DEF AboutToBeNoted, Occupied
  <2> QED BY <2>1, <2>5, <2>6 DEF LabelInv
<1>2. CASE Telling!Choose
  <2>1. UNCHANGED <<about, mixed, muffled, ever, work, queued>> /\ item'.thread = item.thread /\ item'.shown = item.shown
    BY <1>2, ChooseDoes
  <2> QED BY <2>1 DEF LabelInv, InTurn, AboutToBeNoted, Occupied
<1>3. CASE Telling!Lose
  <2>1. UNCHANGED <<about, mixed, muffled, work, queued>> /\ item'.thread = 0 /\ ever' = "nothing"
    BY <1>3, LoseDoes
  <2> QED BY <2>1 DEF LabelInv, InTurn, AboutToBeNoted, Occupied
<1>4. CASE Telling!DiesOpening
  <2>1. PICK d \in queued :
            /\ item'.shown = FALSE /\ mixed' = (mixed \/ (about = "labels" /\ Telling!OutOfTurn(d)))
            /\ about' = about /\ UNCHANGED <<work, muffled>>
    BY <1>4, DiesOpeningDoes DEF SameOutside
  <2>2. about = "labels" /\ ~mixed' => \A u \in Workers : ~Occupied(u)'
    BY <2>1 DEF Telling!OutOfTurn, Occupied
  <2>3. about = "labels" /\ ~mixed' => InTurn' BY <2>2 DEF InTurn
  <2> QED BY <2>1, <2>3 DEF LabelInv
<1>5. ASSUME NEW t \in Workers, Telling!Sync(t) PROVE LabelInv'
  <2>1. PICK d \in queued :
            /\ queued' = queued \ {d} /\ OnlyMoves(t) /\ work'[t].of = d /\ work'[t].thread = item'.thread
            /\ work'[t].step = "judging"
            /\ ever' = "off" /\ item'.shown => ever = "off" /\ item.shown
            /\ mixed' = (mixed \/ (about = "labels" /\ Telling!OutOfTurn(d)))
            /\ about' = about /\ muffled' = muffled
    BY <1>5, LineSyncDoes DEF SameOutside
  <2>. SUFFICES ASSUME about = "labels", ~mixed' PROVE InTurn' /\ (item'.shown /\ ever' = "off" => AboutToBeNoted')
    BY <2>1 DEF LabelInv
  <2>2. /\ \A e \in queued : Telling!Moves(e) => ~(e.v < d.v)
        /\ \A u \in Workers : ~Occupied(u)
    BY <2>1 DEF Telling!OutOfTurn, Occupied
  <2>3. \A u \in Workers : Occupied(u)' <=> u = t BY <2>1, <2>2 DEF OnlyMoves, Occupied
  <2>4. \A e \in queued : e.v \in Nat BY TellParts, DeliveryMade
  <2>5. \A e \in queued : Telling!Moves(e) => d.v <= e.v BY <2>2, <2>4
  <2>6. InTurn' BY <2>1, <2>3, <2>5 DEF InTurn
  <2>7. ASSUME item'.shown, ever' = "off" PROVE AboutToBeNoted'
    <3>1. PICK x \in queued : x.what = "unlabeled" /\ \A e \in queued : Telling!Moves(e) => x.v <= e.v
      BY <2>1, <2>2, <2>7 DEF LabelInv, AboutToBeNoted
    <3>2. CASE x = d BY <2>1, <2>3, <3>1, <3>2 DEF AboutToBeNoted
    <3>3. CASE x # d
      <4>1. Telling!Moves(x) /\ (Telling!Moves(d) => x.v = d.v) BY <2>4, <2>5, <3>1 DEF Telling!Moves
      <4>2. ~Telling!Moves(d) BY <3>3, <4>1 DEF TellShapes, OneOfEach
      <4>3. \A u \in Workers : Occupied(u)' => ~Telling!Moves(work'[u].of) BY <2>1, <2>3, <4>2
      <4>4. x \in queued' /\ \A e \in queued' : Telling!Moves(e) => x.v <= e.v BY <2>1, <3>1, <3>3
      <4> QED BY <3>1, <4>3, <4>4 DEF AboutToBeNoted
    <3> QED BY <3>2, <3>3
  <2> QED BY <2>6, <2>7
<1>6. ASSUME NEW t \in Workers, Telling!JudgeLabel(t) PROVE LabelInv'
  <2>1. /\ Occupied(t) /\ Telling!Moves(work[t].of) /\ UNCHANGED <<about, mixed, queued, item>>
        /\ muffled' = (muffled \/ (work[t].wants /\ Telling!AlreadyShown(t) /\ ever = "off" /\ ~mixed))
        /\ ever' = IF ~work[t].wants /\ ~work[t].of.on THEN "off" ELSE ever
    BY <1>6, JudgeLabelDoes DEF Occupied, Untouched, SameOutside
  <2>2. Sane(work[t].of) BY <2>1, AtWork
  <2>3. about = "labels" BY <2>1, <2>2 DEF Sane, Whats, Telling!Moves, Telling!Halves
  <2>4. ever' # ever => work[t].of.what = "unlabeled" BY <2>1, <2>2 DEF Sane, Telling!Moves
  <2>5. muffled' = muffled
    <3>0. muffled \in BOOLEAN BY TellParts DEF PastKinds
    <3>. SUFFICES ASSUME Telling!AlreadyShown(t), ever = "off", ~mixed PROVE FALSE BY <2>1, <3>0
    <3>1. AboutToBeNoted /\ InTurn BY <2>3 DEF LabelInv, Telling!AlreadyShown
    <3> QED BY <2>1, <3>1 DEF AboutToBeNoted, InTurn, Telling!AlreadyShown
  <2>6. /\ OnlyMoves(t)
        /\ \/ Occupied(t)' /\ work'[t].of = work[t].of /\ work'[t].thread = work[t].thread
           \/ ~Occupied(t)' /\ work[t].of.what # "unlabeled"
    BY <1>6, JudgeLabelDoes DEF Rested, Speaks, Goes, Keeps, Occupied
  <2> QED BY <2>1, <2>4, <2>5, <2>6, LabelsByOne
<1>7. ASSUME NEW t \in Workers, Telling!JudgeSwitch(t) PROVE LabelInv'
  <2>1. /\ Occupied(t) /\ work[t].of.what # "unlabeled" /\ UNCHANGED <<about, mixed, queued, item, muffled, ever>>
    BY <1>7, JudgeSwitchDoes DEF Occupied, Untouched, SameOutside, Telling!Halves
  <2>2. /\ OnlyMoves(t)
        /\ \/ Occupied(t)' /\ work'[t].of = work[t].of /\ work'[t].thread = work[t].thread
           \/ ~Occupied(t)'
    BY <1>7, JudgeSwitchDoes DEF Rested, Speaks, Goes, Keeps, Occupied
  <2> QED BY <2>1, <2>2, LabelsByOne
<1>8. ASSUME NEW t \in Workers, Telling!NothingToSay(t) PROVE LabelInv'
  <2>1. /\ Occupied(t) /\ work[t].of.what # "unlabeled" /\ UNCHANGED <<about, mixed, queued, item, muffled, ever>>
    BY <1>8, NothingToSayDoes DEF Occupied, Untouched, SameOutside, Telling!Halves
  <2>2. /\ OnlyMoves(t)
        /\ \/ Occupied(t)' /\ work'[t].of = work[t].of /\ work'[t].thread = work[t].thread
           \/ ~Occupied(t)'
    BY <1>8, NothingToSayDoes DEF Rested, Speaks, Goes, Keeps, Occupied
  <2> QED BY <2>1, <2>2, LabelsByOne
<1>9. ASSUME NEW t \in Workers, Telling!Compare(t) PROVE LabelInv'
  <2>1. /\ Occupied(t) /\ work[t].of.what # "unlabeled" /\ UNCHANGED <<about, mixed, queued, item, muffled, ever>>
    BY <1>9, CompareDoes DEF Occupied, Untouched, SameOutside, Telling!Halves
  <2>2. /\ OnlyMoves(t)
        /\ \/ Occupied(t)' /\ work'[t].of = work[t].of /\ work'[t].thread = work[t].thread
           \/ ~Occupied(t)'
    BY <1>9, CompareDoes DEF Rested, Speaks, Goes, Keeps, Occupied
  <2> QED BY <2>1, <2>2, LabelsByOne
<1>10. ASSUME NEW t \in Workers, Telling!ReadCommit(t) PROVE LabelInv'
  <2>1. /\ Occupied(t) /\ work[t].step = "reading" /\ UNCHANGED <<about, mixed, queued, item, muffled, ever>>
    BY <1>10, ReadCommitDoes DEF Occupied, Untouched, SameOutside
  <2>2. work[t].of.what # "unlabeled" BY <2>1, AtWork DEF Held
  <2>3. /\ OnlyMoves(t)
        /\ \/ Occupied(t)' /\ work'[t].of = work[t].of /\ work'[t].thread = work[t].thread
           \/ ~Occupied(t)'
    BY <1>10, ReadCommitDoes DEF Rested, Speaks, Goes, Keeps, Occupied
  <2> QED BY <2>1, <2>2, <2>3, LabelsByOne
<1>11. ASSUME NEW t \in Workers, Telling!Footnote(t) PROVE LabelInv'
  <2>1. /\ Occupied(t) /\ work[t].step = "reading" /\ UNCHANGED <<about, mixed, queued, item, muffled, ever>>
    BY <1>11, FootnoteDoes DEF Occupied, Untouched, SameOutside
  <2>2. work[t].of.what # "unlabeled" BY <2>1, AtWork DEF Held
  <2>3. /\ OnlyMoves(t)
        /\ \/ Occupied(t)' /\ work'[t].of = work[t].of /\ work'[t].thread = work[t].thread
           \/ ~Occupied(t)'
    BY <1>11, FootnoteDoes DEF Rested, Speaks, Goes, Keeps, Occupied
  <2> QED BY <2>1, <2>2, <2>3, LabelsByOne
<1>12. ASSUME NEW t \in Workers, Telling!Claim(t) PROVE LabelInv'
  <2>1. work[t].step \in Speaking /\ Occupied(t) /\ UNCHANGED <<about, mixed, queued, item, muffled, ever>>
    BY <1>12, ClaimDoes DEF Speaking, Occupied, SameOutside
  <2>2. CASE Followed(t) BY <2>1, <2>2, FollowedInTurn, LabelsByOne
  <2>3. CASE Goes(t, "posting", work[t].key, work[t].todo, work[t].said)
    <3>1. OnlyMoves(t) /\ Occupied(t)' /\ work'[t].of = work[t].of /\ work'[t].thread = work[t].thread
      BY <2>3 DEF Goes, Keeps, Occupied
    <3> QED BY <2>1, <3>1, LabelsByOne
  <2> QED BY <1>12, <2>2, <2>3, ClaimDoes
<1>13. ASSUME NEW t \in Workers, Telling!Post(t) PROVE LabelInv'
  <2>1. work[t].step \in Speaking /\ UNCHANGED <<about, mixed, queued, item, muffled, ever>> /\ Followed(t)
    BY <1>13, PostDoes DEF Speaking, SameOutside
  <2> QED BY <2>1, FollowedInTurn, LabelsByOne
<1>14. ASSUME NEW t \in Workers, Telling!PostFails(t) PROVE LabelInv'
  <2>1. Occupied(t) /\ UNCHANGED <<about, mixed, queued, item, muffled, ever>>
    BY <1>14, PostFailsDoes DEF Occupied, SameOutside
  <2>2. OnlyMoves(t) /\ Occupied(t)' /\ work'[t].of = work[t].of /\ work'[t].thread = work[t].thread
    BY <1>14, PostFailsDoes DEF Goes, Keeps, Occupied
  <2> QED BY <2>1, <2>2, LabelsByOne
<1>15. ASSUME NEW t \in Workers, Telling!HandBack(t) PROVE LabelInv'
  BY <1>15, HandBackDoes, LabelsByReturn DEF SameOutside, Occupied
<1>16. ASSUME NEW t \in Workers, Telling!Note(t) PROVE LabelInv'
  <2>1. /\ Occupied(t) /\ Rested(t) /\ item'.thread = item.thread /\ UNCHANGED <<queued, mixed, muffled, about>>
        /\ item'.shown = IF item.thread = work[t].thread THEN work[t].of.on ELSE item.shown
        /\ ever' = IF item.thread # work[t].thread THEN ever ELSE IF work[t].of.on THEN "on" ELSE "off"
    BY <1>16, NoteDoes DEF Occupied, SameOutside
  <2>2. \A u \in Workers : Occupied(u)' => Occupied(u) /\ work'[u].of = work[u].of /\ work'[u].thread = work[u].thread
    BY <2>1 DEF Occupied, Rested, OnlyMoves
  <2>3. InTurn => InTurn' BY <2>1, <2>2 DEF InTurn
  <2>4. InTurn => ~(item'.shown /\ ever' = "off")
    <3>1. item.thread = 0 => ~item.shown BY DEF TellShapes, ThreadsMade
    <3> QED BY <2>1, <3>1 DEF InTurn
  <2> QED BY <2>1, <2>3, <2>4 DEF LabelInv
<1>17. ASSUME NEW t \in Workers, Telling!Fails(t) PROVE LabelInv'
  BY <1>17, FailsDoes, LabelsByReturn DEF SameOutside, Occupied
<1>. QED BY <1>1, <1>2, <1>3, <1>4, <1>5, <1>6, <1>7, <1>8, <1>9, <1>10, <1>11, <1>12, <1>13, <1>14, <1>15, <1>16, <1>17, GitHubSends DEF Telling!Next

----
\* The draft switch is announced forwards, and announced.

InThread == DOMAIN told \cup leaned \cup dropped

\* One half of the switch is still to be handled.
IsHalf(d, k) == d.what \in Telling!Halves /\ k = <<d.what, d.v>>
Coming(k) == (\E d \in queued : IsHalf(d, k)) \/ \E t \in Workers : Occupied(t) /\ IsHalf(work[t].of, k)

SwitchInv ==
    /\ \A v \in Telling!Versions : v > latest => due[v] = {}
    /\ \A k \in DOMAIN told : k[1] \in Telling!Halves => k[2] <= item.version
    /\ about = "draft" /\ ~chosen =>
          /\ item.wants
          /\ \A t \in Workers : Occupied(t) => work[t].wants
          /\ \A k \in due[latest] : k[2] = latest /\ (k \in InThread \/ Coming(k))

LEMMA SwitchAtFirst == Telling!Init => SwitchInv
<1>. SUFFICES ASSUME Telling!Init PROVE SwitchInv OBVIOUS
<1>1. /\ DOMAIN told = {} /\ \A t \in Workers : work[t].step = "idle"
      /\ due = [v \in Telling!Versions |-> {}] /\ item.wants = (about = "draft") /\ latest = 2
  BY DEF Telling!Init, Telling!AtRest
<1>2. latest \in Telling!Versions BY <1>1, TellSorts
<1>. QED BY <1>1, <1>2 DEF SwitchInv, Occupied

\* Nothing of the switch comes to pass but what was told or is told now.
LEMMA SwitchKept ==
  ASSUME TellShapes, SwitchInv, Telling!Next, UNCHANGED <<about, latest, chosen>>,
         due' = due \/ (about # "draft" /\ \A v \in Telling!Versions : v > latest => due'[v] = due[v]),
         \A k \in DOMAIN told' \ DOMAIN told : k[1] \in Telling!Halves => k[2] <= item.version,
         item'.wants = item.wants,
         \A t \in Workers : Occupied(t)' => (Occupied(t) /\ work'[t].wants = work[t].wants) \/ work'[t].wants = item.wants,
         InThread \subseteq InThread',
         about = "draft" /\ ~chosen => \A k \in due[latest] : k[2] = latest /\ Coming(k) => Coming(k)' \/ k \in InThread'
  PROVE  SwitchInv'
<1>1. /\ item.version <= item'.version /\ item.version \in Nat /\ item'.version \in Nat
  BY NothingOlder, RowKindsHold, TellParts DEF RowSorts, ItemKinds
<1>2. \A k \in DOMAIN told' : k[1] \in Telling!Halves => k[2] <= item'.version
  <2>1. \A k \in DOMAIN told' : k[1] \in Telling!Halves => k[2] <= item.version BY DEF SwitchInv
  <2>2. \A k \in DOMAIN told' : k[2] \in Nat BY WordKindsHold, KeysMade DEF WordKinds
  <2> QED BY <1>1, <2>1, <2>2
<1>3. \A v \in Telling!Versions : v > latest => due'[v] = {} BY DEF SwitchInv
<1>4. about = "draft" /\ ~chosen =>
          /\ item'.wants
          /\ \A t \in Workers : Occupied(t)' => work'[t].wants
          /\ \A k \in due'[latest] : k[2] = latest /\ (k \in InThread' \/ Coming(k)')
  BY DEF SwitchInv
<1>. QED BY <1>2, <1>3, <1>4 DEF SwitchInv

LEMMA ComingKept ==
  ASSUME NEW t \in Workers, OnlyMoves(t), queued' = queued,
         \/ Occupied(t)' /\ work'[t].of = work[t].of
         \/ work[t].step = "idle"
         \/ work[t].of.what \notin Telling!Halves,
         NEW k, Coming(k)
  PROVE  Coming(k)' BY DEF Coming, IsHalf, OnlyMoves, Occupied

LEMMA ComingReturned ==
  ASSUME NEW t \in Workers, OnlyMoves(t), queued' = queued \cup {work[t].of}, NEW k, Coming(k)
  PROVE  Coming(k)'
<1>1. CASE \E d \in queued : IsHalf(d, k) BY <1>1 DEF Coming, IsHalf
<1>2. CASE \E u \in Workers \ {t} : Occupied(u) /\ IsHalf(work[u].of, k)
  BY <1>2 DEF Coming, IsHalf, OnlyMoves, Occupied
<1>3. CASE IsHalf(work[t].of, k) BY <1>3 DEF Coming, IsHalf
<1>. QED BY <1>1, <1>2, <1>3 DEF Coming

LEMMA SwitchByOne ==
  ASSUME TellShapes, SwitchInv, Telling!Next, NEW t \in Workers, OnlyMoves(t), SameOutside, SameWords,
         queued' = queued, item'.wants = item.wants,
         due' = due \/ (about # "draft" /\ \A v \in Telling!Versions : v > latest => due'[v] = due[v]),
         \/ Occupied(t)' /\ work'[t].of = work[t].of /\ work'[t].wants = work[t].wants
         \/ ~Occupied(t)' /\ work[t].of.what \notin Telling!Halves,
         Occupied(t)
  PROVE  SwitchInv'
<1>1. \A u \in Workers : Occupied(u)' => Occupied(u) /\ work'[u].wants = work[u].wants
  BY DEF OnlyMoves, Occupied
<1>2. \A k : Coming(k) => Coming(k)' BY ComingKept
<1>3. InThread' = InThread /\ DOMAIN told' = DOMAIN told BY DEF InThread, SameWords
<1>4. UNCHANGED <<about, latest, chosen>> BY DEF SameOutside
<1>. QED BY <1>1, <1>2, <1>3, <1>4, SwitchKept

\* What a worker says of the switch is what it is at.
LEMMA SaysItsHalf ==
  ASSUME TellShapes, NEW t \in Workers, work[t].step \in Speaking, work[t].of.what \in Telling!Halves
  PROVE  work[t].key = <<work[t].of.what, work[t].of.v>> /\ work[t].key[1] \notin {"label", "commit"}
<1>1. KeyIsFor(work[t]) BY AtWork
<1>2. work[t].key = <<work[t].of.what, work[t].of.v>> BY <1>1 DEF KeyIsFor, Telling!Moves, Telling!Halves
<1>. QED BY <1>2 DEF Telling!Halves

\* A worker whose line is said, now or before, has nothing left to say of the switch.
LEMMA SwitchFollowed ==
  ASSUME TellShapes, SwitchInv, Telling!Next, NEW t \in Workers, work[t].step \in Speaking, Followed(t),
         SameOutside, UNCHANGED <<queued, item, due>>,
         InThread \cup {work[t].key} \subseteq InThread',
         DOMAIN told' \subseteq DOMAIN told \cup {work[t].key}
  PROVE  SwitchInv'
<1>1. Occupied(t) /\ work[t].key \in Telling!LineKeys /\ work[t].of.v <= item.version /\ KeyIsFor(work[t])
  BY AtWork DEF Occupied, Speaking
<1>2. /\ OnlyMoves(t) /\ (Occupied(t)' => work'[t].of = work[t].of /\ work'[t].wants = work[t].wants)
  BY DEF Followed, Rested, Goes, Keeps, Occupied
<1>3. \A u \in Workers : Occupied(u)' => Occupied(u) /\ work'[u].wants = work[u].wants
  BY <1>1, <1>2 DEF OnlyMoves, Occupied
<1>4. \A k \in DOMAIN told' \ DOMAIN told : k[1] \in Telling!Halves => k[2] <= item.version BY <1>1, KeySays
<1>5. ASSUME NEW k, Coming(k) PROVE Coming(k)' \/ k \in InThread'
  <2>1. CASE work[t].of.what \in Telling!Halves
    <3>1. CASE k = work[t].key BY <3>1
    <3>2. CASE k # work[t].key
      <4>1. ~IsHalf(work[t].of, k) BY <2>1, <3>2, SaysItsHalf DEF IsHalf
      <4> QED BY <1>2, <1>5, <4>1 DEF Coming, IsHalf, OnlyMoves, Occupied
    <3> QED BY <3>1, <3>2
  <2>2. CASE work[t].of.what \notin Telling!Halves BY <1>2, <1>5, <2>2, ComingKept
  <2> QED BY <2>1, <2>2
<1>. QED BY <1>3, <1>4, <1>5, SwitchKept DEF SameOutside

LEMMA SwitchHolds == TellShapes /\ SwitchInv /\ Telling!Next => SwitchInv'
<1>. SUFFICES ASSUME TellShapes /\ SwitchInv, Telling!Next PROVE SwitchInv' OBVIOUS
<1>1. ASSUME NEW d, Sends(d) PROVE SwitchInv'
  <2>1. /\ d.v = latest + 1 /\ queued' = queued \cup {d} /\ work' = work /\ latest' = latest + 1
        /\ due' = IF d.what \in Telling!Halves THEN [due EXCEPT ![latest + 1] = {<<d.what, latest + 1>>}] ELSE due
        /\ UNCHANGED <<about, item, told, chosen>> /\ latest < MaxEvents + 2
    BY <1>1 DEF Sends, SameWords
  <2>2. latest \in Nat /\ due \in [Telling!Versions -> SUBSET Telling!LineKeys] /\ latest + 1 \in Telling!Versions
    BY <2>1, TellParts, TellSorts DEF Outside, PastKinds
  <2>3. due[latest + 1] = {} BY <2>2 DEF SwitchInv
  <2>4. \A v \in Telling!Versions : v > latest + 1 => due'[v] = {}
    <3>1. \A v \in Telling!Versions : v > latest + 1 => v > latest /\ v # latest + 1 BY <2>2, TellSorts
    <3> QED BY <2>1, <2>2, <3>1 DEF SwitchInv
  <2>5. \A k \in due'[latest + 1] : k[2] = latest + 1 /\ Coming(k)'
    <3>1. CASE d.what \in Telling!Halves
      <4>0. PICK k : k = <<d.what, latest + 1>> OBVIOUS
      <4>1. due'[latest + 1] = {k} /\ k[2] = latest + 1 BY <2>1, <2>2, <3>1, <4>0
      <4>2. IsHalf(d, k) BY <2>1, <3>1, <4>0 DEF IsHalf
      <4>3. Coming(k)' BY <2>1, <4>2 DEF Coming, IsHalf
      <4> QED BY <4>1, <4>3
    <3>2. CASE d.what \notin Telling!Halves BY <2>1, <2>3, <3>2
    <3> QED BY <3>1, <3>2
  <2> QED BY <2>1, <2>4, <2>5 DEF SwitchInv, Occupied
<1>2. CASE Telling!Choose
  <2>1. UNCHANGED <<about, latest, told, due>> /\ chosen' = TRUE /\ item'.version = item.version
    BY <1>2, ChooseDoes DEF SameWords
  <2> QED BY <2>1 DEF SwitchInv
<1>3. CASE Telling!Lose
  <2>1. /\ UNCHANGED <<about, latest, chosen, told, leaned, dropped, due, work, queued>>
        /\ item'.version = item.version /\ item'.wants = item.wants
    BY <1>3, LoseDoes DEF SameWords
  <2> QED BY <2>1 DEF SwitchInv, InThread, Coming, Occupied
<1>4. CASE Telling!DiesOpening
  <2>1. /\ UNCHANGED <<about, latest, chosen, told, leaned, dropped, due, work, queued>>
        /\ item'.wants = item.wants
    BY <1>4, DiesOpeningDoes DEF SameWords, SameOutside
  <2>2. \A k : (Coming(k) => Coming(k)') BY <2>1 DEF Coming, Occupied
  <2> QED BY <2>1, <2>2, SwitchKept DEF InThread, Occupied
<1>5. ASSUME NEW t \in Workers, Telling!Sync(t) PROVE SwitchInv'
  <2>1. PICK d \in queued :
            /\ queued' = queued \ {d} /\ OnlyMoves(t) /\ work'[t].of = d /\ work'[t].wants = item.wants
            /\ work'[t].step = "judging" /\ work[t].step = "idle" /\ item'.wants = item.wants
            /\ UNCHANGED <<about, latest, chosen, told, leaned, dropped, due>>
    BY <1>5, LineSyncDoes DEF SameOutside, SameWords
  <2>2. \A u \in Workers : Occupied(u)' => (Occupied(u) /\ work'[u].wants = work[u].wants) \/ work'[u].wants = item.wants
    BY <2>1 DEF OnlyMoves, Occupied
  <2>3. ASSUME NEW k, Coming(k) PROVE Coming(k)'
    <3>1. CASE \E u \in Workers : Occupied(u) /\ IsHalf(work[u].of, k)
      BY <2>1, <3>1 DEF Coming, OnlyMoves, IsHalf, Occupied
    <3>2. CASE IsHalf(d, k) BY <2>1, <3>2 DEF Coming, Occupied, IsHalf
    <3>3. CASE \E e \in queued \ {d} : IsHalf(e, k) BY <2>1, <3>3 DEF Coming, IsHalf
    <3> QED BY <2>3, <3>1, <3>2, <3>3 DEF Coming
  <2> QED BY <2>1, <2>2, <2>3, SwitchKept DEF InThread
<1>6. ASSUME NEW t \in Workers, Telling!JudgeLabel(t) PROVE SwitchInv'
  <2>1. /\ Occupied(t) /\ work[t].of.what \notin Telling!Halves /\ SameOutside /\ SameWords
        /\ UNCHANGED <<queued, item, due>>
    BY <1>6, JudgeLabelDoes DEF Occupied, Untouched, Telling!Halves, Telling!Moves
  <2>2. OnlyMoves(t) /\ (Occupied(t)' => work'[t].of = work[t].of /\ work'[t].wants = work[t].wants)
    BY <1>6, JudgeLabelDoes DEF Rested, Speaks, Goes, Keeps, Occupied
  <2> QED BY <2>1, <2>2, SwitchByOne
<1>7. ASSUME NEW t \in Workers, Telling!JudgeSwitch(t) PROVE SwitchInv'
  <2> DEFINE says == work[t].wants /\ ~Telling!MovedOn(t)
  <2>1. /\ Occupied(t) /\ SameOutside /\ SameWords
        /\ UNCHANGED <<queued, item, due>>
        /\ says => Speaks(t, <<work[t].of.what, work[t].of.v>>)
        /\ ~says => Rested(t) BY <1>7, JudgeSwitchDoes DEF Occupied, Untouched
  <2>2. work[t].of.v \in Nat /\ item.version \in Nat /\ item.version <= latest /\ latest \in Nat
    BY <2>1, AtWork, DeliveryMade, TellParts DEF TellShapes, RowSorts, ItemKinds, Outside
  <2>4. CASE says
    <3>1. OnlyMoves(t) /\ Occupied(t)' /\ work'[t].of = work[t].of /\ work'[t].wants = work[t].wants
      BY <2>1, <2>4 DEF Speaks, Goes, Keeps, Occupied
    <3> QED BY <2>1, <3>1, SwitchByOne
  <2>5. CASE ~says
    <3>1. OnlyMoves(t) /\ ~Occupied(t)' /\ \A u \in Workers \ {t} : work'[u] = work[u]
      BY <2>1, <2>5 DEF Rested, OnlyMoves, Occupied
    <3>2. \A u \in Workers : Occupied(u)' => Occupied(u) /\ work'[u].wants = work[u].wants
      BY <3>1 DEF Occupied
    <3>3. ASSUME about = "draft", ~chosen, NEW k, k[2] = latest, Coming(k) PROVE Coming(k)'
      <4>1. work[t].of.v < item.version BY <2>1, <2>5, <3>3 DEF SwitchInv, Telling!MovedOn
      <4>2. ~IsHalf(work[t].of, k) BY <2>2, <3>3, <4>1 DEF IsHalf
      <4> QED BY <2>1, <3>1, <3>3, <4>2 DEF Coming, Occupied
    <3> QED BY <2>1, <3>2, <3>3, SwitchKept DEF SameOutside, SameWords, InThread
  <2> QED BY <2>4, <2>5
<1>8. ASSUME NEW t \in Workers, Telling!NothingToSay(t) PROVE SwitchInv'
  <2>1. /\ Occupied(t) /\ work[t].of.what \notin Telling!Halves /\ SameOutside /\ SameWords
        /\ UNCHANGED <<queued, item, due>>
    BY <1>8, NothingToSayDoes DEF Occupied, Untouched, Telling!Halves
  <2>2. OnlyMoves(t) /\ ~Occupied(t)' BY <1>8, NothingToSayDoes DEF Rested, Occupied
  <2> QED BY <2>1, <2>2, SwitchByOne
<1>9. ASSUME NEW t \in Workers, Telling!Compare(t) PROVE SwitchInv'
  <2>1. /\ Occupied(t) /\ work[t].of.what \in {"pushed", "rewritten"} /\ SameOutside /\ SameWords
        /\ UNCHANGED <<queued, item>>
    BY <1>9, CompareDoes DEF Occupied, Untouched
  <2>2. OnlyMoves(t) /\ (Occupied(t)' => work'[t].of = work[t].of /\ work'[t].wants = work[t].wants)
    BY <1>9, CompareDoes DEF Rested, Speaks, Goes, Keeps, Occupied
  <2>3. work[t].of \in Telling!Deliveries /\ Sane(work[t].of) /\ work[t].of.v \in Nat /\ latest \in Nat
    BY <2>1, AtWork, DeliveryMade, TellParts DEF Outside
  <2>4. about # "draft" BY <2>1, <2>3 DEF Sane, Whats, Telling!Halves
  <2>5. \A v \in Telling!Versions : v > latest => v # work[t].of.v BY <2>3, TellSorts DEF Sane
  <2>6. \E x : due' = [due EXCEPT ![work[t].of.v] = x] BY <1>9, CompareDoes
  <2>7. \A v \in Telling!Versions : v > latest => due'[v] = due[v] BY <2>5, <2>6, TellParts DEF PastKinds
  <2>8. work[t].of.what \notin Telling!Halves BY <2>1 DEF Telling!Halves
  <2> QED BY <2>1, <2>2, <2>4, <2>7, <2>8, SwitchByOne
<1>10. ASSUME NEW t \in Workers, Telling!ReadCommit(t) PROVE SwitchInv'
  <2>1. /\ Occupied(t) /\ work[t].step = "reading" /\ SameOutside /\ SameWords
        /\ UNCHANGED <<queued, item, due>>
    BY <1>10, ReadCommitDoes DEF Occupied, Untouched
  <2>2. work[t].of.what \notin Telling!Halves BY <2>1, AtWork DEF Held, Telling!Halves
  <2>3. OnlyMoves(t) /\ (Occupied(t)' => work'[t].of = work[t].of /\ work'[t].wants = work[t].wants)
    BY <1>10, ReadCommitDoes DEF Rested, Speaks, Goes, Keeps, Occupied
  <2> QED BY <2>1, <2>2, <2>3, SwitchByOne
<1>11. ASSUME NEW t \in Workers, Telling!Footnote(t) PROVE SwitchInv'
  <2>1. /\ Occupied(t) /\ work[t].step = "reading" /\ SameOutside /\ SameWords
        /\ UNCHANGED <<queued, item, due>>
    BY <1>11, FootnoteDoes DEF Occupied, Untouched
  <2>2. work[t].of.what \notin Telling!Halves BY <2>1, AtWork DEF Held, Telling!Halves
  <2>3. OnlyMoves(t) /\ (Occupied(t)' => work'[t].of = work[t].of /\ work'[t].wants = work[t].wants)
    BY <1>11, FootnoteDoes DEF Rested, Speaks, Goes, Keeps, Occupied
  <2> QED BY <2>1, <2>2, <2>3, SwitchByOne
<1>12. ASSUME NEW t \in Workers, Telling!Claim(t) PROVE SwitchInv'
  <2>1. /\ work[t].step \in Speaking /\ Occupied(t) /\ SameOutside /\ UNCHANGED <<queued, item, due, told, dropped>>
    BY <1>12, ClaimDoes DEF Speaking, Occupied
  <2>2. CASE Followed(t) /\ leaned' = IF work[t].key \in DOMAIN told THEN leaned ELSE leaned \cup {work[t].key}
    <3>1. InThread \cup {work[t].key} \subseteq InThread' /\ DOMAIN told' = DOMAIN told
      BY <2>1, <2>2 DEF InThread
    <3> QED BY <2>1, <2>2, <3>1, SwitchFollowed
  <2>3. CASE Goes(t, "posting", work[t].key, work[t].todo, work[t].said) /\ leaned' = leaned
    <3>1. OnlyMoves(t) /\ Occupied(t)' /\ work'[t].of = work[t].of /\ work'[t].wants = work[t].wants
      BY <2>3 DEF Goes, Keeps, Occupied
    <3>2. \A u \in Workers : Occupied(u)' => Occupied(u) /\ work'[u].wants = work[u].wants
      BY <2>1, <3>1 DEF OnlyMoves, Occupied
    <3>3. \A k : Coming(k) => Coming(k)' BY <2>1, <3>1, ComingKept
    <3>4. InThread' = InThread BY <2>1, <2>3 DEF InThread
    <3> QED BY <2>1, <3>2, <3>3, <3>4, SwitchKept DEF SameOutside
  <2> QED BY <1>12, <2>2, <2>3, ClaimDoes
<1>13. ASSUME NEW t \in Workers, Telling!Post(t) PROVE SwitchInv'
  <2>1. /\ work[t].step \in Speaking /\ SameOutside /\ UNCHANGED <<queued, item, due, leaned, dropped>>
        /\ Followed(t) /\ DOMAIN told' = DOMAIN told \cup {work[t].key}
    BY <1>13, PostDoes DEF Speaking, LineLanded
  <2>2. InThread \cup {work[t].key} \subseteq InThread' BY <2>1 DEF InThread
  <2> QED BY <2>1, <2>2, SwitchFollowed
<1>14. ASSUME NEW t \in Workers, Telling!PostFails(t) PROVE SwitchInv'
  <2>1. /\ work[t].step \in Speaking /\ Occupied(t) /\ SameOutside /\ UNCHANGED <<queued, item, due, leaned>>
    BY <1>14, PostFailsDoes DEF Speaking, Occupied
  <2>2. OnlyMoves(t) /\ Occupied(t)' /\ work'[t].of = work[t].of /\ work'[t].wants = work[t].wants
    BY <1>14, PostFailsDoes DEF Goes, Keeps, Occupied
  <2>3. \A u \in Workers : Occupied(u)' => Occupied(u) /\ work'[u].wants = work[u].wants
    BY <2>1, <2>2 DEF OnlyMoves, Occupied
  <2>4. \A k : Coming(k) => Coming(k)' BY <2>1, <2>2, ComingKept
  <2>5. DOMAIN told' \subseteq DOMAIN told \cup {work[t].key} /\ DOMAIN told \subseteq DOMAIN told' /\ dropped \subseteq dropped'
    BY <1>14, PostFailsDoes DEF LineLanded
  <2>6. \A k \in DOMAIN told' \ DOMAIN told : k[1] \in Telling!Halves => k[2] <= item.version
    <3>1. KeyIsFor(work[t]) /\ work[t].of.v <= item.version BY <2>1, AtWork
    <3> QED BY <2>5, <3>1, KeySays
  <2>7. InThread \subseteq InThread' BY <2>1, <2>5 DEF InThread
  <2> QED BY <2>1, <2>3, <2>4, <2>6, <2>7, SwitchKept DEF SameOutside
<1>15. ASSUME NEW t \in Workers, Telling!HandBack(t) PROVE SwitchInv'
  <2>1. /\ Rested(t) /\ queued' = queued \cup {work[t].of} /\ SameOutside /\ UNCHANGED <<item, due, told, leaned>>
        /\ dropped \subseteq dropped' BY <1>15, HandBackDoes
  <2>2. OnlyMoves(t) /\ \A u \in Workers : Occupied(u)' => Occupied(u) /\ work'[u].wants = work[u].wants
    BY <2>1 DEF Rested, OnlyMoves, Occupied
  <2>3. \A k : Coming(k) => Coming(k)' BY <2>1, <2>2, ComingReturned
  <2>4. InThread \subseteq InThread' BY <2>1 DEF InThread
  <2> QED BY <2>1, <2>2, <2>3, <2>4, SwitchKept DEF SameOutside
<1>16. ASSUME NEW t \in Workers, Telling!Note(t) PROVE SwitchInv'
  <2>1. /\ Occupied(t) /\ work[t].step = "noting" /\ SameOutside /\ SameWords /\ item'.wants = item.wants
        /\ UNCHANGED <<queued, due>> /\ OnlyMoves(t) /\ ~Occupied(t)'
    BY <1>16, NoteDoes DEF Occupied, Rested
  <2>2. work[t].of.what \notin Telling!Halves BY <2>1, AtWork DEF Held, Telling!Halves, Telling!Moves
  <2> QED BY <2>1, <2>2, SwitchByOne
<1>17. ASSUME NEW t \in Workers, Telling!Fails(t) PROVE SwitchInv'
  <2>1. /\ Rested(t) /\ queued' = queued \cup {work[t].of} /\ SameOutside /\ UNCHANGED <<item, due, told, leaned>>
        /\ dropped \subseteq dropped' BY <1>17, FailsDoes
  <2>2. OnlyMoves(t) /\ \A u \in Workers : Occupied(u)' => Occupied(u) /\ work'[u].wants = work[u].wants
    BY <2>1 DEF Rested, OnlyMoves, Occupied
  <2>3. \A k : Coming(k) => Coming(k)' BY <2>1, <2>2, ComingReturned
  <2>4. InThread \subseteq InThread' BY <2>1 DEF InThread
  <2> QED BY <2>1, <2>2, <2>3, <2>4, SwitchKept DEF SameOutside
<1>. QED BY <1>1, <1>2, <1>3, <1>4, <1>5, <1>6, <1>7, <1>8, <1>9, <1>10, <1>11, <1>12, <1>13, <1>14, <1>15, <1>16, <1>17, GitHubSends DEF Telling!Next

----
\* The draft switch is not announced backwards.

\* A half to be said, whose row was read when no later one had been synced.
InHand(t) ==
    /\ work[t].step \in {"claiming", "posting"} /\ work[t].of.what \in Telling!Halves
    /\ work[t].key \notin overtaken

TurnInv ==
    /\ backward = FALSE
    /\ \A t \in Workers : InHand(t) =>
          /\ ~Telling!Newer(work[t].of.v)
          /\ \A u \in Workers : Occupied(u) /\ work[u].of.what \in Telling!Halves => work[u].of.v <= work[t].of.v

LEMMA TurnAtFirst == Telling!Init => TurnInv
BY DEF Telling!Init, Telling!AtRest, TurnInv, InHand

\* Nobody begins to say a half, and who says one says what it is at.
LEMMA TurnByOne ==
  ASSUME TellShapes, TurnInv, NEW t \in Workers, OnlyMoves(t), backward' = FALSE, overtaken' = overtaken,
         \/ DOMAIN told' = DOMAIN told
         \/ DOMAIN told' = DOMAIN told \cup {work[t].key} /\ work[t].step \in Speaking,
         Occupied(t)' => Occupied(t) /\ work'[t].of = work[t].of,
         InHand(t)' => InHand(t)
  PROVE  TurnInv'
<1>1. ASSUME NEW u \in Workers, InHand(u)' PROVE InHand(u) /\ work'[u].of = work[u].of
  <2>1. CASE u = t BY <1>1, <2>1 DEF InHand, Occupied
  <2>2. CASE u # t BY <1>1, <2>2 DEF InHand, OnlyMoves
  <2>. QED BY <2>1, <2>2
<1>2. ASSUME NEW u \in Workers, Occupied(u)' PROVE Occupied(u) /\ work'[u].of = work[u].of
  BY <1>2 DEF Occupied, OnlyMoves
<1>3. ASSUME NEW u \in Workers, InHand(u)', NEW k \in DOMAIN told', k[1] \in Telling!Halves, k[2] > work[u].of.v
      PROVE  FALSE
  <2>1. InHand(u) BY <1>1, <1>3
  <2>2. k \notin DOMAIN told BY <1>3, <2>1 DEF TurnInv, Telling!Newer
  <2>3. k = work[t].key /\ work[t].step \in Speaking BY <1>3, <2>2
  <2>4. KeyIsFor(work[t]) /\ Occupied(t) BY <2>3, AtWork DEF Speaking, Occupied
  <2>5. work[t].of.what \in Telling!Halves /\ k[2] = work[t].of.v BY <1>3, <2>3, <2>4, KeySays
  <2>6. work[t].of.v <= work[u].of.v BY <2>1, <2>4, <2>5 DEF TurnInv
  <2>7. work[t].of.v \in Nat /\ work[u].of.v \in Nat
    <3>1. Occupied(u) BY <2>1 DEF InHand, Occupied
    <3>. QED BY <2>4, <3>1, AtWork, DeliveryMade
  <2>. QED BY <1>3, <2>5, <2>6, <2>7
<1>4. ASSUME NEW u \in Workers, InHand(u)' PROVE ~Telling!Newer(work[u].of.v)'
  BY <1>1, <1>3, <1>4 DEF Telling!Newer
<1>5. ASSUME NEW u \in Workers, InHand(u)', NEW w \in Workers, Occupied(w)', work'[w].of.what \in Telling!Halves
      PROVE  work'[w].of.v <= work'[u].of.v
  BY <1>1, <1>2, <1>5 DEF TurnInv
<1>. QED BY <1>4, <1>5 DEF TurnInv

LEMMA FollowedUp ==
  ASSUME NEW t \in Workers, Followed(t)
  PROVE  OnlyMoves(t) /\ (Occupied(t)' => work'[t].of = work[t].of) /\ ~InHand(t)'
BY DEF Followed, Rested, Goes, Keeps, Occupied, InHand

LEMMA TurnByNone ==
  ASSUME TurnInv, UNCHANGED <<work, told, backward, overtaken>>
  PROVE  TurnInv' BY DEF TurnInv, InHand, Occupied, Telling!Newer

LEMMA TurnHolds == TellShapes /\ SwitchInv /\ TurnInv /\ Telling!Next => TurnInv'
<1>. SUFFICES ASSUME TellShapes /\ SwitchInv /\ TurnInv, Telling!Next PROVE TurnInv' OBVIOUS
<1>0. backward = FALSE BY DEF TurnInv
<1>1. ASSUME NEW d, Sends(d) PROVE TurnInv' BY <1>1, TurnByNone DEF Sends, SameWords
<1>2. CASE Telling!Choose BY <1>2, ChooseDoes, TurnByNone DEF SameWords
<1>3. CASE Telling!Lose BY <1>3, LoseDoes, TurnByNone DEF SameWords
<1>4. CASE Telling!DiesOpening BY <1>4, DiesOpeningDoes, TurnByNone DEF SameWords
<1>5. ASSUME NEW t \in Workers, Telling!Sync(t) PROVE TurnInv'
  <2>1. PICK d \in queued :
            /\ OnlyMoves(t) /\ work[t].step = "idle" /\ work'[t].step = "judging" /\ work'[t].of = d
            /\ told' = told /\ backward' = backward /\ overtaken' = overtaken \cup Telling!OvertakenBy(d)
    BY <1>5, LineSyncDoes DEF SameWords
  <2>2. d.v \in Nat BY TellParts, DeliveryMade
  <2>3. ASSUME NEW u \in Workers, InHand(u)'
        PROVE  /\ InHand(u) /\ work'[u] = work[u]
               /\ d.what \in Telling!Halves => d.v <= work[u].of.v
    <3>1. u # t BY <2>1, <2>3 DEF InHand
    <3>2. work'[u] = work[u] BY <2>1, <3>1 DEF OnlyMoves
    <3>3. InHand(u) /\ work[u].key \notin Telling!OvertakenBy(d) BY <2>1, <2>3, <3>2 DEF InHand
    <3>4. work[u].of.v \in Nat
      <4>1. Occupied(u) BY <3>3 DEF InHand, Occupied
      <4>. QED BY <4>1, AtWork, DeliveryMade
    <3>5. d.what \in Telling!Halves => ~(work[u].of.v < d.v) BY <3>3 DEF InHand, Telling!OvertakenBy
    <3>. QED BY <2>2, <3>2, <3>3, <3>4, <3>5
  <2>4. ASSUME NEW u \in Workers, InHand(u)' PROVE ~Telling!Newer(work[u].of.v)'
    BY <2>1, <2>3, <2>4 DEF TurnInv, Telling!Newer
  <2>5. ASSUME NEW u \in Workers, InHand(u)', NEW w \in Workers, Occupied(w)', work'[w].of.what \in Telling!Halves
        PROVE  work'[w].of.v <= work'[u].of.v
    <3>1. CASE w = t BY <2>1, <2>3, <2>5, <3>1
    <3>2. CASE w # t BY <2>1, <2>3, <2>5, <3>2 DEF OnlyMoves, Occupied, TurnInv
    <3>. QED BY <3>1, <3>2
  <2>. QED BY <1>0, <2>1, <2>4, <2>5 DEF TurnInv
<1>6. ASSUME NEW t \in Workers, Telling!JudgeLabel(t) PROVE TurnInv'
  <2>1. /\ OnlyMoves(t) /\ Occupied(t) /\ (Occupied(t)' => work'[t].of = work[t].of) /\ work[t].of.what \notin Telling!Halves
    BY <1>6, JudgeLabelDoes DEF Rested, Speaks, Goes, Keeps, Occupied, Telling!Moves, Telling!Halves
  <2>2. ~InHand(t)' BY <2>1 DEF InHand, Occupied
  <2>. QED BY <1>0, <1>6, <2>1, <2>2, JudgeLabelDoes, TurnByOne DEF Untouched, SameWords
<1>7. ASSUME NEW t \in Workers, Telling!JudgeSwitch(t) PROVE TurnInv'
  <2> DEFINE says == work[t].wants /\ ~Telling!MovedOn(t)
  <2>1. /\ Occupied(t) /\ UNCHANGED <<told, backward, overtaken>> /\ OnlyMoves(t)
        /\ (Occupied(t)' => work'[t].of = work[t].of) /\ (~says => ~Occupied(t)')
    BY <1>7, JudgeSwitchDoes DEF Occupied, Untouched, SameWords, Rested, Speaks, Goes, Keeps
  <2>2. CASE ~says
    <3>1. ~InHand(t)' BY <2>1, <2>2 DEF InHand, Occupied
    <3>. QED BY <1>0, <2>1, <3>1, TurnByOne
  <2>3. CASE says
    <3>1. work[t].of.v \in Nat /\ item.version \in Nat /\ ~(work[t].of.v < item.version)
      BY <2>1, <2>3, AtWork, DeliveryMade, TellParts DEF RowSorts, ItemKinds, Telling!MovedOn
    <3>2. ~Telling!Newer(work[t].of.v)
      <4>. SUFFICES ASSUME NEW k \in DOMAIN told, k[1] \in Telling!Halves, k[2] > work[t].of.v PROVE FALSE
        BY DEF Telling!Newer
      <4>1. k[2] <= item.version /\ k[2] \in Nat BY TellParts, KeysMade DEF WordKinds, SwitchInv
      <4>. QED BY <3>1, <4>1
    <3>3. ASSUME NEW w \in Workers, Occupied(w) PROVE work[w].of.v <= work[t].of.v
      <4>1. work[w].of.v <= item.version /\ work[w].of.v \in Nat BY <3>3, AtWork, DeliveryMade
      <4>. QED BY <3>1, <4>1
    <3>4. ASSUME NEW w \in Workers PROVE work'[w].of = work[w].of /\ (Occupied(w)' => Occupied(w))
      <4>1. work'[t].of = work[t].of BY <1>7, <2>3, JudgeSwitchDoes DEF Speaks, Goes, Keeps
      <4>. QED BY <2>1, <4>1 DEF OnlyMoves, Occupied
    <3>5. ASSUME NEW u \in Workers, InHand(u)'
          PROVE  /\ ~Telling!Newer(work[u].of.v)
                 /\ \A w \in Workers : Occupied(w) /\ work[w].of.what \in Telling!Halves => work[w].of.v <= work[u].of.v
      <4>1. CASE u = t BY <3>2, <3>3, <4>1
      <4>2. CASE u # t
        <5>1. InHand(u) BY <2>1, <3>5, <4>2 DEF InHand, OnlyMoves
        <5>. QED BY <5>1 DEF TurnInv
      <4>. QED BY <4>1, <4>2
    <3>6. ASSUME NEW u \in Workers, InHand(u)' PROVE ~Telling!Newer(work[u].of.v)'
      BY <2>1, <3>4, <3>5, <3>6 DEF Telling!Newer
    <3>7. ASSUME NEW u \in Workers, InHand(u)', NEW w \in Workers, Occupied(w)', work'[w].of.what \in Telling!Halves
          PROVE  work'[w].of.v <= work'[u].of.v
      BY <3>4, <3>5, <3>7
    <3>. QED BY <1>0, <2>1, <3>6, <3>7 DEF TurnInv
  <2>. QED BY <2>2, <2>3
<1>8. ASSUME NEW t \in Workers, Telling!NothingToSay(t) PROVE TurnInv'
  <2>1. OnlyMoves(t) /\ ~Occupied(t)' /\ ~InHand(t)' BY <1>8, NothingToSayDoes DEF Rested, Occupied, InHand
  <2>. QED BY <1>0, <1>8, <2>1, NothingToSayDoes, TurnByOne DEF Untouched, SameWords
<1>9. ASSUME NEW t \in Workers, Telling!Compare(t) PROVE TurnInv'
  <2>1. OnlyMoves(t) /\ Occupied(t) /\ (Occupied(t)' => work'[t].of = work[t].of) /\ work[t].of.what \notin Telling!Halves
    BY <1>9, CompareDoes DEF Rested, Speaks, Goes, Keeps, Occupied, Telling!Halves
  <2>2. ~InHand(t)' BY <2>1 DEF InHand, Occupied
  <2>. QED BY <1>0, <1>9, <2>1, <2>2, CompareDoes, TurnByOne DEF Untouched, SameWords
<1>10. ASSUME NEW t \in Workers, Telling!ReadCommit(t) \/ Telling!Footnote(t) PROVE TurnInv'
  <2>1. work[t].step = "reading" /\ Occupied(t) BY <1>10, ReadCommitDoes, FootnoteDoes DEF Occupied
  <2>2. work[t].of.what \notin Telling!Halves BY <2>1, AtWork DEF Held, Telling!Halves
  <2>3. OnlyMoves(t) /\ (Occupied(t)' => work'[t].of = work[t].of) /\ UNCHANGED <<told, backward, overtaken>>
    BY <1>10, ReadCommitDoes, FootnoteDoes DEF Rested, Speaks, Goes, Keeps, Occupied, Untouched, SameWords
  <2>4. ~InHand(t)' BY <2>2, <2>3 DEF InHand, Occupied
  <2>. QED BY <1>0, <2>1, <2>3, <2>4, TurnByOne
<1>11. ASSUME NEW t \in Workers, Telling!Claim(t) PROVE TurnInv'
  <2>1. /\ work[t].step = "claiming" /\ Occupied(t) /\ UNCHANGED <<told, backward, overtaken>>
        /\ Followed(t) \/ Goes(t, "posting", work[t].key, work[t].todo, work[t].said)
    BY <1>11, ClaimDoes DEF Occupied
  <2>2. CASE Followed(t) BY <1>0, <2>1, <2>2, FollowedUp, TurnByOne
  <2>3. CASE Goes(t, "posting", work[t].key, work[t].todo, work[t].said)
    <3>1. OnlyMoves(t) /\ work'[t].of = work[t].of /\ work'[t].key = work[t].key BY <2>3 DEF Goes, Keeps
    <3>2. InHand(t)' => InHand(t) BY <2>1, <3>1 DEF InHand
    <3>. QED BY <1>0, <2>1, <3>1, <3>2, TurnByOne
  <2>. QED BY <2>1, <2>2, <2>3
<1>12. ASSUME NEW t \in Workers, Telling!Post(t) \/ Telling!PostFails(t) PROVE TurnInv'
  <2>1. /\ work[t].step = "posting" /\ work[t].step \in Speaking /\ Occupied(t) /\ overtaken' = overtaken
        /\ Followed(t) \/ Goes(t, "handing_back", work[t].key, work[t].todo, work[t].said)
        /\ \/ DOMAIN told' = DOMAIN told /\ backward' = backward
           \/ DOMAIN told' = DOMAIN told \cup {work[t].key} /\ backward' = (backward \/ Telling!GoesBack(work[t].key))
    BY <1>12, PostDoes, PostFailsDoes DEF LineLanded, Speaking, Occupied
  <2>2. ~Telling!GoesBack(work[t].key)
    <3>. SUFFICES ASSUME Telling!GoesBack(work[t].key) PROVE FALSE OBVIOUS
    <3>1. KeyIsFor(work[t]) BY <2>1, AtWork
    <3>2. work[t].of.what \in Telling!Halves /\ work[t].key[2] = work[t].of.v BY <3>1, KeySays DEF Telling!GoesBack
    <3>3. InHand(t) BY <2>1, <3>2 DEF InHand, Telling!GoesBack
    <3>. QED BY <3>2, <3>3 DEF TurnInv, Telling!GoesBack
  <2>3. backward' = FALSE BY <1>0, <2>1, <2>2
  <2>4. OnlyMoves(t) /\ (Occupied(t)' => work'[t].of = work[t].of) /\ ~InHand(t)'
    <3>1. CASE Followed(t) BY <3>1, FollowedUp
    <3>2. CASE Goes(t, "handing_back", work[t].key, work[t].todo, work[t].said) BY <3>2 DEF Goes, Keeps, InHand
    <3>. QED BY <2>1, <3>1, <3>2
  <2>. QED BY <2>1, <2>3, <2>4, TurnByOne
<1>13. ASSUME NEW t \in Workers, Telling!HandBack(t) \/ Telling!Note(t) \/ Telling!Fails(t) PROVE TurnInv'
  <2>1. Rested(t) /\ UNCHANGED <<told, backward, overtaken>>
    BY <1>13, HandBackDoes, NoteDoes, FailsDoes DEF SameWords
  <2>2. OnlyMoves(t) /\ ~Occupied(t)' /\ ~InHand(t)' BY <2>1 DEF Rested, Occupied, InHand
  <2>. QED BY <1>0, <2>1, <2>2, TurnByOne
<1>. QED BY <1>1, <1>2, <1>3, <1>4, <1>5, <1>6, <1>7, <1>8, <1>9, <1>10, <1>11, <1>12, <1>13, GitHubSends DEF Telling!Next

----
\* The commits of a push are said or counted.

CommitKeys(d) == {<<"commit", c>> : c \in Telling!Own(d)}

\* What a worker said of its push, or found said.
DoneOf(w) == {c \in Telling!Own(w.of) \ w.todo : <<"commit", c>> \in InThread /\ w.key # <<"commit", c>>}

ReadWell(w) ==
    /\ w.of.what = "pushed" /\ w.step \in {"reading", "claiming", "posting"} =>
          /\ due[w.of.v] = CommitKeys(w.of)
          /\ w.kept = Cardinality(Telling!Own(w.of))
          /\ w.said <= Cardinality(DoneOf(w))
    /\ w.of.what = "rewritten" /\ w.step \in Speaking => due[w.of.v] = {<<"force-push", w.of.v>>}

Accounted(v) == Cardinality(Telling!Untold(v)) <= counted[v] \/ <<"commits-left", v>> \in dropped
Underway(v) == (\E d \in queued : d.v = v) \/ \E t \in Workers : Occupied(t) /\ work[t].of.v = v

CommitsInv ==
    /\ \A v \in Telling!Versions : Accounted(v) \/ Underway(v)
    /\ \A v \in Telling!Versions : IsFiniteSet(due[v]) /\ counted[v] >= 0
    /\ \A d \in queued : d.what = "edited" => due[d.v] = {}
    /\ \A t \in Workers : Occupied(t) /\ work[t].of.what = "edited" => due[work[t].of.v] = {}
    /\ \A t \in Workers : Occupied(t) => \A w \in {work[t]} : ReadWell(w)
    /\ \A v \in Telling!Versions :
          Underway(v) /\ <<"commits-left", v>> \in DOMAIN told => <<"commits-left", v>> \in dropped

CommitInv == about = "commits" => CommitsInv

LEMMA OwnFinite ==
  ASSUME NEW d \in Telling!Deliveries
  PROVE  /\ IsFiniteSet(Telling!Own(d)) /\ Telling!Own(d) \subseteq Nat /\ Cardinality(Telling!Own(d)) \in Nat
         /\ \A S \in SUBSET Telling!Own(d) : IsFiniteSet(S) /\ Cardinality(S) \in Nat
<1>1. IsFiniteSet(Telling!Own(d)) /\ Telling!Own(d) \subseteq Nat
  BY DeliveryMade, TellSorts, CommitsFinite, FS_Subset
<1>2. ASSUME NEW S \in SUBSET Telling!Own(d) PROVE IsFiniteSet(S) /\ Cardinality(S) \in Nat
  BY <1>1, FS_Subset, FS_CardinalityType
<1>. QED BY <1>1, <1>2

LEMMA KeysCounted ==
  ASSUME NEW S, IsFiniteSet(S)
  PROVE  /\ IsFiniteSet({<<"commit", c>> : c \in S})
         /\ Cardinality({<<"commit", c>> : c \in S}) = Cardinality(S)
<1> DEFINE T == {<<"commit", c>> : c \in S}
           f == [c \in S |-> <<"commit", c>>]
<1>1. f \in [S -> T] /\ \A c, e \in S : f[c] = f[e] => c = e OBVIOUS
<1>2. \A k \in T : \E c \in S : f[c] = k OBVIOUS
<1>3. f \in Bijection(S, T) BY <1>1, <1>2 DEF Bijection, Injection, Surjection, IsInjective
<1>4. ExistsBijection(S, T) BY <1>3 DEF ExistsBijection
<1>. QED BY <1>4, FS_Bijection

\* What is not heard of and what a worker said are both of its push.
LEMMA LeftOver ==
  ASSUME NEW w, w.of \in Telling!Deliveries, due[w.of.v] = CommitKeys(w.of)
  PROVE  /\ Cardinality(Telling!Untold(w.of.v)) \in Nat /\ Cardinality(DoneOf(w)) \in Nat
         /\ Cardinality(Telling!Untold(w.of.v)) + Cardinality(DoneOf(w)) <= Cardinality(Telling!Own(w.of))
<1> DEFINE O == Telling!Own(w.of)
           U == {c \in O : <<"commit", c>> \notin InThread}
<1>1. U \in SUBSET O /\ DoneOf(w) \in SUBSET O /\ U \cap DoneOf(w) = {} /\ U \cup DoneOf(w) \in SUBSET O
  BY DEF DoneOf
<1>2. Telling!Untold(w.of.v) = {<<"commit", c>> : c \in U} BY DEF Telling!Untold, CommitKeys, InThread
<1>3. IsFiniteSet(O) /\ IsFiniteSet(U) /\ IsFiniteSet(DoneOf(w)) /\ Cardinality(U) \in Nat /\ Cardinality(DoneOf(w)) \in Nat
  BY <1>1, OwnFinite
<1> HIDE DEF U, O
<1>4. Cardinality(Telling!Untold(w.of.v)) = Cardinality(U) BY <1>2, <1>3, KeysCounted
<1>5. Cardinality(U \cup DoneOf(w)) = Cardinality(U) + Cardinality(DoneOf(w))
  <2>1. Cardinality(U \cap DoneOf(w)) = 0
    <3>1. U \cap DoneOf(w) = {} BY <1>1
    <3>2. Cardinality({}) = 0 BY FS_EmptySet
    <3>. QED BY <3>1, <3>2
  <2>2. Cardinality(U \cup DoneOf(w)) = Cardinality(U) + Cardinality(DoneOf(w)) - Cardinality(U \cap DoneOf(w))
    BY <1>3, FS_Union
  <2>. QED BY <1>3, <2>1, <2>2
<1>6. Cardinality(U \cup DoneOf(w)) <= Cardinality(O) BY <1>1, <1>3, FS_Subset
<1>. QED BY <1>3, <1>4, <1>5, <1>6 DEF O

LEMMA ReadWellKept ==
  ASSUME NEW w, w.of \in Telling!Deliveries, w.said \in Nat, ReadWell(w), due'[w.of.v] = due[w.of.v], InThread \subseteq InThread'
  PROVE  ReadWell(w)'
<1>1. DoneOf(w) \subseteq DoneOf(w)' /\ DoneOf(w)' \subseteq Telling!Own(w.of) BY DEF DoneOf
<1>2. Cardinality(DoneOf(w)) <= Cardinality(DoneOf(w)') /\ Cardinality(DoneOf(w)) \in Nat /\ Cardinality(DoneOf(w)') \in Nat
  BY <1>1, OwnFinite, FS_Subset
<1>3. CommitKeys(w.of)' = CommitKeys(w.of) BY DEF CommitKeys, Telling!Own
<1>4. Cardinality(Telling!Own(w.of))' = Cardinality(Telling!Own(w.of)) BY DEF Telling!Own
<1>. QED BY <1>2, <1>3, <1>4 DEF ReadWell

LEMMA UntoldFinite ==
  ASSUME NEW v, IsFiniteSet(due[v])
  PROVE  IsFiniteSet(Telling!Untold(v)) /\ Cardinality(Telling!Untold(v)) \in Nat
<1>1. Telling!Untold(v) \in SUBSET due[v] BY DEF Telling!Untold
<1>. QED BY <1>1, FS_Subset, FS_CardinalityType

LEMMA UntoldShrinks ==
  ASSUME NEW v, IsFiniteSet(due[v]), due'[v] = due[v], InThread \subseteq InThread'
  PROVE  /\ Cardinality(Telling!Untold(v)') <= Cardinality(Telling!Untold(v))
         /\ Cardinality(Telling!Untold(v)) \in Nat /\ Cardinality(Telling!Untold(v)') \in Nat
<1>1. Telling!Untold(v)' \in SUBSET Telling!Untold(v) BY DEF Telling!Untold, InThread
<1>. QED BY <1>1, UntoldFinite, FS_Subset, FS_CardinalityType

LEMMA SettledKept ==
  ASSUME NEW v, IsFiniteSet(due[v]), Accounted(v), counted[v] \in Int,
         due'[v] = due[v], counted'[v] = counted[v], InThread \subseteq InThread', dropped \subseteq dropped'
  PROVE  Accounted(v)' BY UntoldShrinks DEF Accounted

\* Nothing is left of what is good for nothing.
LEMMA NothingLeft ==
  ASSUME NEW v, \A k \in due[v] : k \in InThread, counted[v] >= 0 PROVE Accounted(v)
<1>1. Telling!Untold(v) = {} BY DEF Telling!Untold, InThread
<1>. QED BY <1>1, FS_EmptySet DEF Accounted

LEMMA CommitsAtFirst == Telling!Init => CommitInv
<1>. SUFFICES ASSUME Telling!Init, about = "commits" PROVE CommitsInv BY DEF CommitInv
<1>1. /\ DOMAIN told = {} /\ \A t \in Workers : ~Occupied(t)
      /\ due = [v \in Telling!Versions |-> {}] /\ counted = [v \in Telling!Versions |-> 0]
  BY DEF Telling!Init, Telling!AtRest, Occupied
<1>2. \A v \in Telling!Versions : Accounted(v) BY <1>1, NothingLeft
<1>3. \A d \in queued : d.what = "edited" => due[d.v] = {}
  <2>0. ~tagged BY DEF Telling!Init
  <2>1. queued = {Telling!Delivery(2, "edited", tagged, {})} /\ 2 \in Telling!Versions
    BY <2>0, TellSorts DEF Telling!Init
  <2>2. \A d \in queued : d.v = 2 BY <2>1 DEF Telling!Delivery
  <2>. QED BY <1>1, <2>1, <2>2
<1>4. \A v \in Telling!Versions : IsFiniteSet(due[v]) /\ counted[v] >= 0 BY <1>1, FS_EmptySet
<1>. QED BY <1>1, <1>2, <1>3, <1>4 DEF CommitsInv

\* The deliveries of somebody else are other deliveries.
LEMMA OthersApart ==
  ASSUME TellShapes, NEW t \in Workers, NEW u \in Workers, Occupied(t), Occupied(u), t # u
  PROVE  work[u].of.v # work[t].of.v BY DEF TellShapes, OneOfEach

\* One worker goes on with its delivery or is done with it.
LEMMA CommitsByOne ==
  ASSUME TellShapes, CommitsInv, NEW t \in Workers, Occupied(t), OnlyMoves(t), queued' = queued,
         NEW n, n = work[t].of.v, NEW w, w = work'[t],
         \A v \in Telling!Versions : v # n => due'[v] = due[v] /\ counted'[v] = counted[v],
         IsFiniteSet(due'[n]), counted'[n] >= 0,
         InThread \subseteq InThread', dropped \subseteq dropped',
         \A v \in Telling!Versions :
             <<"commits-left", v>> \in DOMAIN told' /\ v # n => <<"commits-left", v>> \in DOMAIN told,
         \/ /\ Occupied(t)' /\ w.of = work[t].of /\ ReadWell(w)'
            /\ w.of.what = "edited" => due'[n] = {}
            /\ <<"commits-left", n>> \in DOMAIN told' => <<"commits-left", n>> \in dropped'
         \/ ~Occupied(t)' /\ Accounted(n)'
  PROVE  CommitsInv'
<1>0. /\ n \in Telling!Versions /\ n \in Nat
      /\ \A u \in Workers : Occupied(u) => work[u].of \in Telling!Deliveries /\ work[u].of.v \in Telling!Versions /\ work[u].said \in Nat
  BY AtWork, DeliveryMade DEF WorkKinds
<1>1. \A u \in Workers \ {t} : work'[u] = work[u] /\ (Occupied(u)' <=> Occupied(u)) BY DEF OnlyMoves, Occupied
<1>2. \A d \in queued : d.v # n /\ d.v \in Telling!Versions
  BY TellParts, DeliveryMade DEF TellShapes, OneOfEach
<1>3. \A u \in Workers \ {t} : Occupied(u) => work[u].of.v # n BY OthersApart
<1>4. \A v \in Telling!Versions : v # n => (Underway(v)' <=> Underway(v))
  <2>1. \A v \in Telling!Versions : v # n /\ Underway(v) => Underway(v)' BY <1>1 DEF Underway
  <2>2. \A v \in Telling!Versions : v # n /\ Underway(v)' => Underway(v) BY <1>1 DEF Underway, Occupied
  <2>. QED BY <2>1, <2>2
<1>5. Occupied(t)' => Underway(n)' BY DEF Underway, Occupied
<1>6. ~Occupied(t)' => ~Underway(n)' BY <1>1, <1>2, <1>3 DEF Underway, Occupied
<1>7. \A v \in Telling!Versions : Accounted(v)' \/ Underway(v)'
  <2>. SUFFICES ASSUME NEW v \in Telling!Versions PROVE Accounted(v)' \/ Underway(v)' OBVIOUS
  <2>1. CASE v = n BY <1>5, <2>1
  <2>2. CASE v # n
    <3>1. counted[v] \in Int /\ IsFiniteSet(due[v]) /\ due'[v] = due[v] /\ counted'[v] = counted[v]
      BY <2>2, TellParts DEF CountKinds, CommitsInv
    <3>2. Accounted(v) => Accounted(v)' BY <3>1, SettledKept
    <3>. QED BY <1>4, <2>2, <3>2 DEF CommitsInv
  <2>. QED BY <2>1, <2>2
<1>8. \A v \in Telling!Versions : IsFiniteSet(due'[v]) /\ counted'[v] >= 0 BY DEF CommitsInv
<1>9. \A d \in queued : d.what = "edited" => due'[d.v] = {} BY <1>2 DEF CommitsInv
<1>10. \A u \in Workers : Occupied(u)' /\ work'[u].of.what = "edited" => due'[work'[u].of.v] = {}
  BY <1>0, <1>1, <1>3 DEF CommitsInv
<1>11. ASSUME NEW u \in Workers, Occupied(u)', NEW x \in {work'[u]} PROVE ReadWell(x)'
  <2>1. CASE u = t BY <1>11, <2>1
  <2>2. CASE u # t
    <3>1. x = work[u] /\ Occupied(u) BY <1>1, <1>11, <2>2
    <3>2. ReadWell(x) /\ x.of \in Telling!Deliveries /\ x.said \in Nat /\ due'[x.of.v] = due[x.of.v]
      BY <1>0, <1>3, <2>2, <3>1 DEF CommitsInv
    <3>. QED BY <3>2, ReadWellKept
  <2>. QED BY <2>1, <2>2
<1>12. \A v \in Telling!Versions :
          Underway(v)' /\ <<"commits-left", v>> \in DOMAIN told' => <<"commits-left", v>> \in dropped'
  BY <1>4, <1>6 DEF CommitsInv
<1>. QED BY <1>7, <1>8, <1>9, <1>10, <1>11, <1>12 DEF CommitsInv

\* A worker takes a delivery, or hands it back, or the pull request moves without them.
LEMMA CommitsByNone ==
  ASSUME TellShapes, CommitsInv, Telling!Next, UNCHANGED <<due, counted, told>>,
         InThread \subseteq InThread', dropped \subseteq dropped',
         \A v \in Telling!Versions : Underway(v) => Underway(v)',
         \A v \in Telling!Versions : Underway(v)' /\ ~Underway(v) => <<"commits-left", v>> \notin DOMAIN told,
         \A d \in queued' : d.what = "edited" => due[d.v] = {},
         \A t \in Workers : Occupied(t)' /\ work'[t].of.what = "edited" => due[work'[t].of.v] = {},
         \A t \in Workers : Occupied(t)' => (Occupied(t) /\ work'[t] = work[t]) \/ work'[t].step = "judging"
  PROVE  CommitsInv'
<1>0. \A u \in Workers : Occupied(u) => work[u].of \in Telling!Deliveries /\ work[u].said \in Nat
  BY AtWork DEF WorkKinds
<1>1. \A v \in Telling!Versions : Accounted(v)' \/ Underway(v)'
  <2>. SUFFICES ASSUME NEW v \in Telling!Versions PROVE Accounted(v)' \/ Underway(v)' OBVIOUS
  <2>1. counted[v] \in Int /\ IsFiniteSet(due[v]) /\ due'[v] = due[v] /\ counted'[v] = counted[v]
    BY TellParts DEF CountKinds, CommitsInv
  <2>2. Accounted(v) => Accounted(v)' BY <2>1, SettledKept
  <2>. QED BY <2>2 DEF CommitsInv
<1>2. \A v \in Telling!Versions : IsFiniteSet(due'[v]) /\ counted'[v] >= 0 BY DEF CommitsInv
<1>3. ASSUME NEW u \in Workers, Occupied(u)', NEW x \in {work'[u]} PROVE ReadWell(x)'
  <2>1. CASE x.step = "judging" BY <2>1 DEF ReadWell, Speaking
  <2>2. CASE Occupied(u) /\ x = work[u]
    <3>1. ReadWell(x) /\ x.of \in Telling!Deliveries /\ x.said \in Nat /\ due'[x.of.v] = due[x.of.v]
      BY <1>0, <2>2 DEF CommitsInv
    <3>. QED BY <3>1, ReadWellKept
  <2>. QED BY <1>3, <2>1, <2>2
<1>4. \A v \in Telling!Versions :
          Underway(v)' /\ <<"commits-left", v>> \in DOMAIN told' => <<"commits-left", v>> \in dropped'
  BY DEF CommitsInv
<1>. QED BY <1>1, <1>2, <1>3, <1>4 DEF CommitsInv

LEMMA NothingLeftThen ==
  ASSUME NEW v, \A k \in due'[v] : k \in InThread', counted'[v] >= 0 PROVE Accounted(v)'
<1>1. Telling!Untold(v)' = {} BY DEF Telling!Untold, InThread
<1>. QED BY <1>1, FS_EmptySet DEF Accounted

\* What is sent where commits are looked at.
LEMMA OnlyPushes ==
  ASSUME TellShapes, about = "commits", NEW t \in Workers, Occupied(t)
  PROVE  /\ work[t].of \in Telling!Deliveries /\ work[t].of.what \in {"edited", "pushed", "rewritten"}
         /\ work[t].of.what \notin Telling!Halves /\ ~Telling!Moves(work[t].of)
         /\ work[t].step \in Speaking => work[t].key[1] \in {"commit", "commits-left", "force-push"}
         /\ work[t].step # "noting"
<1>1. work[t].of \in Telling!Deliveries /\ Sane(work[t].of) /\ Held(work[t]) BY AtWork
<1>2. work[t].of.what \in {"edited", "pushed", "rewritten"} BY <1>1 DEF Sane, Whats
<1>3. work[t].of.what \notin Telling!Halves /\ ~Telling!Moves(work[t].of)
  BY <1>2 DEF Telling!Halves, Telling!Moves
<1>4. work[t].step \in Speaking => KeyIsFor(work[t]) BY AtWork
<1>. QED BY <1>1, <1>2, <1>3, <1>4 DEF KeyIsFor, Held, Occupied

LEMMA AboutOne ==
  ASSUME TellShapes, CommitsInv, NEW t \in Workers, Occupied(t), NEW n, n = work[t].of.v
  PROVE  /\ n \in Telling!Versions /\ n \in Nat /\ IsFiniteSet(due[n]) /\ counted[n] >= 0 /\ counted[n] \in Int
         /\ Underway(n) /\ ReadWell(work[t])
         /\ <<"commits-left", n>> \in DOMAIN told => <<"commits-left", n>> \in dropped
         /\ work[t].of.what = "edited" => due[n] = {}
<1>1. n \in Telling!Versions /\ n \in Nat /\ Underway(n) /\ counted \in [Telling!Versions -> Int]
  BY AtWork, DeliveryMade, TellParts DEF Underway, CountKinds
<1>2. ReadWell(work[t]) BY DEF CommitsInv
<1>. QED BY <1>1, <1>2 DEF CommitsInv

\* The footnote counts what is left.
LEMMA FootnoteCounts ==
  ASSUME TellShapes, CommitsInv, NEW t \in Workers, work[t].of.what = "pushed",
         work[t].step \in {"reading", "claiming", "posting"}
  PROVE  /\ Cardinality(Telling!Untold(work[t].of.v)) <= work[t].kept - work[t].said
         /\ Cardinality(Telling!Untold(work[t].of.v)) \in Nat
         /\ work[t].kept \in Nat /\ work[t].said \in Nat
<1>1. Occupied(t) /\ work[t].of \in Telling!Deliveries /\ work[t].kept \in Nat /\ work[t].said \in Nat
  BY AtWork DEF Occupied, WorkKinds
<1>2. ReadWell(work[t]) BY <1>1 DEF CommitsInv
<1>3. /\ due[work[t].of.v] = CommitKeys(work[t].of) /\ work[t].kept = Cardinality(Telling!Own(work[t].of))
      /\ work[t].said <= Cardinality(DoneOf(work[t])) BY <1>2 DEF ReadWell
<1>4. PICK w : w = work[t] OBVIOUS
<1>5. /\ Cardinality(Telling!Untold(w.of.v)) \in Nat /\ Cardinality(DoneOf(w)) \in Nat
      /\ Cardinality(Telling!Untold(w.of.v)) + Cardinality(DoneOf(w)) <= Cardinality(Telling!Own(w.of))
  BY <1>1, <1>3, <1>4, LeftOver
<1>6. w.kept = Cardinality(Telling!Own(w.of)) /\ w.said <= Cardinality(DoneOf(w)) /\ w.kept \in Nat /\ w.said \in Nat
  BY <1>1, <1>3, <1>4
<1>7. Cardinality(Telling!Untold(w.of.v)) <= w.kept - w.said BY <1>5, <1>6
<1>. QED BY <1>1, <1>4, <1>5, <1>7

\* A worker whose line is said goes on to the next commit, or is done.
LEMMA CommitsFollowed ==
  ASSUME TellShapes, CommitsInv, about = "commits", NEW t \in Workers, work[t].step \in {"claiming", "posting"}, Followed(t),
         queued' = queued, due' = due, InThread \cup {work[t].key} \subseteq InThread', dropped \subseteq dropped',
         DOMAIN told' \subseteq DOMAIN told \cup {work[t].key},
         NEW n, n = work[t].of.v,
         \A v \in Telling!Versions : v # n => counted'[v] = counted[v],
         counted'[n] >= 0, work[t].key[1] = "commits-left" => Accounted(n)'
  PROVE  CommitsInv'
<1>1. /\ Occupied(t) /\ work[t].step \in Speaking /\ KeyIsFor(work[t])
      /\ work[t].key[1] \in {"commit", "commits-left", "force-push"} /\ work[t].of \in Telling!Deliveries
      /\ work[t] \in WorkKinds BY AtWork, OnlyPushes DEF Occupied, Speaking
<1>2. /\ n \in Telling!Versions /\ n \in Nat /\ IsFiniteSet(due[n]) /\ ReadWell(work[t])
      /\ <<"commits-left", n>> \in DOMAIN told => <<"commits-left", n>> \in dropped
  BY <1>1, AboutOne
<1>3. PICK w : w = work'[t] OBVIOUS
<1>4. OnlyMoves(t) BY DEF Followed, Goes, Rested
<1>5. \A v \in Telling!Versions :
          <<"commits-left", v>> \in DOMAIN told' /\ v # n => <<"commits-left", v>> \in DOMAIN told
  <2>. SUFFICES ASSUME NEW v \in Telling!Versions, work[t].key = <<"commits-left", v>> PROVE v = n OBVIOUS
  <2>1. work[t].key[1] = "commits-left" /\ work[t].key[2] = v OBVIOUS
  <2>. QED BY <1>1, <2>1, KeySays
<1>6. CASE work[t].key[1] = "commit"
  <2>1. Goes(t, "reading", NULL, work[t].todo, work[t].said + 1) BY <1>6 DEF Followed
  <2>2. /\ w.step = "reading" /\ w.key = NULL /\ w.todo = work[t].todo /\ w.said = work[t].said + 1
        /\ w.of = work[t].of /\ w.kept = work[t].kept /\ Occupied(t)'
    BY <1>3, <2>1 DEF Goes, Keeps, Occupied
  <2>3. PICK c : work[t].key = <<"commit", c>> /\ c \in Telling!Own(work[t].of) \ work[t].todo
    BY <1>1, <1>6, KeySays
  <2>4. work[t].of.what = "pushed" BY <1>1, <1>6, KeySays
  <2>5. PICK old : old = work[t] OBVIOUS
  <2>6. c \notin DoneOf(old) /\ DoneOf(old) \cup {c} \subseteq DoneOf(w)' /\ DoneOf(w)' \subseteq Telling!Own(w.of)
    <3>1. <<"commit", c>> \in InThread' /\ \A b \in Telling!Own(w.of) : <<"commit", b>> # NULL
      BY <1>1, <2>2, <2>3, OwnFinite, KeysAreKeys
    <3>. QED BY <2>2, <2>3, <2>5, <3>1 DEF DoneOf
  <2>7. /\ Cardinality(DoneOf(old)) + 1 <= Cardinality(DoneOf(w)')
        /\ Cardinality(DoneOf(old)) \in Nat /\ Cardinality(DoneOf(w)') \in Nat
    <3>1. DoneOf(old) \in SUBSET Telling!Own(w.of) /\ DoneOf(w)' \in SUBSET Telling!Own(w.of)
      BY <2>2, <2>5, <2>6 DEF DoneOf
    <3>2. IsFiniteSet(DoneOf(old)) /\ IsFiniteSet(DoneOf(w)') /\ Cardinality(DoneOf(old)) \in Nat /\ Cardinality(DoneOf(w)') \in Nat
      BY <1>1, <2>2, <3>1, OwnFinite
    <3>3. Cardinality(DoneOf(old) \cup {c}) = Cardinality(DoneOf(old)) + 1 BY <2>6, <3>2, FS_AddElement
    <3>4. Cardinality(DoneOf(old) \cup {c}) <= Cardinality(DoneOf(w)') BY <2>6, <3>2, FS_Subset
    <3>. QED BY <3>2, <3>3, <3>4
  <2>8. /\ due[old.of.v] = CommitKeys(old.of) /\ old.kept = Cardinality(Telling!Own(old.of))
        /\ old.said <= Cardinality(DoneOf(old)) /\ old.said \in Nat
    <3>1. ReadWell(old) /\ old \in WorkKinds BY <1>1, <1>2, <2>5
    <3>. QED BY <2>4, <2>5, <3>1 DEF ReadWell, WorkKinds
  <2>9. w.said <= Cardinality(DoneOf(w)') BY <2>2, <2>5, <2>7, <2>8
  <2>10. ReadWell(w)'
    <3>1. CommitKeys(w.of)' = CommitKeys(w.of) /\ Cardinality(Telling!Own(w.of))' = Cardinality(Telling!Own(w.of))
      BY DEF CommitKeys, Telling!Own
    <3>. QED BY <2>2, <2>4, <2>5, <2>8, <2>9, <3>1 DEF ReadWell
  <2>11. <<"commits-left", n>> \in DOMAIN told' => <<"commits-left", n>> \in dropped' BY <1>2, <2>3
  <2>12. w.of.what # "edited" BY <2>2, <2>4
  <2>. QED BY <1>1, <1>2, <1>3, <1>4, <1>5, <2>2, <2>10, <2>11, <2>12, CommitsByOne
<1>7. CASE work[t].key[1] # "commit"
  <2>1. ~Occupied(t)' BY <1>1, <1>7 DEF Followed, Rested, Occupied
  <2>2. Accounted(n)'
    <3>1. CASE work[t].key[1] = "force-push"
      <4>1. work[t].of.what = "rewritten" /\ work[t].key = <<"force-push", n>> BY <1>1, <3>1, KeySays
      <4>2. due[n] = {work[t].key} BY <1>1, <1>2, <4>1 DEF ReadWell
      <4>3. \A k \in due'[n] : k \in InThread' BY <4>2
      <4>. QED BY <4>3, NothingLeftThen
    <3>. QED BY <1>1, <1>7, <3>1
  <2>. QED BY <1>1, <1>2, <1>3, <1>4, <1>5, <2>1, <2>2, CommitsByOne
<1>. QED BY <1>6, <1>7

LEMMA CommitsHold == TellShapes /\ Claims /\ SwitchInv /\ CommitsInv /\ about = "commits" /\ Telling!Next => CommitsInv'
<1>. SUFFICES ASSUME TellShapes /\ Claims /\ SwitchInv /\ CommitsInv /\ about = "commits", Telling!Next PROVE CommitsInv'
  OBVIOUS
<1>1. ASSUME NEW d, Sends(d) PROVE CommitsInv'
  <2>1. /\ d.v = latest + 1 /\ queued' = queued \cup {d} /\ Sane(d)' /\ UNCHANGED <<work, told, counted, leaned, dropped, about>>
        /\ due' = IF d.what \in Telling!Halves THEN [due EXCEPT ![latest + 1] = {<<d.what, latest + 1>>}] ELSE due
        /\ latest < MaxEvents + 2 BY <1>1 DEF Sends, SameWords
  <2>2. latest \in Nat /\ latest + 1 \in Telling!Versions BY <2>1, TellParts, TellSorts DEF Outside
  <2>3. d.what \notin Telling!Halves BY <2>1 DEF Sane, Whats, Telling!Halves
  <2>4. due' = due /\ InThread' = InThread BY <2>1, <2>3 DEF InThread
  <2>5. due[latest + 1] = {} BY <2>2 DEF SwitchInv
  <2>6. <<"commits-left", latest + 1>> \notin DOMAIN told
    <3>1. <<"commits-left", latest + 1>>[1] # "commit" /\ <<"commits-left", latest + 1>>[2] = latest + 1
      OBVIOUS
    <3> QED BY <2>2, <3>1 DEF Claims
  <2>7. \A v \in Telling!Versions : (Underway(v) => Underway(v)') /\ (Underway(v)' => Underway(v) \/ v = latest + 1)
    BY <2>1 DEF Underway, Occupied
  <2>8. \A e \in queued' : e.what = "edited" => due[e.v] = {} BY <2>1, <2>5 DEF CommitsInv
  <2>9. \A u \in Workers : Occupied(u)' => Occupied(u) /\ work'[u] = work[u] BY <2>1 DEF Occupied
  <2>10. \A u \in Workers : Occupied(u)' /\ work'[u].of.what = "edited" => due[work'[u].of.v] = {}
    BY <2>9 DEF CommitsInv
  <2> QED BY <2>1, <2>4, <2>6, <2>7, <2>8, <2>9, <2>10, CommitsByNone
<1>2. CASE Telling!Choose
  <2>1. UNCHANGED <<queued, work, due, counted, told, leaned, dropped>> BY <1>2, ChooseDoes DEF SameWords
  <2>2. InThread' = InThread /\ \A v \in Telling!Versions : (Underway(v) <=> Underway(v)')
    BY <2>1 DEF InThread, Underway, Occupied
  <2>3. \A u \in Workers : Occupied(u)' => Occupied(u) /\ work'[u] = work[u] BY <2>1 DEF Occupied
  <2>4. /\ \A d \in queued' : d.what = "edited" => due[d.v] = {}
        /\ \A u \in Workers : Occupied(u)' /\ work'[u].of.what = "edited" => due[work'[u].of.v] = {}
    BY <2>1, <2>3 DEF CommitsInv
  <2> QED BY <2>1, <2>2, <2>3, <2>4, CommitsByNone
<1>3. CASE Telling!Lose
  <2>1. UNCHANGED <<queued, work, due, counted, told, leaned, dropped>> BY <1>3, LoseDoes DEF SameWords
  <2>2. InThread' = InThread /\ \A v \in Telling!Versions : (Underway(v) <=> Underway(v)')
    BY <2>1 DEF InThread, Underway, Occupied
  <2>3. \A u \in Workers : Occupied(u)' => Occupied(u) /\ work'[u] = work[u] BY <2>1 DEF Occupied
  <2>4. /\ \A d \in queued' : d.what = "edited" => due[d.v] = {}
        /\ \A u \in Workers : Occupied(u)' /\ work'[u].of.what = "edited" => due[work'[u].of.v] = {}
    BY <2>1, <2>3 DEF CommitsInv
  <2> QED BY <2>1, <2>2, <2>3, <2>4, CommitsByNone
<1>4. CASE Telling!DiesOpening
  <2>1. UNCHANGED <<queued, work, due, counted, told, leaned, dropped>> BY <1>4, DiesOpeningDoes DEF SameWords
  <2>2. InThread' = InThread /\ \A v \in Telling!Versions : (Underway(v) <=> Underway(v)')
    BY <2>1 DEF InThread, Underway, Occupied
  <2>3. \A u \in Workers : Occupied(u)' => Occupied(u) /\ work'[u] = work[u] BY <2>1 DEF Occupied
  <2>4. /\ \A d \in queued' : d.what = "edited" => due[d.v] = {}
        /\ \A u \in Workers : Occupied(u)' /\ work'[u].of.what = "edited" => due[work'[u].of.v] = {}
    BY <2>1, <2>3 DEF CommitsInv
  <2> QED BY <2>1, <2>2, <2>3, <2>4, CommitsByNone
<1>5. ASSUME NEW t \in Workers, Telling!Sync(t) PROVE CommitsInv'
  <2>1. PICK d \in queued :
            /\ queued' = queued \ {d} /\ OnlyMoves(t) /\ work'[t].of = d /\ work[t].step = "idle"
            /\ work'[t].step = "judging" /\ UNCHANGED <<due, counted, told, leaned, dropped>>
    BY <1>5, LineSyncDoes DEF SameWords
  <2>2. InThread' = InThread BY <2>1 DEF InThread
  <2>3. \A u \in Workers : Occupied(u)' => (Occupied(u) /\ work'[u] = work[u]) \/ (u = t /\ work'[u].step = "judging")
    BY <2>1 DEF OnlyMoves, Occupied
  <2>4. \A u \in Workers : Occupied(u) => Occupied(u)' /\ work'[u] = work[u] BY <2>1 DEF OnlyMoves, Occupied
  <2>5. Occupied(t)' BY <2>1 DEF Occupied
  <2>6. \A v \in Telling!Versions : Underway(v) => Underway(v)' BY <2>1, <2>4, <2>5 DEF Underway
  <2>7. \A v \in Telling!Versions : Underway(v)' => Underway(v) BY <2>1, <2>3 DEF Underway
  <2>8. /\ \A e \in queued' : e.what = "edited" => due[e.v] = {}
        /\ \A u \in Workers : Occupied(u)' /\ work'[u].of.what = "edited" => due[work'[u].of.v] = {}
    BY <2>1, <2>3 DEF CommitsInv
  <2> QED BY <2>1, <2>2, <2>3, <2>6, <2>7, <2>8, CommitsByNone
<1>6. ASSUME NEW t \in Workers, Telling!JudgeLabel(t) PROVE CommitsInv'
  BY <1>6, JudgeLabelDoes, OnlyPushes DEF Occupied
<1>7. ASSUME NEW t \in Workers, Telling!JudgeSwitch(t) PROVE CommitsInv'
  BY <1>7, JudgeSwitchDoes, OnlyPushes DEF Occupied
<1>8. ASSUME NEW t \in Workers, Telling!NothingToSay(t) PROVE CommitsInv'
  <2>1. /\ Occupied(t) /\ OnlyMoves(t) /\ ~Occupied(t)' /\ work[t].of.what = "edited"
        /\ UNCHANGED <<queued, due, counted, told, leaned, dropped>>
    BY <1>8, NothingToSayDoes DEF Occupied, Untouched, SameWords, Rested
  <2>2. PICK n : n = work[t].of.v OBVIOUS
  <2>3. PICK w : w = work'[t] OBVIOUS
  <2>4. /\ n \in Telling!Versions /\ IsFiniteSet(due[n]) /\ counted[n] >= 0 /\ counted[n] \in Int /\ ReadWell(work[t])
        /\ <<"commits-left", n>> \in DOMAIN told => <<"commits-left", n>> \in dropped
        /\ work[t].of.what = "edited" => due[n] = {} BY <2>1, <2>2, AboutOne
  <2>5. InThread' = InThread BY <2>1 DEF InThread
  <2>6. Accounted(n)' BY <2>1, <2>4, NothingLeftThen
  <2> QED BY <2>1, <2>2, <2>3, <2>4, <2>5, <2>6, CommitsByOne
<1>9. ASSUME NEW t \in Workers, Telling!Compare(t) PROVE CommitsInv'
  <2>1. /\ Occupied(t) /\ work[t].step = "judging" /\ work[t].of.what \in {"pushed", "rewritten"}
        /\ UNCHANGED <<queued, counted, told, leaned, dropped>>
        /\ work[t].of \in Telling!Deliveries /\ work[t].said = 0
    BY <1>9, CompareDoes, AtWork DEF Occupied, Untouched, SameWords, Held
  <2>2. PICK n : n = work[t].of.v OBVIOUS
  <2>3. PICK w : w = work'[t] OBVIOUS
  <2>4. /\ n \in Telling!Versions /\ IsFiniteSet(due[n]) /\ counted[n] >= 0 /\ counted[n] \in Int /\ ReadWell(work[t])
        /\ <<"commits-left", n>> \in DOMAIN told => <<"commits-left", n>> \in dropped
        /\ work[t].of.what = "edited" => due[n] = {} BY <2>1, <2>2, AboutOne
  <2>5. InThread' = InThread BY <2>1 DEF InThread
  <2>6. \A S : due' = [due EXCEPT ![n] = S] => due'[n] = S /\ \A v \in Telling!Versions : v # n => due'[v] = due[v]
    BY <2>4, TellParts DEF PastKinds
  <2>7. CASE Rested(t) /\ due' = [due EXCEPT ![n] = {}]
    <3>1. due'[n] = {} /\ \A v \in Telling!Versions : v # n => due'[v] = due[v] BY <2>6, <2>7
    <3>2. Accounted(n)' BY <2>1, <2>4, <3>1, NothingLeftThen
    <3>3. IsFiniteSet(due'[n]) /\ OnlyMoves(t) /\ ~Occupied(t)'
      BY <2>7, <3>1, FS_EmptySet DEF Rested, Occupied
    <3> QED BY <2>1, <2>2, <2>3, <2>4, <2>5, <3>1, <3>2, <3>3, CommitsByOne
  <2>8. CASE /\ work[t].of.what = "rewritten" /\ Speaks(t, <<"force-push", n>>)
             /\ due' = [due EXCEPT ![n] = {<<"force-push", n>>}]
    <3>1. due'[n] = {<<"force-push", n>>} /\ \A v \in Telling!Versions : v # n => due'[v] = due[v]
      BY <2>6, <2>8
    <3>2. OnlyMoves(t) /\ Occupied(t)' /\ w.of = work[t].of BY <2>3, <2>8 DEF Speaks, Goes, Keeps, Occupied
    <3>3. ReadWell(w)' /\ w.of.what # "edited" BY <2>2, <2>8, <3>1, <3>2 DEF ReadWell
    <3>4. IsFiniteSet(due'[n]) BY <3>1, FS_Singleton
    <3> QED BY <2>1, <2>2, <2>3, <2>4, <2>5, <3>1, <3>2, <3>3, <3>4, CommitsByOne
  <2>9. CASE /\ work[t].of.what = "pushed" /\ OnlyMoves(t)
             /\ w.step = "reading" /\ w.of = work[t].of /\ w.said = 0 /\ w.kept = Cardinality(Telling!Own(w.of))
             /\ due' = [due EXCEPT ![n] = CommitKeys(w.of)]
    <3>1. due'[n] = CommitKeys(w.of) /\ \A v \in Telling!Versions : v # n => due'[v] = due[v] BY <2>6, <2>9
    <3>2. Occupied(t)' /\ w.of.what # "edited" BY <2>3, <2>9 DEF Occupied
    <3>3. IsFiniteSet(Telling!Own(w.of)) /\ IsFiniteSet(CommitKeys(w.of))
      BY <2>1, <2>9, OwnFinite, KeysCounted DEF CommitKeys
    <3>4. Cardinality(DoneOf(w)') \in Nat
      <4>1. DoneOf(w)' \in SUBSET Telling!Own(w.of) BY DEF DoneOf
      <4> QED BY <3>3, <4>1, FS_Subset, FS_CardinalityType
    <3>5. ReadWell(w)'
      <4>1. CommitKeys(w.of)' = CommitKeys(w.of) /\ Cardinality(Telling!Own(w.of))' = Cardinality(Telling!Own(w.of))
        BY DEF CommitKeys, Telling!Own
      <4>2. w.said <= Cardinality(DoneOf(w)') BY <2>9, <3>4
      <4> QED BY <2>2, <2>9, <3>1, <4>1, <4>2 DEF ReadWell
    <3> QED BY <2>1, <2>2, <2>3, <2>4, <2>5, <2>9, <3>1, <3>2, <3>3, <3>5, CommitsByOne
  <2> QED BY <1>9, <2>1, <2>2, <2>3, <2>7, <2>8, <2>9, CompareDoes DEF CommitKeys
<1>10. ASSUME NEW t \in Workers, Telling!ReadCommit(t) PROVE CommitsInv'
  <2>1. /\ Occupied(t) /\ work[t].step = "reading" /\ work[t].of \in Telling!Deliveries /\ work[t].of.what = "pushed"
        /\ work[t].key = NULL /\ work[t].todo \subseteq Telling!Own(work[t].of)
        /\ UNCHANGED <<queued, due, counted, told, leaned, dropped>>
    BY <1>10, ReadCommitDoes, AtWork DEF Occupied, Untouched, SameWords, Held, Speaking
  <2>2. PICK n : n = work[t].of.v OBVIOUS
  <2>3. PICK w : w = work'[t] OBVIOUS
  <2>4. /\ n \in Telling!Versions /\ IsFiniteSet(due[n]) /\ counted[n] >= 0 /\ counted[n] \in Int /\ ReadWell(work[t])
        /\ <<"commits-left", n>> \in DOMAIN told => <<"commits-left", n>> \in dropped
        /\ work[t].of.what = "edited" => due[n] = {} BY <2>1, <2>2, AboutOne
  <2>5. InThread' = InThread BY <2>1 DEF InThread
  <2>6. PICK c \in work[t].todo :
            \/ Goes(t, "claiming", <<"commit", c>>, work[t].todo \ {c}, work[t].said)
            \/ Goes(t, "reading", work[t].key, work[t].todo \ {c}, work[t].said)
    BY <1>10, ReadCommitDoes
  <2>7. /\ OnlyMoves(t) /\ w.step \in {"claiming", "reading"} /\ w.key \in {NULL, <<"commit", c>>}
        /\ w.todo = work[t].todo \ {c} /\ w.said = work[t].said /\ w.of = work[t].of /\ w.kept = work[t].kept /\ Occupied(t)'
    BY <2>1, <2>3, <2>6 DEF Goes, Keeps, Occupied
  <2>8. PICK old : old = work[t] OBVIOUS
  <2>9. DoneOf(old) \subseteq DoneOf(w)' /\ DoneOf(w)' \subseteq Telling!Own(w.of)
    <3>1. \A b \in Telling!Own(w.of) : <<"commit", b>> # NULL BY <2>1, <2>7, OwnFinite, KeysAreKeys
    <3> QED BY <2>1, <2>5, <2>6, <2>7, <2>8, <3>1 DEF DoneOf
  <2>10. Cardinality(DoneOf(old)) <= Cardinality(DoneOf(w)') /\ Cardinality(DoneOf(old)) \in Nat /\ Cardinality(DoneOf(w)') \in Nat
    <3>1. DoneOf(old) \in SUBSET Telling!Own(w.of) /\ DoneOf(w)' \in SUBSET Telling!Own(w.of) BY <2>9
    <3>2. w.of \in Telling!Deliveries BY <2>1, <2>7
    <3> QED BY <2>9, <3>1, <3>2, OwnFinite, FS_Subset
  <2>11. /\ due[old.of.v] = CommitKeys(old.of) /\ old.kept = Cardinality(Telling!Own(old.of))
         /\ old.said <= Cardinality(DoneOf(old)) /\ old.said \in Nat
    BY <2>1, <2>4, <2>8, AtWork DEF ReadWell, WorkKinds
  <2>12. ReadWell(w)'
    <3>1. CommitKeys(w.of)' = CommitKeys(w.of) /\ Cardinality(Telling!Own(w.of))' = Cardinality(Telling!Own(w.of))
      BY DEF CommitKeys, Telling!Own
    <3>2. w.said <= Cardinality(DoneOf(w)') BY <2>7, <2>8, <2>10, <2>11
    <3> QED BY <2>1, <2>7, <2>8, <2>11, <3>1, <3>2 DEF ReadWell
  <2>13. w.of.what # "edited" BY <2>1, <2>7
  <2> QED BY <2>1, <2>2, <2>3, <2>4, <2>5, <2>7, <2>12, <2>13, CommitsByOne
<1>11. ASSUME NEW t \in Workers, Telling!Footnote(t) PROVE CommitsInv'
  <2>1. /\ Occupied(t) /\ work[t].step = "reading" /\ work[t].of \in Telling!Deliveries /\ work[t].of.what = "pushed"
        /\ work[t].key = NULL
        /\ UNCHANGED <<queued, due, counted, told, leaned, dropped>>
    BY <1>11, FootnoteDoes, AtWork DEF Occupied, Untouched, SameWords, Held, Speaking
  <2>2. PICK n : n = work[t].of.v OBVIOUS
  <2>3. PICK w : w = work'[t] OBVIOUS
  <2>4. /\ n \in Telling!Versions /\ IsFiniteSet(due[n]) /\ counted[n] >= 0 /\ counted[n] \in Int /\ ReadWell(work[t])
        /\ <<"commits-left", n>> \in DOMAIN told => <<"commits-left", n>> \in dropped
        /\ work[t].of.what = "edited" => due[n] = {} BY <2>1, <2>2, AboutOne
  <2>5. InThread' = InThread BY <2>1 DEF InThread
  <2>6. CASE ~(work[t].kept > work[t].said) /\ Rested(t)
    <3>1. /\ Cardinality(Telling!Untold(n)) <= work[t].kept - work[t].said
          /\ Cardinality(Telling!Untold(n)) \in Nat /\ work[t].kept \in Nat /\ work[t].said \in Nat
      BY <2>1, <2>2, FootnoteCounts
    <3>2. Accounted(n) BY <2>4, <2>6, <3>1 DEF Accounted
    <3>3. Accounted(n)' BY <2>1, <2>4, <2>5, <3>2, SettledKept
    <3>4. OnlyMoves(t) /\ ~Occupied(t)' BY <2>6 DEF Rested, Occupied
    <3> QED BY <2>1, <2>2, <2>3, <2>4, <2>5, <3>3, <3>4, CommitsByOne
  <2>7. CASE Speaks(t, <<"commits-left", work[t].of.v>>)
    <3>1. /\ OnlyMoves(t) /\ w.step = "claiming" /\ w.key = <<"commits-left", n>>
          /\ w.todo = work[t].todo /\ w.said = work[t].said /\ w.of = work[t].of /\ w.kept = work[t].kept /\ Occupied(t)'
      BY <2>2, <2>3, <2>7 DEF Speaks, Goes, Keeps, Occupied
    <3>2. PICK old : old = work[t] OBVIOUS
    <3>3. DoneOf(old) = DoneOf(w)'
      <4>1. \A b \in Telling!Own(w.of) : <<"commit", b>> # NULL BY <2>1, <3>1, OwnFinite, KeysAreKeys
      <4> QED BY <2>1, <2>5, <3>1, <3>2, <4>1 DEF DoneOf
    <3>4. /\ due[old.of.v] = CommitKeys(old.of) /\ old.kept = Cardinality(Telling!Own(old.of))
          /\ old.said <= Cardinality(DoneOf(old))
      BY <2>1, <2>4, <3>2 DEF ReadWell
    <3>5. ReadWell(w)'
      <4>1. CommitKeys(w.of)' = CommitKeys(w.of) /\ Cardinality(Telling!Own(w.of))' = Cardinality(Telling!Own(w.of))
        BY DEF CommitKeys, Telling!Own
      <4>2. w.said <= Cardinality(DoneOf(w)') BY <3>1, <3>2, <3>3, <3>4
      <4> QED BY <2>1, <3>1, <3>2, <3>4, <4>1, <4>2 DEF ReadWell
    <3>6. w.of.what # "edited" BY <2>1, <3>1
    <3> QED BY <2>1, <2>2, <2>3, <2>4, <2>5, <3>1, <3>5, <3>6, CommitsByOne
  <2> QED BY <1>11, <2>6, <2>7, FootnoteDoes
<1>12. ASSUME NEW t \in Workers, Telling!Claim(t) PROVE CommitsInv'
  <2>1. /\ Occupied(t) /\ work[t].step = "claiming" /\ work[t].step \in Speaking
        /\ UNCHANGED <<queued, due, counted, told, dropped>>
    BY <1>12, ClaimDoes DEF Occupied, Speaking
  <2>2. PICK n : n = work[t].of.v OBVIOUS
  <2>3. PICK w : w = work'[t] OBVIOUS
  <2>4. /\ n \in Telling!Versions /\ IsFiniteSet(due[n]) /\ counted[n] >= 0 /\ counted[n] \in Int /\ ReadWell(work[t])
        /\ <<"commits-left", n>> \in DOMAIN told => <<"commits-left", n>> \in dropped
        /\ work[t].of.what = "edited" => due[n] = {} BY <2>1, <2>2, AboutOne
  <2>5. CASE /\ work[t].key \in spoken /\ Followed(t)
             /\ leaned' = IF work[t].key \in DOMAIN told THEN leaned ELSE leaned \cup {work[t].key}
    <3>1. InThread \cup {work[t].key} \subseteq InThread' BY <2>1, <2>5 DEF InThread
    <3>2. work[t].key[1] = "commits-left" => Accounted(n)'
      <4>. SUFFICES ASSUME work[t].key[1] = "commits-left" PROVE <<"commits-left", n>> \in dropped
        BY <2>1 DEF Accounted
      <4>1. KeyIsFor(work[t]) BY <2>1, AtWork
      <4>2. work[t].key = <<"commits-left", n>> BY <2>2, <4>1, KeySays
      <4>3. ASSUME NEW u \in Workers, HoldsClaim(u), work[u].key = work[t].key PROVE FALSE
        <5>1. u # t /\ Occupied(u) /\ work[u].step \in Speaking
          BY <2>1, <4>3 DEF HoldsClaim, Occupied, Speaking
        <5>2. work[u].key[2] = work[u].of.v BY <4>2, <4>3, <5>1, KeyIsOfItsTime
        <5>3. work[u].of.v = n BY <4>2, <4>3, <5>2
        <5> QED BY <2>1, <2>2, <5>1, <5>3, OthersApart
      <4> QED BY <2>4, <2>5, <4>2, <4>3 DEF Claims
    <3> QED BY <2>1, <2>2, <2>4, <2>5, <3>1, <3>2, CommitsFollowed
  <2>6. CASE Goes(t, "posting", work[t].key, work[t].todo, work[t].said) /\ leaned' = leaned
    <3>1. InThread' = InThread BY <2>1, <2>6 DEF InThread
    <3>2. /\ OnlyMoves(t) /\ w.step = "posting" /\ w.key = work[t].key
          /\ w.todo = work[t].todo /\ w.said = work[t].said /\ w.of = work[t].of /\ w.kept = work[t].kept /\ Occupied(t)'
      BY <2>3, <2>6 DEF Goes, Keeps, Occupied
    <3>3. PICK old : old = work[t] OBVIOUS
    <3>4. DoneOf(old) = DoneOf(w)' BY <3>1, <3>2, <3>3 DEF DoneOf
    <3>5. ReadWell(w)'
      <4>1. CommitKeys(w.of)' = CommitKeys(w.of) /\ Cardinality(Telling!Own(w.of))' = Cardinality(Telling!Own(w.of))
        BY DEF CommitKeys, Telling!Own
      <4>2. /\ w.of.what = "pushed" => due[w.of.v] = CommitKeys(w.of) /\ w.kept = Cardinality(Telling!Own(w.of))
                                        /\ w.said <= Cardinality(DoneOf(w)')
            /\ w.of.what = "rewritten" => due[w.of.v] = {<<"force-push", w.of.v>>}
        <5>1. ReadWell(old) /\ old.step = "claiming" /\ old.step \in Speaking BY <2>1, <2>4, <3>3
        <5> QED BY <3>2, <3>3, <3>4, <5>1 DEF ReadWell
      <4> QED BY <2>1, <4>1, <4>2 DEF ReadWell
    <3>6. w.of.what = "edited" => due'[n] = {} BY <2>1, <2>4, <3>2
    <3> QED BY <2>1, <2>2, <2>3, <2>4, <3>1, <3>2, <3>5, <3>6, CommitsByOne
  <2> QED BY <1>12, <2>5, <2>6, ClaimDoes
<1>13. ASSUME NEW t \in Workers, Telling!Post(t) PROVE CommitsInv'
  <2>1. /\ Occupied(t) /\ work[t].step = "posting" /\ LineLanded(t) /\ Followed(t)
        /\ UNCHANGED <<queued, due, leaned, dropped>>
    BY <1>13, PostDoes DEF Occupied
  <2>2. PICK n : n = work[t].of.v OBVIOUS
  <2>4. /\ n \in Telling!Versions /\ IsFiniteSet(due[n]) /\ counted[n] >= 0 /\ counted[n] \in Int /\ ReadWell(work[t])
        /\ <<"commits-left", n>> \in DOMAIN told => <<"commits-left", n>> \in dropped
        /\ work[t].of.what = "edited" => due[n] = {} BY <2>1, <2>2, AboutOne
  <2>5. KeyIsFor(work[t]) BY <2>1, AtWork DEF Speaking
  <2>6. work[t].key[1] = "commits-left" =>
            /\ Cardinality(Telling!Untold(n)) <= work[t].kept - work[t].said /\ Cardinality(Telling!Untold(n)) \in Nat
            /\ work[t].kept \in Nat /\ work[t].said \in Nat /\ work[t].kept - work[t].said >= 0
    <3>1. work[t].key[1] = "commits-left" => work[t].of.what = "pushed" BY <2>5, KeySays
    <3> QED BY <2>1, <2>2, <3>1, FootnoteCounts
  <2>7. /\ DOMAIN told' = DOMAIN told \cup {work[t].key}
        /\ counted' = IF work[t].key[1] = "commits-left" THEN [counted EXCEPT ![n] = work[t].kept - work[t].said] ELSE counted
    BY <2>1, <2>2 DEF LineLanded
  <2>8. /\ \A v \in Telling!Versions : v # n => counted'[v] = counted[v]
        /\ work[t].key[1] = "commits-left" => counted'[n] = work[t].kept - work[t].said
        /\ counted'[n] >= 0 BY <2>4, <2>6, <2>7, TellParts DEF CountKinds
  <2>9. InThread \cup {work[t].key} \subseteq InThread' BY <2>1, <2>7 DEF InThread
  <2>10. work[t].key[1] = "commits-left" => Accounted(n)'
    <3>1. /\ Cardinality(Telling!Untold(n)') <= Cardinality(Telling!Untold(n)) /\ Cardinality(Telling!Untold(n)') \in Nat
      BY <2>1, <2>4, <2>9, UntoldShrinks
    <3> QED BY <2>6, <2>8, <3>1 DEF Accounted
  <2> QED BY <2>1, <2>2, <2>7, <2>8, <2>9, <2>10, CommitsFollowed
<1>14. ASSUME NEW t \in Workers, Telling!PostFails(t) PROVE CommitsInv'
  <2>1. /\ Occupied(t) /\ work[t].step = "posting" /\ Goes(t, "handing_back", work[t].key, work[t].todo, work[t].said)
        /\ UNCHANGED <<queued, due, leaned>>
    BY <1>14, PostFailsDoes DEF Occupied
  <2>2. PICK n : n = work[t].of.v OBVIOUS
  <2>4. /\ n \in Telling!Versions /\ IsFiniteSet(due[n]) /\ counted[n] >= 0 /\ counted[n] \in Int /\ ReadWell(work[t])
        /\ <<"commits-left", n>> \in DOMAIN told => <<"commits-left", n>> \in dropped
        /\ work[t].of.what = "edited" => due[n] = {} BY <2>1, <2>2, AboutOne
  <2>5. KeyIsFor(work[t]) BY <2>1, AtWork DEF Speaking
  <2>6. work[t].key[1] = "commits-left" =>
            /\ Cardinality(Telling!Untold(n)) <= work[t].kept - work[t].said /\ Cardinality(Telling!Untold(n)) \in Nat
            /\ work[t].kept \in Nat /\ work[t].said \in Nat /\ work[t].kept - work[t].said >= 0
    <3>1. work[t].key[1] = "commits-left" => work[t].of.what = "pushed" BY <2>5, KeySays
    <3> QED BY <2>1, <2>2, <3>1, FootnoteCounts
  <2>7. PICK w : w = work'[t] OBVIOUS
  <2>8. OnlyMoves(t) /\ w.step = "handing_back" /\ w.of = work[t].of /\ Occupied(t)'
    BY <2>1, <2>7 DEF Goes, Keeps, Occupied
  <2>9. ReadWell(w)' BY <2>1, <2>4, <2>8 DEF ReadWell, Speaking
  <2>10. CASE UNCHANGED <<told, counted, dropped>>
    <3>1. InThread' = InThread BY <2>1, <2>10 DEF InThread
    <3> QED BY <2>1, <2>2, <2>4, <2>7, <2>8, <2>9, <2>10, <3>1, CommitsByOne
  <2>11. CASE LineLanded(t) /\ dropped' = dropped \cup {work[t].key}
    <3>1. /\ DOMAIN told' = DOMAIN told \cup {work[t].key}
          /\ counted' = IF work[t].key[1] = "commits-left" THEN [counted EXCEPT ![n] = work[t].kept - work[t].said] ELSE counted
      BY <2>2, <2>11 DEF LineLanded
    <3>2. /\ \A v \in Telling!Versions : v # n => counted'[v] = counted[v]
          /\ counted'[n] >= 0 BY <2>4, <2>6, <3>1, TellParts DEF CountKinds
    <3>3. InThread \subseteq InThread' /\ dropped \subseteq dropped' BY <2>1, <2>11, <3>1 DEF InThread
    <3>4. \A v \in Telling!Versions : work[t].key = <<"commits-left", v>> => v = n
      <4>. SUFFICES ASSUME NEW v \in Telling!Versions, work[t].key = <<"commits-left", v>> PROVE v = n OBVIOUS
      <4>1. work[t].key[1] = "commits-left" /\ work[t].key[2] = v OBVIOUS
      <4> QED BY <2>2, <2>5, <4>1, KeySays
    <3>5. <<"commits-left", n>> \in DOMAIN told' => <<"commits-left", n>> \in dropped' BY <2>4, <2>11, <3>1
    <3>6. \A v \in Telling!Versions :
              <<"commits-left", v>> \in DOMAIN told' /\ v # n => <<"commits-left", v>> \in DOMAIN told
      BY <3>1, <3>4
    <3>7. w.of.what = "edited" => due'[n] = {} BY <2>1, <2>4, <2>8
    <3> QED BY <2>1, <2>2, <2>4, <2>7, <2>8, <2>9, <3>2, <3>3, <3>5, <3>6, <3>7, CommitsByOne
  <2> QED BY <1>14, <2>10, <2>11, PostFailsDoes
<1>15. ASSUME NEW t \in Workers, Telling!HandBack(t) PROVE CommitsInv'
  <2>1. /\ Occupied(t) /\ Rested(t) /\ queued' = queued \cup {work[t].of} /\ UNCHANGED <<due, counted, told, leaned>>
        /\ dropped \subseteq dropped' BY <1>15, HandBackDoes DEF Occupied
  <2>2. OnlyMoves(t) /\ ~Occupied(t)' /\ \A u \in Workers : Occupied(u)' => Occupied(u) /\ work'[u] = work[u]
    BY <2>1 DEF Rested, OnlyMoves, Occupied
  <2>3. InThread \subseteq InThread' BY <2>1 DEF InThread
  <2>4. ASSUME NEW v \in Telling!Versions, Underway(v) PROVE Underway(v)'
    <3>1. CASE \E d \in queued : d.v = v BY <2>1, <3>1 DEF Underway
    <3>2. CASE v = work[t].of.v BY <2>1, <3>2 DEF Underway
    <3>3. CASE \E u \in Workers \ {t} : Occupied(u) /\ work[u].of.v = v
      BY <2>2, <3>3 DEF Underway, OnlyMoves, Occupied
    <3> QED BY <2>4, <3>1, <3>2, <3>3 DEF Underway
  <2>5. \A v \in Telling!Versions : Underway(v)' => Underway(v) BY <2>1, <2>2 DEF Underway
  <2>6. /\ \A d \in queued' : d.what = "edited" => due[d.v] = {}
        /\ \A u \in Workers : Occupied(u)' /\ work'[u].of.what = "edited" => due[work'[u].of.v] = {}
    BY <2>1, <2>2 DEF CommitsInv
  <2> QED BY <2>1, <2>2, <2>3, <2>4, <2>5, <2>6, CommitsByNone
<1>16. ASSUME NEW t \in Workers, Telling!Note(t) PROVE CommitsInv' BY <1>16, NoteDoes, OnlyPushes DEF Occupied
<1>17. ASSUME NEW t \in Workers, Telling!Fails(t) PROVE CommitsInv'
  <2>1. /\ Occupied(t) /\ Rested(t) /\ queued' = queued \cup {work[t].of} /\ UNCHANGED <<due, counted, told, leaned>>
        /\ dropped \subseteq dropped' BY <1>17, FailsDoes DEF Occupied
  <2>2. OnlyMoves(t) /\ ~Occupied(t)' /\ \A u \in Workers : Occupied(u)' => Occupied(u) /\ work'[u] = work[u]
    BY <2>1 DEF Rested, OnlyMoves, Occupied
  <2>3. InThread \subseteq InThread' BY <2>1 DEF InThread
  <2>4. ASSUME NEW v \in Telling!Versions, Underway(v) PROVE Underway(v)'
    <3>1. CASE \E d \in queued : d.v = v BY <2>1, <3>1 DEF Underway
    <3>2. CASE v = work[t].of.v BY <2>1, <3>2 DEF Underway
    <3>3. CASE \E u \in Workers \ {t} : Occupied(u) /\ work[u].of.v = v
      BY <2>2, <3>3 DEF Underway, OnlyMoves, Occupied
    <3> QED BY <2>4, <3>1, <3>2, <3>3 DEF Underway
  <2>5. \A v \in Telling!Versions : Underway(v)' => Underway(v) BY <2>1, <2>2 DEF Underway
  <2>6. /\ \A d \in queued' : d.what = "edited" => due[d.v] = {}
        /\ \A u \in Workers : Occupied(u)' /\ work'[u].of.what = "edited" => due[work'[u].of.v] = {}
    BY <2>1, <2>2 DEF CommitsInv
  <2> QED BY <2>1, <2>2, <2>3, <2>4, <2>5, <2>6, CommitsByNone
<1>. QED BY <1>1, <1>2, <1>3, <1>4, <1>5, <1>6, <1>7, <1>8, <1>9, <1>10, <1>11, <1>12, <1>13, <1>14, <1>15, <1>16, <1>17, GitHubSends DEF Telling!Next

LEMMA CommitInvHolds == TellShapes /\ Claims /\ SwitchInv /\ CommitInv /\ Telling!Next => CommitInv'
BY CommitsHold, NothingOlder DEF CommitInv

----
\* What follows for the lines.

TellInv == TellShapes /\ Claims /\ Room /\ LabelInv /\ SwitchInv /\ TurnInv /\ CommitInv

LEMMA TellInvAtFirst == Telling!Init /\ (part # "lines" => about = "labels") => TellInv
BY TellInit, ClaimsAtFirst, RoomAtFirst, LabelsAtFirst, SwitchAtFirst, TurnAtFirst, CommitsAtFirst DEF TellInv

LEMMA TellInvHolds == TellInv /\ Telling!Next => TellInv'
<1>. SUFFICES ASSUME TellInv, Telling!Next PROVE TellInv' OBVIOUS
<1>1. TellShapes /\ Claims /\ Room /\ LabelInv /\ SwitchInv /\ TurnInv /\ CommitInv BY DEF TellInv
<1>2. TellShapes' BY <1>1, TellShapesHold
<1>3. Claims' /\ Room' BY <1>1, ClaimsHold, RoomHolds
<1>4. LabelInv' /\ SwitchInv' /\ TurnInv' BY <1>1, LabelsHold, SwitchHolds, TurnHolds
<1>5. CommitInv' BY <1>1, CommitInvHolds
<1>. QED BY <1>2, <1>3, <1>4, <1>5 DEF TellInv

LEMMA TellInvAside == TellInv /\ UNCHANGED linesAside => TellInv'
<1>. SUFFICES ASSUME TellInv, UNCHANGED linesAside PROVE TellInv' OBVIOUS
<1>. USE DEF linesAside
<1>1. TellShapes'
  <2>1. TellKinds'
    BY DEF TellInv, TellShapes, TellKinds, Telling!Deliveries, Telling!LineKeys, Telling!Commits,
      Telling!Versions, Telling!Halves, WorkKinds
  <2>2. WorkPlaces'
    BY DEF TellInv, TellShapes, WorkPlaces, Held, Occupied, Sane, Whats, KeyIsFor, Telling!Moves, Telling!Own, Telling!Halves
  <2>3. OneOfEach' /\ ThreadsMade' BY DEF TellInv, TellShapes, OneOfEach, Occupied, ThreadsMade
  <2>4. (\A d \in queued : Sane(d))' /\ (item.version \in 0..latest)'
    BY DEF TellInv, TellShapes, Sane, Whats, Telling!Halves
  <2>. QED BY <2>1, <2>2, <2>3, <2>4 DEF TellShapes
<1>2. Claims' BY DEF TellInv, Claims, HoldsClaim
<1>3. Room' BY DEF TellInv, Room, RoomFor, SayingCommit
<1>4. LabelInv' BY DEF TellInv, LabelInv, InTurn, AboutToBeNoted, Occupied, Telling!Moves
<1>5. SwitchInv' BY DEF TellInv, SwitchInv, Occupied, InThread, Coming, IsHalf, Telling!Halves
<1>7. TurnInv' BY TurnByNone DEF TellInv
<1>6. CommitInv'
  <2>1. \A v : Telling!Untold(v)' = Telling!Untold(v) BY DEF Telling!Untold
  <2>2. \A v : (Accounted(v) <=> Accounted(v)') /\ (Underway(v) <=> Underway(v)')
    BY <2>1 DEF Accounted, Underway, Occupied
  <2>3. InThread' = InThread BY DEF InThread
  <2>4. \A w : ReadWell(w) <=> ReadWell(w)' BY <2>3 DEF ReadWell, DoneOf
  <2>5. CommitsInv => CommitsInv' BY <2>2, <2>4 DEF CommitsInv, Occupied
  <2>. QED BY <2>5 DEF TellInv, CommitInv
<1>. QED BY <1>1, <1>2, <1>3, <1>4, <1>5, <1>6, <1>7 DEF TellInv

LEMMA LineTypes == TellInv => Telling!TypeOK
<1>. SUFFICES ASSUME TellInv PROVE Telling!TypeOK OBVIOUS
<1>1. TellShapes /\ Claims /\ Room BY DEF TellInv
<1>2. TellKinds /\ ThreadsMade /\ WorkPlaces /\ item.version \in 0..latest /\ \A d \in queued : Sane(d)
  BY <1>1 DEF TellShapes
<1>3. item.version \in 0..latest /\ item.thread \in 0..newest /\ newest \in 0..(MaxUpsets + 1)
  BY <1>2, TellSorts DEF TellKinds, ThreadsMade
<1>4. branch \subseteq Telling!Commits /\ {tagged, item.shown, item.wants} \subseteq BOOLEAN
  BY <1>2 DEF TellKinds
<1>5. \A d \in queued : d.v \in 1..latest /\ d.fresh \subseteq Telling!Commits
  BY <1>2 DEF TellKinds, Sane, Telling!Deliveries
<1>6. ASSUME NEW t \in Workers
      PROVE  /\ work[t].key # NULL <=> work[t].step \in {"claiming", "posting", "handing_back"}
             /\ work[t].of = NULL <=> work[t].step = "idle"
             /\ work[t].step \in {"posting", "handing_back"} => work[t].key \in spoken
             /\ work[t].said + Telling!Cardinality(work[t].todo) <= PerPush
  <2>1. Held(work[t]) BY <1>2 DEF WorkPlaces
  <2>2. /\ work[t].key # NULL <=> work[t].step \in {"claiming", "posting", "handing_back"}
        /\ work[t].of = NULL <=> work[t].step = "idle"
    BY <2>1 DEF Held, Speaking
  <2>3. work[t].step \in {"posting", "handing_back"} => work[t].key \in spoken BY <1>1 DEF Claims, HoldsClaim
  <2>4. RoomFor(work[t]) BY <1>1 DEF Room
  <2>5. work[t].said \in Nat BY <1>2 DEF TellKinds, WorkKinds
  <2>6. Cardinality(work[t].todo) \in Nat BY <1>1, TodoFinite
  <2>7. work[t].said + Cardinality(work[t].todo) <= PerPush BY <2>4, <2>5, <2>6, TellSorts DEF RoomFor
  <2>. QED BY <2>2, <2>3, <2>7, CountsAlike
<1>7. DOMAIN told \subseteq spoken \cup dropped /\ ever \in {"on", "off", "nothing"}
  BY <1>1, <1>2 DEF Claims, TellKinds
<1>. QED BY <1>3, <1>4, <1>5, <1>6, <1>7 DEF Telling!TypeOK

LEMMA LinesHeard == TellInv => Telling!ThreadHears
<1>. SUFFICES ASSUME TellInv PROVE Telling!ThreadHears OBVIOUS
<1>1. TellShapes /\ Claims /\ LabelInv /\ SwitchInv /\ TurnInv /\ CommitInv BY DEF TellInv
<1>2. Telling!LinesOnce BY <1>1 DEF Telling!LinesOnce, Claims
<1>3. Telling!LabelsHeard BY <1>1 DEF Telling!LabelsHeard, LabelInv
<1>4. Telling!SwitchesHeard
  <2>1. ASSUME about = "draft", Telling!Quiet, ~chosen PROVE Telling!Untold(latest) = {}
    <3>1. \A k : ~Coming(k) BY <2>1 DEF Coming, Telling!Quiet, Occupied
    <3>2. \A k \in due[latest] : k \in InThread BY <1>1, <2>1, <3>1 DEF SwitchInv
    <3>. QED BY <3>2 DEF Telling!Untold, InThread
  <2>. QED BY <1>1, <2>1 DEF Telling!SwitchesHeard, TurnInv
<1>5. Telling!CommitsHeard
  <2>. SUFFICES ASSUME about = "commits", Telling!Quiet, NEW v \in Telling!Versions
                PROVE  LET missing == {k \in Telling!Untold(v) : k[1] = "force-push" \/ k[2] \in branch} IN
                       Telling!Cardinality(missing) <= counted[v] \/ <<"commits-left", v>> \in dropped
    BY DEF Telling!CommitsHeard
  <2> DEFINE missing == {k \in Telling!Untold(v) : k[1] = "force-push" \/ k[2] \in branch}
  <2>1. ~Underway(v) BY DEF Underway, Telling!Quiet, Occupied
  <2>2. Accounted(v) /\ IsFiniteSet(Telling!Untold(v)) BY <1>1, <2>1, UntoldFinite DEF CommitInv, CommitsInv
  <2>3. missing \subseteq Telling!Untold(v) OBVIOUS
  <2>4. counted[v] \in Int BY <1>1 DEF TellShapes, TellKinds
  <2> HIDE DEF missing
  <2>5. IsFiniteSet(missing) /\ Cardinality(missing) <= Cardinality(Telling!Untold(v))
    BY <2>2, <2>3, FS_Subset
  <2>6. Cardinality(missing) \in Nat /\ Cardinality(Telling!Untold(v)) \in Nat
    BY <2>2, <2>5, FS_CardinalityType
  <2>7. Cardinality(missing) <= counted[v] \/ <<"commits-left", v>> \in dropped
    BY <2>2, <2>4, <2>5, <2>6 DEF Accounted
  <2>8. Telling!Cardinality(missing) <= counted[v] \/ <<"commits-left", v>> \in dropped BY <2>7, CountsAlike
  <2>. QED BY <2>8 DEF missing
<1>. QED BY <1>2, <1>3, <1>4, <1>5 DEF Telling!ThreadHears

----
\* Replies: whom a reply on a diff answers.

Utterances == {NULL} \cup [by : Logins, opener : Nat]
Answers    == [id : Nat, by : Logins, opener : Nat, created : Nat \cup {NULL}]
Attempts   == [state : {"not sent", "queued", "posting", "done", "given up"}, attempts : Nat, due : Nat]

\* A comment opens a thread or stands in one that was opened before.
WellPlaced(said) ==
    \A c \in 1..Len(said) : said[c] # NULL => said[c].opener \in 1..c

ReplyKinds ==
    /\ now \in 0..LastHour /\ losses \in 0..MaxLosses /\ refusals \in Nat /\ refusals <= losses
    /\ comments \in Seq(Utterances) /\ Len(comments) <= MaxComments /\ WellPlaced(comments)
    /\ reply # NULL =>
          /\ reply \in Answers /\ reply.id \in 1..Len(comments) /\ reply.opener \in 1..(reply.id - 1)
          /\ reply.created # NULL => reply.created <= now
    /\ delivery \in Attempts /\ delivery.attempts <= MaxAttempts
    /\ delivery.state = "not sent" => delivery.attempts = 0
    /\ delivery.state # "not sent" => reply # NULL
    /\ delivery.state \in {"queued", "posting"} => delivery.attempts < MaxAttempts

\* A delivery is not due before its waits have passed.
Waited ==
    /\ delivery.state \in {"queued", "posting"} /\ reply.created # NULL =>
          delivery.due >= reply.created + HeldFor(delivery.attempts)
    /\ delivery.state = "posting" => delivery.due <= now
    /\ delivery.state = "given up" => refusals > 0

\* What was read is what GitHub had then.
ReadRight ==
    /\ delivery.state = "posting" /\ readAs # NULL =>
          /\ readAs \in Seq(Utterances) /\ WellPlaced(readAs) /\ reply.id <= Len(readAs)
          /\ answered = {[id |-> c, by |-> readAs[c].by, opener |-> readAs[c].opener] :
                            c \in {d \in 1..Len(readAs) : readAs[d] # NULL}}
    /\ rung # NULL => delivery.state = "done"
    /\ Replying!RingsWhomItAnswers

ReplyInv == ReplyKinds /\ Waited /\ ReadRight

LEMMA ReplyBounds ==
  /\ MentionLimit \in Nat \ {0} /\ MaxAttempts \in Nat \ {0}
  /\ WaitsForGitHub \in Nat /\ LastHour \in Nat /\ MaxComments \in Nat /\ MaxLosses \in Nat
BY TellingAssumption DEF Replying!RepliesAssumption

\* So many waits come to one wait more than one fewer.
LEMMA WaitsAddUp ==
  /\ HeldFor(0) = 0
  /\ \A a \in 0..(MaxAttempts - 1) :
        /\ HeldFor(a) \in Nat /\ BackoffFor(a) \in Nat
        /\ HeldFor(a + 1) = HeldFor(a) + BackoffFor(a)
  /\ WaitsForGitHub <= HeldFor(MaxAttempts - 1)
<1>1. Replying!HeldForIsTheSum /\ WaitsForGitHub <= HeldFor(MaxAttempts - 1)
  BY TellingAssumption DEF Replying!RepliesAssumption, Replying!TotalBackoff
<1>. QED BY <1>1 DEF Replying!HeldForIsTheSum

LEMMA ReplyAtFirst == Replying!Init => ReplyInv
<1>. SUFFICES ASSUME Replying!Init PROVE ReplyInv OBVIOUS
<1>1. comments = <<>> /\ reply = NULL /\ rung = NULL BY DEF Replying!Init
<1>2. delivery = [state |-> "not sent", attempts |-> 0, due |-> 0] BY DEF Replying!Init, Replying!NotSent
<1>3. comments \in Seq(Utterances) /\ Len(comments) = 0 BY <1>1, EmptySeq
<1>4. delivery \in Attempts /\ delivery.state = "not sent" BY <1>2 DEF Attempts
<1>5. delivery.attempts = 0 BY <1>2
<1>6. now \in 0..LastHour /\ losses \in 0..MaxLosses /\ refusals \in Nat /\ refusals <= losses
  <2>1. now = 0 /\ losses = 0 /\ refusals = 0 BY DEF Replying!Init
  <2>. QED BY <2>1, ReplyBounds
<1>7. Len(comments) <= MaxComments BY <1>3, ReplyBounds
<1>8. delivery.attempts <= MaxAttempts BY <1>5, ReplyBounds
<1>9. WellPlaced(comments) BY <1>3 DEF WellPlaced
<1>10. ReplyKinds BY <1>1, <1>3, <1>4, <1>5, <1>6, <1>7, <1>8, <1>9 DEF ReplyKinds
<1>11. Waited BY <1>4 DEF Waited
<1>12. ReadRight BY <1>1, <1>4 DEF ReadRight, Replying!RingsWhomItAnswers
<1>. QED BY <1>10, <1>11, <1>12 DEF ReplyInv

LEMMA ReplyAside == ReplyInv /\ UNCHANGED repliesAside => ReplyInv'
<1>. SUFFICES ASSUME ReplyInv, UNCHANGED repliesAside PROVE ReplyInv' OBVIOUS
<1>. USE DEF repliesAside
<1>1. ReplyKinds' BY DEF ReplyInv, ReplyKinds, WellPlaced, Utterances, Answers, Attempts
<1>2. Waited' BY DEF ReplyInv, Waited
<1>3. Replying!RingsWhomItAnswers'
  BY DEF ReplyInv, ReadRight, Replying!RingsWhomItAnswers, Replying!Cardinality
<1>4. ReadRight' BY <1>3 DEF ReplyInv, ReadRight, WellPlaced, Utterances
<1>. QED BY <1>1, <1>2, <1>4 DEF ReplyInv

LEMMA Talked ==
  ASSUME NEW said \in Seq(Utterances)
  PROVE  Len(said) \in Nat /\ DOMAIN said = 1..Len(said) /\ \A c \in 1..Len(said) : said[c] \in Utterances
BY LenProperties, ElementOfSeq

LEMMA ReplyParts ==
  ASSUME ReplyKinds
  PROVE  /\ now \in Nat /\ now <= LastHour /\ losses \in Nat /\ losses <= MaxLosses /\ refusals \in Nat
         /\ comments \in Seq(Utterances) /\ WellPlaced(comments)
         /\ delivery \in Attempts /\ delivery.attempts \in Nat
         /\ reply # NULL => /\ reply \in Answers /\ reply.id \in Nat /\ reply.opener \in Nat
                            /\ reply.id >= 1 /\ reply.id <= Len(comments)
                            /\ reply.opener >= 1 /\ reply.opener < reply.id
                            /\ reply.created # NULL => reply.created \in Nat /\ reply.created <= now
<1>1. /\ now \in 0..LastHour /\ losses \in 0..MaxLosses /\ refusals \in Nat
      /\ comments \in Seq(Utterances) /\ WellPlaced(comments) /\ delivery \in Attempts
  BY DEF ReplyKinds
<1>2. now \in Nat /\ now <= LastHour /\ losses \in Nat /\ losses <= MaxLosses BY <1>1, ReplyBounds
<1>3. delivery.attempts \in Nat BY <1>1 DEF Attempts
<1>4. ASSUME reply # NULL
      PROVE  /\ reply \in Answers /\ reply.id \in Nat /\ reply.opener \in Nat
             /\ reply.id >= 1 /\ reply.id <= Len(comments)
             /\ reply.opener >= 1 /\ reply.opener < reply.id
             /\ reply.created # NULL => reply.created \in Nat /\ reply.created <= now
  <2>1. /\ reply \in Answers /\ reply.id \in 1..Len(comments) /\ reply.opener \in 1..(reply.id - 1)
        /\ reply.created # NULL => reply.created <= now BY <1>4 DEF ReplyKinds
  <2>2. reply.id \in Nat /\ reply.opener \in Nat /\ (reply.created # NULL => reply.created \in Nat)
    BY <2>1 DEF Answers
  <2>3. Len(comments) \in Nat BY <1>1, Talked
  <2>. QED BY <2>1, <2>2, <2>3
<1>. QED BY <1>1, <1>2, <1>3, <1>4

LEMMA CommentAdds ==
  ASSUME ReplyKinds, NEW by \in Logins, NEW opener \in 1..MaxComments, Replying!Comment(by, opener)
  PROVE  /\ comments' \in Seq(Utterances) /\ Len(comments') = Len(comments) + 1 /\ Len(comments') <= MaxComments
         /\ WellPlaced(comments)' /\ delivery.state \notin {"done", "given up"}
         /\ Len(comments) \in Nat
<1> DEFINE new == [by |-> by, opener |-> opener]
<1>1. /\ comments' = Append(comments, new) /\ Len(comments) < MaxComments /\ opener \in 1..(Len(comments) + 1)
      /\ delivery.state \notin {"done", "given up"}
  BY DEF Replying!Comment, Replying!Unsettled
<1>2. comments \in Seq(Utterances) /\ WellPlaced(comments) /\ Len(comments) \in Nat BY ReplyParts, Talked
<1>3. new \in Utterances /\ new.opener = opener
  <2>1. opener \in Nat OBVIOUS
  <2>. QED BY <2>1 DEF Utterances
<1> HIDE DEF new
<1>4. comments' \in Seq(Utterances) /\ Len(comments') = Len(comments) + 1 /\ Len(comments') <= MaxComments
  <2>1. comments' \in Seq(Utterances) /\ Len(comments') = Len(comments) + 1
    BY <1>1, <1>2, <1>3, AppendProperties
  <2>2. Len(comments) + 1 <= MaxComments
    <3>1. Len(comments) < MaxComments BY <1>1
    <3>. QED BY <1>2, <3>1, ReplyBounds
  <2>. QED BY <2>1, <2>2
<1>5. \A c \in 1..Len(comments) : comments'[c] = comments[c]
  <2>1. \A c \in 1..Len(comments) : Append(comments, new)[c] = comments[c] BY <1>2, <1>3, AppendProperties
  <2>. QED BY <1>1, <2>1
<1>6. comments'[Len(comments) + 1] = new BY <1>1, <1>2, <1>3, AppendProperties
<1>7. WellPlaced(comments)'
  <2>. SUFFICES ASSUME NEW c \in 1..Len(comments'), comments'[c] # NULL PROVE comments'[c].opener \in 1..c
    BY DEF WellPlaced
  <2>1. CASE c = Len(comments) + 1 BY <2>1, <1>1, <1>3, <1>6
  <2>2. CASE c # Len(comments) + 1
    <3>1. c \in 1..Len(comments) BY <2>2, <1>2, <1>4
    <3>. QED BY <3>1, <1>2, <1>5 DEF WellPlaced
  <2>. QED BY <2>1, <2>2
<1>. QED BY <1>1, <1>2, <1>4, <1>7

LEMMA DeleteTakes ==
  ASSUME ReplyKinds, NEW c \in 1..MaxComments, Replying!Delete(c)
  PROVE  /\ comments' \in Seq(Utterances) /\ Len(comments') = Len(comments) /\ Len(comments) \in Nat
         /\ WellPlaced(comments)' /\ delivery.state \notin {"done", "given up"}
         /\ losses < MaxLosses /\ losses' = losses + 1
         /\ UNCHANGED <<now, reply, delivery, answered, rung, readAs, refusals>>
<1>1. /\ comments' = [comments EXCEPT ![c] = NULL] /\ c \in DOMAIN comments
      /\ delivery.state \notin {"done", "given up"} /\ losses < MaxLosses /\ losses' = losses + 1
      /\ UNCHANGED <<now, reply, delivery, answered, rung, readAs, refusals>>
  BY DEF Replying!Delete, Replying!Unsettled, Replying!Upset, Replying!here
<1>2. comments \in Seq(Utterances) /\ WellPlaced(comments) /\ Len(comments) \in Nat /\ DOMAIN comments = 1..Len(comments)
  BY ReplyParts, Talked
<1>3. comments' \in Seq(Utterances) /\ Len(comments') = Len(comments)
  <2>1. NULL \in Utterances BY DEF Utterances
  <2>2. c \in 1..Len(comments) BY <1>1, <1>2
  <2>3. [comments EXCEPT ![c] = NULL] \in Seq(Utterances) /\ Len([comments EXCEPT ![c] = NULL]) = Len(comments)
    BY <1>2, <2>1, <2>2, ExceptSeq
  <2>. QED BY <1>1, <2>3
<1>4. \A d \in 1..Len(comments) : comments'[d] # NULL => comments'[d] = comments[d] BY <1>1, <1>2
<1>5. WellPlaced(comments)' BY <1>2, <1>3, <1>4 DEF WellPlaced
<1>. QED BY <1>1, <1>2, <1>3, <1>5

\* An attempt failed: another is due later, or there is none left.
LEMMA FailedDoes ==
  ASSUME ReplyKinds, Replying!Failed, delivery.state \in {"queued", "posting"}
  PROVE  /\ delivery' \in Attempts /\ delivery.attempts \in 0..(MaxAttempts - 1)
         /\ delivery'.attempts = delivery.attempts + 1
         /\ \/ delivery'.state = "given up" /\ delivery.attempts = MaxAttempts - 1
            \/ /\ delivery'.state = "queued" /\ delivery'.attempts < MaxAttempts
               /\ delivery'.due = now + BackoffFor(delivery.attempts)
<1>1. delivery \in Attempts /\ delivery.attempts \in Nat /\ now \in Nat BY ReplyParts
<1>2. delivery.attempts \in 0..(MaxAttempts - 1)
  <2>1. delivery.attempts < MaxAttempts BY DEF ReplyKinds
  <2>. QED BY <1>1, <2>1, ReplyBounds
<1>3. BackoffFor(delivery.attempts) \in Nat BY <1>2, WaitsAddUp
<1>4. now + BackoffFor(delivery.attempts) \in Nat BY <1>1, <1>3
<1>5. CASE delivery.attempts + 1 >= MaxAttempts
  <2>1. delivery' = [delivery EXCEPT !.state = "given up", !.attempts = @ + 1] BY <1>5 DEF Replying!Failed
  <2>2. delivery' \in Attempts /\ delivery'.attempts = delivery.attempts + 1 /\ delivery'.state = "given up"
    <3>1. delivery.attempts + 1 \in Nat BY <1>1
    <3>. QED BY <1>1, <2>1, <3>1 DEF Attempts
  <2>3. delivery.attempts = MaxAttempts - 1 BY <1>2, <1>5, ReplyBounds
  <2>. QED BY <1>2, <2>2, <2>3
<1>6. CASE ~(delivery.attempts + 1 >= MaxAttempts)
  <2> DEFINE b == now + BackoffFor(delivery.attempts)
  <2>1. delivery' = [state |-> "queued", attempts |-> delivery.attempts + 1, due |-> b]
    BY <1>6 DEF Replying!Failed
  <2> HIDE DEF b
  <2>2. b \in Nat BY <1>4 DEF b
  <2>3. delivery' \in Attempts /\ delivery'.attempts = delivery.attempts + 1 /\ delivery'.state = "queued" /\ delivery'.due = b
    <3>1. delivery.attempts + 1 \in Nat BY <1>1
    <3>. QED BY <2>1, <2>2, <3>1 DEF Attempts
  <2>4. delivery'.attempts < MaxAttempts BY <1>2, <1>6, <2>3, ReplyBounds
  <2>. QED BY <1>2, <2>3, <2>4 DEF b
<1>. QED BY <1>5, <1>6

LEMMA EarliestOf ==
  ASSUME NEW S, S \subseteq Nat, S # {} PROVE \E m \in S : \A k \in S : m <= k
<1>1. PICK m \in S : \A k \in S : <<k, m>> \notin OpToRel(<, Nat) BY NatLessThanWellFounded, WFMin
<1>2. \A k \in S : ~(k < m) BY <1>1 DEF OpToRel
<1>3. \A k \in S : m <= k BY <1>2
<1>. QED BY <1>3

\* Who stood in the thread before the reply, and who of them rings first.
LEMMA RingsRightly ==
  ASSUME ReplyKinds, ReadRight, delivery.state = "posting", readAs # NULL
  PROVE  LET before == {c \in 1..(reply.id - 1) : readAs[c] # NULL /\ readAs[c].opener = reply.opener}
             members == {Account(readAs[c].by) : c \in before} \ {Account(reply.by)}
         IN  /\ Replying!Rings \subseteq members
             /\ reply.opener \in before /\ readAs[reply.opener].by # reply.by =>
                    Account(readAs[reply.opener].by) \in Replying!Rings \cup {Account(reply.by)}
             /\ Cardinality({readAs[c].by : c \in before} \ {reply.by}) <= MentionLimit =>
                    Replying!Rings = members
<1> DEFINE before == {c \in 1..(reply.id - 1) : readAs[c] # NULL /\ readAs[c].opener = reply.opener}
           entry(c) == [id |-> c, by |-> readAs[c].by, opener |-> readAs[c].opener]
           apart == {c \in before : readAs[c].by # reply.by}
           others == {r \in answered : Replying!Earlier(r) /\ r.by # reply.by}
           firsts == {c \in apart : \A d \in apart : readAs[d].by = readAs[c].by => c <= d}
           rank(c) == Cardinality({q \in Replying!FirstWords : q.id < c})
           logins == {readAs[c].by : c \in apart}
           members == {Account(readAs[c].by) : c \in before} \ {Account(reply.by)}
<1>1. /\ readAs \in Seq(Utterances) /\ WellPlaced(readAs) /\ reply.id <= Len(readAs)
      /\ answered = {entry(c) : c \in {d \in 1..Len(readAs) : readAs[d] # NULL}}
  BY DEF ReadRight
<1>2. /\ reply.id \in Nat /\ reply.opener \in Nat /\ reply.id >= 1 /\ reply.opener >= 1 /\ reply.opener < reply.id
      /\ Len(readAs) \in Nat
  <2>1. reply # NULL BY DEF ReplyKinds
  <2>. QED BY <2>1, <1>1, ReplyParts, Talked
<1>3. before \subseteq Nat /\ apart \subseteq before /\ firsts \subseteq apart /\ IsFiniteSet(before)
  <2>1. IsFiniteSet(1..(reply.id - 1)) /\ 1..(reply.id - 1) \subseteq Nat
    <3>1. 1 \in Int /\ reply.id - 1 \in Int BY <1>2
    <3>2. IsFiniteSet(1..(reply.id - 1)) BY <3>1, FS_Interval
    <3>. QED BY <3>1, <3>2
  <2>2. before \in SUBSET (1..(reply.id - 1)) OBVIOUS
  <2>. QED BY <2>1, <2>2, FS_Subset
<1>4. \A c \in before : c \in 1..Len(readAs) /\ c < reply.id /\ readAs[c] # NULL BY <1>1, <1>2
<1>5. others = {entry(c) : c \in apart}
  <2>1. ASSUME NEW r \in others PROVE r \in {entry(c) : c \in apart}
    <3>1. PICK c \in 1..Len(readAs) : readAs[c] # NULL /\ r = entry(c) BY <1>1
    <3>2. r.id = c /\ r.by = readAs[c].by /\ r.opener = readAs[c].opener BY <3>1
    <3>3. r.opener = reply.opener /\ r.id < reply.id /\ r.by # reply.by BY DEF Replying!Earlier
    <3>4. c \in 1..(reply.id - 1) BY <3>2, <3>3, <1>2
    <3>5. c \in apart BY <3>1, <3>2, <3>3, <3>4
    <3>. QED BY <3>1, <3>5
  <2>2. ASSUME NEW c \in apart PROVE entry(c) \in others
    <3>1. entry(c) \in answered BY <1>1, <1>4
    <3>2. entry(c).id = c /\ entry(c).by = readAs[c].by /\ entry(c).opener = readAs[c].opener OBVIOUS
    <3>3. c < reply.id /\ readAs[c].opener = reply.opener /\ readAs[c].by # reply.by BY <1>4
    <3>. QED BY <3>1, <3>2, <3>3 DEF Replying!Earlier
  <2>. QED BY <2>1, <2>2
<1>6. Replying!FirstWords = {entry(c) : c \in firsts}
  <2>1. Replying!FirstWords = {r \in others : \A q \in others : q.by = r.by => r.id <= q.id}
    BY DEF Replying!FirstWords
  <2>2. \A c : entry(c).id = c /\ entry(c).by = readAs[c].by OBVIOUS
  <2> HIDE DEF others, entry
  <2>3. ASSUME NEW c \in apart
        PROVE  (\A q \in others : q.by = entry(c).by => entry(c).id <= q.id) <=> c \in firsts
    BY <2>2, <1>5
  <2> HIDE DEF firsts, apart
  <2>. QED BY <2>1, <2>3, <1>3, <1>5
<1>7. \A l \in logins : \E c \in firsts : readAs[c].by = l
  <2>. SUFFICES ASSUME NEW l \in logins PROVE \E c \in firsts : readAs[c].by = l OBVIOUS
  <2> DEFINE S == {c \in apart : readAs[c].by = l}
  <2>1. S \subseteq Nat /\ S # {} BY <1>3
  <2>2. PICK m \in S : \A k \in S : m <= k BY <2>1, EarliestOf
  <2>. QED BY <2>2
<1>8. Replying!EveryoneItAnswers = {readAs[c].by : c \in {d \in firsts : rank(d) < MentionLimit}}
  <2>1. Replying!EveryoneItAnswers = {r.by : r \in {q \in Replying!FirstWords : rank(q.id) < MentionLimit}}
    BY CountsAlike DEF Replying!EveryoneItAnswers
  <2>2. \A c : entry(c).id = c /\ entry(c).by = readAs[c].by OBVIOUS
  <2> HIDE DEF rank, entry, firsts
  <2>3. {q \in Replying!FirstWords : rank(q.id) < MentionLimit} = {entry(c) : c \in {d \in firsts : rank(d) < MentionLimit}}
    BY <1>6, <2>2
  <2>. QED BY <2>1, <2>2, <2>3
<1>9. Replying!Rings = {Account(l) : l \in Replying!EveryoneItAnswers} \ {Account(reply.by)}
  BY DEF Replying!Rings
<1>10. Replying!Rings \subseteq members
  <2> HIDE DEF rank
  <2>1. \A l \in Replying!EveryoneItAnswers : \E c \in before : l = readAs[c].by BY <1>3, <1>8
  <2>. QED BY <1>9, <2>1
<1>11. ASSUME reply.opener \in before, readAs[reply.opener].by # reply.by
       PROVE  Account(readAs[reply.opener].by) \in Replying!Rings \cup {Account(reply.by)}
  <2>1. \A c \in apart : reply.opener <= c
    <3>. SUFFICES ASSUME NEW c \in apart PROVE reply.opener <= c OBVIOUS
    <3>1. c \in 1..Len(readAs) /\ readAs[c] # NULL /\ readAs[c].opener = reply.opener BY <1>4
    <3>2. readAs[c].opener \in 1..c BY <1>1, <3>1 DEF WellPlaced
    <3>. QED BY <1>2, <3>1, <3>2
  <2>2. reply.opener \in firsts BY <2>1, <1>11
  <2>3. {q \in Replying!FirstWords : q.id < reply.opener} = {}
    <3>1. \A q \in Replying!FirstWords : \E c \in apart : q.id = c BY <1>3, <1>6
    <3>2. \A c \in apart : ~(c < reply.opener) BY <1>2, <1>3, <2>1
    <3>. QED BY <3>1, <3>2
  <2>4. rank(reply.opener) < MentionLimit BY <2>3, FS_EmptySet, ReplyBounds
  <2> HIDE DEF rank, firsts
  <2>5. readAs[reply.opener].by \in Replying!EveryoneItAnswers BY <2>2, <2>4, <1>8
  <2>. QED BY <2>5, <1>9
<1>12. ASSUME Cardinality({readAs[c].by : c \in before} \ {reply.by}) <= MentionLimit
       PROVE  Replying!Rings = members
  <2>1. logins = {readAs[c].by : c \in before} \ {reply.by} OBVIOUS
  <2>2. IsFiniteSet(apart) /\ IsFiniteSet(firsts) BY <1>3, FS_Subset
  <2> DEFINE says == [c \in firsts |-> readAs[c].by]
             rows == [c \in firsts |-> entry(c)]
  <2>3. says \in Bijection(firsts, logins)
    <3>1. says \in [firsts -> logins] BY <1>3
    <3>2. \A c, d \in firsts : says[c] = says[d] => c = d BY <1>3
    <3>3. \A l \in logins : \E c \in firsts : says[c] = l BY <1>7
    <3> HIDE DEF says, firsts, logins
    <3>. QED BY <3>1, <3>2, <3>3 DEF Bijection, Injection, Surjection, IsInjective
  <2>4. rows \in Bijection(firsts, Replying!FirstWords)
    <3>1. rows \in [firsts -> Replying!FirstWords] /\ \A r \in Replying!FirstWords : \E c \in firsts : rows[c] = r
      <4> HIDE DEF entry, firsts
      <4>. QED BY <1>6
    <3>2. \A c, d \in firsts : rows[c] = rows[d] => c = d
      <4>1. \A c, d : entry(c) = entry(d) => c = d
        <5>1. \A c : entry(c).id = c OBVIOUS
        <5> HIDE DEF entry
        <5>. QED BY <5>1
      <4> HIDE DEF entry, firsts
      <4>. QED BY <4>1
    <3> HIDE DEF rows, firsts
    <3>. QED BY <3>1, <3>2 DEF Bijection, Injection, Surjection, IsInjective
  <2>5. /\ Cardinality(logins) = Cardinality(firsts)
        /\ Cardinality(Replying!FirstWords) = Cardinality(firsts) /\ IsFiniteSet(Replying!FirstWords)
    <3> HIDE DEF says, rows, firsts, logins
    <3>. QED BY <2>2, <2>3, <2>4, FS_Bijection DEF ExistsBijection
  <2>6. \A c \in firsts : rank(c) < MentionLimit
    <3>. SUFFICES ASSUME NEW c \in firsts PROVE rank(c) < MentionLimit OBVIOUS
    <3> DEFINE sooner == {q \in Replying!FirstWords : q.id < c}
    <3>1. entry(c) \in Replying!FirstWords /\ entry(c).id = c /\ c \in Nat BY <1>3, <1>6
    <3>2. entry(c) \notin sooner /\ sooner \in SUBSET Replying!FirstWords BY <3>1
    <3> HIDE DEF sooner, entry, firsts, logins
    <3>3. IsFiniteSet(sooner) /\ Cardinality(sooner) <= Cardinality(Replying!FirstWords)
          /\ (Cardinality(Replying!FirstWords) = Cardinality(sooner) => Replying!FirstWords = sooner)
      BY <2>5, <3>2, FS_Subset
    <3>4. Cardinality(sooner) \in Nat /\ Cardinality(Replying!FirstWords) \in Nat
      BY <2>5, <3>3, FS_CardinalityType
    <3>5. Cardinality(Replying!FirstWords) # Cardinality(sooner) BY <3>1, <3>2, <3>3
    <3>6. Cardinality(Replying!FirstWords) <= MentionLimit BY <1>12, <2>1, <2>5
    <3>7. Cardinality(sooner) < MentionLimit BY <3>3, <3>4, <3>5, <3>6, ReplyBounds
    <3>. QED BY <3>7 DEF sooner
  <2>7. Replying!EveryoneItAnswers = logins
    <3>1. {d \in firsts : rank(d) < MentionLimit} = firsts BY <2>6
    <3>2. Replying!EveryoneItAnswers = {readAs[c].by : c \in firsts} BY <1>8, <3>1
    <3> HIDE DEF rank, firsts
    <3>3. {readAs[c].by : c \in firsts} = logins BY <1>3, <1>7
    <3>. QED BY <3>2, <3>3
  <2>8. Replying!Rings = {Account(l) : l \in logins} \ {Account(reply.by)} BY <1>9, <2>7
  <2>9. ASSUME NEW a \in members PROVE a \in {Account(l) : l \in logins}
    <3>1. PICK c \in before : a = Account(readAs[c].by) /\ a # Account(reply.by) OBVIOUS
    <3>2. c \in apart BY <3>1
    <3>. QED BY <3>1, <3>2
  <2>. QED BY <1>3, <2>8, <2>9
<1>. QED BY <1>10, <1>11, <1>12

LEMMA RungStays ==
  /\ ReadRight /\ UNCHANGED <<reply, rung, readAs>> => Replying!RingsWhomItAnswers'
  /\ rung' = NULL => Replying!RingsWhomItAnswers'
<1>1. ASSUME ReadRight, UNCHANGED <<reply, rung, readAs>> PROVE Replying!RingsWhomItAnswers'
  BY <1>1 DEF ReadRight, Replying!RingsWhomItAnswers, Replying!Cardinality
<1>2. ASSUME rung' = NULL PROVE Replying!RingsWhomItAnswers' BY <1>2 DEF Replying!RingsWhomItAnswers
<1>. QED BY <1>1, <1>2

\* Nothing becomes of the reply's delivery.
LEMMA ReadStays ==
  ASSUME ReadRight, UNCHANGED <<reply, delivery, answered, rung, readAs>> PROVE ReadRight'
<1>1. Replying!RingsWhomItAnswers' BY RungStays
<1>. QED BY <1>1 DEF ReadRight, WellPlaced, Utterances

\* It is queued, or at an end, and nobody was rung.
LEMMA NobodyRung ==
  ASSUME rung' = NULL, delivery'.state # "posting" PROVE ReadRight' BY RungStays DEF ReadRight

LEMMA OnlyDoneRings == ASSUME ReadRight, delivery.state # "done" PROVE rung = NULL
BY DEF ReadRight

LEMMA WaitedLater ==
  ASSUME ReplyKinds, Waited, now \in Nat, now' \in Nat, now <= now', UNCHANGED <<reply, delivery>>, refusals' = refusals
  PROVE  Waited'
<1>1. delivery.state = "posting" => delivery.due <= now'
  <2>1. delivery.due \in Nat BY DEF ReplyKinds, Attempts
  <2>. QED BY <2>1 DEF Waited
<1>. QED BY <1>1 DEF Waited

LEMMA TickKeeps == ReplyInv /\ Replying!Tick => ReplyInv'
<1>. SUFFICES ASSUME ReplyInv, Replying!Tick PROVE ReplyInv' OBVIOUS
<1>1. ReplyKinds /\ Waited /\ ReadRight BY DEF ReplyInv
<1>2. /\ now < LastHour /\ now' = now + 1
      /\ UNCHANGED <<comments, reply, delivery, answered, rung, readAs, refusals, losses>>
  BY DEF Replying!Tick, Replying!here
<1>3. now \in Nat /\ now' \in Nat /\ now <= now' /\ now' \in 0..LastHour
  BY <1>1, <1>2, ReplyParts, ReplyBounds
<1>4. reply # NULL => (reply.created # NULL => reply.created <= now') BY <1>1, <1>3, ReplyParts
<1>5. ReplyKinds' BY <1>1, <1>2, <1>3, <1>4 DEF ReplyKinds, WellPlaced, Utterances, Answers, Attempts
<1>6. Waited' /\ ReadRight' BY <1>1, <1>2, <1>3, WaitedLater, ReadStays
<1>. QED BY <1>5, <1>6 DEF ReplyInv

LEMMA WriteKeeps ==
  ASSUME ReplyInv, NEW by \in Logins, NEW opener \in 1..MaxComments, Replying!Write(by, opener)
  PROVE  ReplyInv'
<1>1. ReplyKinds /\ Waited /\ ReadRight BY DEF ReplyInv
<1>2. Replying!Comment(by, opener) /\ UNCHANGED <<now, reply, delivery, answered, rung, readAs, refusals, losses>>
  BY DEF Replying!Write, Replying!here
<1>3. /\ comments' \in Seq(Utterances) /\ Len(comments') = Len(comments) + 1 /\ Len(comments') <= MaxComments
      /\ WellPlaced(comments)' /\ Len(comments) \in Nat
  BY <1>1, <1>2, CommentAdds
<1>4. reply # NULL => reply.id \in 1..Len(comments') BY <1>1, <1>3, ReplyParts
<1>5. ReplyKinds' BY <1>1, <1>2, <1>3, <1>4 DEF ReplyKinds, Utterances, Answers, Attempts
<1>6. Waited' /\ ReadRight'
  <2>1. now \in Nat BY <1>1, ReplyParts
  <2>. QED BY <1>1, <1>2, <2>1, WaitedLater, ReadStays
<1>. QED BY <1>5, <1>6 DEF ReplyInv

LEMMA AnswerKeeps ==
  ASSUME ReplyInv, NEW by \in Logins, NEW opener \in 1..MaxComments, Replying!Answer(by, opener)
  PROVE  ReplyInv'
<1>1. ReplyKinds /\ Waited /\ ReadRight BY DEF ReplyInv
<1>2. PICK created \in {now, NULL} :
          /\ reply = NULL /\ opener \in DOMAIN comments /\ Replying!Comment(by, opener)
          /\ reply' = [id |-> Len(comments) + 1, by |-> by, opener |-> opener, created |-> created]
          /\ UNCHANGED <<now, delivery, answered, rung, readAs, refusals, losses>>
  BY DEF Replying!Answer, Replying!here
<1>3. /\ comments' \in Seq(Utterances) /\ Len(comments') = Len(comments) + 1 /\ Len(comments') <= MaxComments
      /\ WellPlaced(comments)' /\ Len(comments) \in Nat
  BY <1>1, <1>2, CommentAdds
<1>4. now \in Nat /\ opener \in Nat /\ opener \in 1..Len(comments) BY <1>1, <1>2, ReplyParts, Talked
<1>5. reply'.id = Len(comments) + 1 /\ reply'.opener = opener /\ reply'.created = created /\ reply' \in Answers
  <2>1. Len(comments) + 1 \in Nat /\ created \in Nat \cup {NULL} BY <1>3, <1>4
  <2>. QED BY <1>2, <1>4, <2>1 DEF Answers
<1>6. reply'.id \in 1..Len(comments') /\ reply'.opener \in 1..(reply'.id - 1) BY <1>3, <1>4, <1>5
<1>7. reply'.created # NULL => reply'.created <= now' BY <1>2, <1>4, <1>5
<1>8. delivery.state = "not sent" BY <1>1, <1>2 DEF ReplyKinds
<1>9. ReplyKinds' BY <1>1, <1>2, <1>3, <1>5, <1>6, <1>7, <1>8 DEF ReplyKinds, Utterances, Answers, Attempts
<1>10. Waited' BY <1>2, <1>8 DEF Waited
<1>11. ReadRight' BY <1>1, <1>2, <1>8, OnlyDoneRings, NobodyRung
<1>. QED BY <1>9, <1>10, <1>11 DEF ReplyInv

LEMMA DeleteKeeps ==
  ASSUME ReplyInv, NEW c \in 1..MaxComments, Replying!Delete(c) PROVE ReplyInv'
<1>1. ReplyKinds /\ Waited /\ ReadRight BY DEF ReplyInv
<1>2. /\ comments' \in Seq(Utterances) /\ Len(comments') = Len(comments) /\ WellPlaced(comments)'
      /\ losses < MaxLosses /\ losses' = losses + 1
      /\ UNCHANGED <<now, reply, delivery, answered, rung, readAs, refusals>>
  BY <1>1, DeleteTakes
<1>3. now \in Nat /\ losses \in Nat /\ refusals \in Nat /\ refusals <= losses
  BY <1>1, ReplyParts DEF ReplyKinds
<1>4. losses' \in 0..MaxLosses /\ refusals <= losses' BY <1>2, <1>3, ReplyBounds
<1>5. ReplyKinds' BY <1>1, <1>2, <1>3, <1>4 DEF ReplyKinds, Utterances, Answers, Attempts
<1>6. Waited' /\ ReadRight' BY <1>1, <1>2, <1>3, WaitedLater, ReadStays
<1>. QED BY <1>5, <1>6 DEF ReplyInv

LEMMA SendKeeps == ReplyInv /\ Replying!Send => ReplyInv'
<1>. SUFFICES ASSUME ReplyInv, Replying!Send PROVE ReplyInv' OBVIOUS
<1>1. ReplyKinds /\ Waited /\ ReadRight BY DEF ReplyInv
<1>2. /\ reply # NULL /\ delivery.state = "not sent"
      /\ delivery' = [state |-> "queued", attempts |-> 0, due |-> now]
      /\ UNCHANGED <<now, comments, reply, answered, rung, losses, readAs, refusals>>
  BY DEF Replying!Send, Replying!NotSent
<1>3. now \in Nat BY <1>1, ReplyParts
<1>4. delivery' \in Attempts /\ delivery'.state = "queued" /\ delivery'.attempts = 0 /\ delivery'.due = now
  BY <1>2, <1>3 DEF Attempts
<1>5. 0 < MaxAttempts /\ 0 <= MaxAttempts BY ReplyBounds
<1>6. ReplyKinds' BY <1>1, <1>2, <1>4, <1>5 DEF ReplyKinds, WellPlaced, Utterances, Answers, Attempts
<1>7. reply.created # NULL => delivery'.due >= reply.created + HeldFor(0)
  <2>1. HeldFor(0) = 0 BY WaitsAddUp
  <2>2. reply.created # NULL => reply.created \in Nat /\ reply.created <= now BY <1>1, <1>2, ReplyParts
  <2>. QED BY <1>3, <1>4, <2>1, <2>2
<1>8. Waited' BY <1>2, <1>4, <1>7 DEF Waited
<1>9. ReadRight' BY <1>1, <1>2, <1>4, OnlyDoneRings, NobodyRung
<1>. QED BY <1>6, <1>8, <1>9 DEF ReplyInv

\* The reply goes out, whom it rings known or not.
LEMMA PostingKeeps ==
  ASSUME ReplyKinds, Waited, Replying!Attempt, delivery' = [delivery EXCEPT !.state = "posting"],
         UNCHANGED <<now, comments, reply, losses, refusals>>
  PROVE  ReplyKinds' /\ Waited' /\ delivery.state = "queued" /\ delivery'.state = "posting"
<1>1. delivery \in Attempts /\ delivery.state = "queued" /\ delivery.due <= now
  BY DEF ReplyKinds, Replying!Attempt
<1>2. /\ delivery' \in Attempts /\ delivery'.state = "posting"
      /\ delivery'.attempts = delivery.attempts /\ delivery'.due = delivery.due
  BY <1>1 DEF Attempts
<1>3. ReplyKinds' BY <1>1, <1>2 DEF ReplyKinds, WellPlaced, Utterances, Answers, Attempts
<1>4. Waited' BY <1>1, <1>2 DEF Waited
<1>. QED BY <1>1, <1>2, <1>3, <1>4

\* An attempt that failed leaves it to a later one; the last one does not wait for GitHub.
LEMMA FailedKeeps ==
  ASSUME ReplyInv, Replying!Failed, delivery.state \in {"queued", "posting"}, delivery.due <= now,
         UNCHANGED <<now, comments, reply, rung>>,
         losses' \in 0..MaxLosses, refusals' \in Nat, refusals' <= losses',
         Replying!WorthWaitingFor \/ refusals' > 0
  PROVE  ReplyInv'
<1>1. ReplyKinds /\ Waited /\ ReadRight BY DEF ReplyInv
<1>2. /\ delivery' \in Attempts /\ delivery.attempts \in 0..(MaxAttempts - 1)
      /\ delivery'.attempts = delivery.attempts + 1
      /\ \/ delivery'.state = "given up" /\ delivery.attempts = MaxAttempts - 1
         \/ /\ delivery'.state = "queued" /\ delivery'.attempts < MaxAttempts
            /\ delivery'.due = now + BackoffFor(delivery.attempts)
  BY <1>1, FailedDoes
<1>3. reply # NULL BY <1>1 DEF ReplyKinds
<1>4. delivery'.attempts <= MaxAttempts
  <2>1. delivery'.attempts = delivery.attempts + 1 /\ delivery.attempts \in 0..(MaxAttempts - 1) BY <1>2
  <2>. QED BY <2>1, ReplyBounds
<1>5. delivery'.state \in {"queued", "given up"} BY <1>2
<1>6. delivery'.state = "queued" => delivery'.attempts < MaxAttempts BY <1>2
<1>7. ReplyKinds'
  BY <1>1, <1>2, <1>3, <1>4, <1>5, <1>6 DEF ReplyKinds, WellPlaced, Utterances, Answers, Attempts
<1>8. /\ now \in Nat /\ delivery.due \in Nat /\ delivery.attempts \in Nat
      /\ reply.created # NULL => reply.created \in Nat
  BY <1>1, <1>3, ReplyParts DEF Attempts
<1>9. /\ HeldFor(delivery.attempts) \in Nat /\ BackoffFor(delivery.attempts) \in Nat
      /\ HeldFor(delivery.attempts + 1) = HeldFor(delivery.attempts) + BackoffFor(delivery.attempts)
  BY <1>2, WaitsAddUp
<1>10. reply.created # NULL => now >= reply.created + HeldFor(delivery.attempts)
  <2>1. reply.created # NULL => delivery.due >= reply.created + HeldFor(delivery.attempts) BY <1>1 DEF Waited
  <2>. QED BY <1>8, <1>9, <2>1
<1>11. delivery'.state = "queued" /\ reply.created # NULL => delivery'.due >= reply.created + HeldFor(delivery'.attempts)
  <2>1. reply.created # NULL =>
           now + BackoffFor(delivery.attempts) >= reply.created + (HeldFor(delivery.attempts) + BackoffFor(delivery.attempts))
    BY <1>8, <1>9, <1>10
  <2>2. delivery'.state = "queued" => delivery'.due = now + BackoffFor(delivery.attempts) BY <1>2
  <2>. QED BY <1>2, <1>9, <2>1, <2>2
<1>12. ASSUME delivery'.state = "given up" PROVE refusals' > 0
  <2>1. delivery.attempts = MaxAttempts - 1 BY <1>2, <1>12
  <2>2. WaitsForGitHub <= HeldFor(delivery.attempts) BY <2>1, WaitsAddUp
  <2>3. ASSUME Replying!WorthWaitingFor PROVE FALSE
    <3>1. reply.created # NULL /\ now - reply.created < WaitsForGitHub BY <2>3 DEF Replying!WorthWaitingFor
    <3>. QED BY <3>1, <1>8, <1>9, <1>10, <2>2, ReplyBounds
  <2>. QED BY <2>3
<1>13. Waited' BY <1>5, <1>11, <1>12 DEF Waited
<1>14. ReadRight'
  <2>1. rung = NULL BY <1>1, OnlyDoneRings
  <2>. QED BY <1>5, <2>1, NobodyRung
<1>. QED BY <1>7, <1>13, <1>14 DEF ReplyInv

LEMMA ReadThreadKeeps == ReplyInv /\ Replying!ReadThread => ReplyInv'
<1>. SUFFICES ASSUME ReplyInv, Replying!ReadThread PROVE ReplyInv' OBVIOUS
<1>1. ReplyKinds /\ Waited /\ ReadRight BY DEF ReplyInv
<1>2. /\ Replying!Attempt /\ delivery' = [delivery EXCEPT !.state = "posting"]
      /\ readAs' = comments /\ UNCHANGED <<now, comments, reply, rung, losses, refusals>>
      /\ answered' = {[id |-> c, by |-> comments[c].by, opener |-> comments[c].opener] :
                         c \in {d \in DOMAIN comments : comments[d] # NULL}}
  BY DEF Replying!ReadThread, Replying!Row
<1>3. ReplyKinds' /\ Waited' /\ delivery.state = "queued" /\ delivery'.state = "posting"
  BY <1>1, <1>2, PostingKeeps
<1>4. rung' = NULL BY <1>1, <1>2, <1>3, OnlyDoneRings
<1>5. comments \in Seq(Utterances) /\ WellPlaced(comments) /\ DOMAIN comments = 1..Len(comments) /\ Len(comments) \in Nat
  BY <1>1, ReplyParts, Talked
<1>6. reply.id <= Len(comments)
  <2>1. reply # NULL BY <1>1, <1>3 DEF ReplyKinds
  <2>. QED BY <1>1, <2>1, ReplyParts
<1>7. (readAs \in Seq(Utterances))' /\ WellPlaced(readAs)' BY <1>2, <1>5 DEF WellPlaced, Utterances
<1>8. reply'.id <= Len(readAs') /\ DOMAIN comments = 1..Len(readAs') BY <1>2, <1>5, <1>6
<1>9. answered' = {[id |-> c, by |-> readAs'[c].by, opener |-> readAs'[c].opener] :
                      c \in {d \in 1..Len(readAs') : readAs'[d] # NULL}}
  BY <1>2, <1>8
<1>10. Replying!RingsWhomItAnswers' BY <1>4, RungStays
<1>11. ReadRight' BY <1>4, <1>7, <1>8, <1>9, <1>10 DEF ReadRight
<1>. QED BY <1>3, <1>11 DEF ReplyInv

LEMMA GoesWithoutKeeps ==
  ASSUME ReplyInv, Replying!Attempt, Replying!GoesWithout, UNCHANGED <<now, comments, reply, rung, losses, refusals>>
  PROVE  ReplyInv'
<1>1. ReplyKinds /\ Waited /\ ReadRight BY DEF ReplyInv
<1>2. delivery' = [delivery EXCEPT !.state = "posting"] /\ readAs' = NULL BY DEF Replying!GoesWithout
<1>3. ReplyKinds' /\ Waited' /\ delivery.state = "queued" /\ delivery'.state = "posting"
  BY <1>1, <1>2, PostingKeeps
<1>4. rung' = NULL BY <1>1, <1>3, OnlyDoneRings
<1>5. Replying!RingsWhomItAnswers' BY <1>4, RungStays
<1>6. ReadRight' BY <1>2, <1>4, <1>5 DEF ReadRight
<1>. QED BY <1>3, <1>6 DEF ReplyInv

LEMMA ReadFailsKeeps == ReplyInv /\ Replying!ReadFails => ReplyInv'
<1>. SUFFICES ASSUME ReplyInv, Replying!ReadFails PROVE ReplyInv' OBVIOUS
<1>1. Replying!Attempt /\ UNCHANGED <<now, comments, reply, rung, losses, refusals>> BY DEF Replying!ReadFails
<1>2. ASSUME Replying!WorthWaitingFor PROVE ReplyInv'
  <2>1. Replying!Failed BY <1>2 DEF Replying!ReadFails
  <2>2. delivery.state = "queued" /\ delivery.due <= now BY <1>1 DEF Replying!Attempt
  <2>3. losses \in 0..MaxLosses /\ refusals \in Nat /\ refusals <= losses BY DEF ReplyInv, ReplyKinds
  <2>. QED BY <1>1, <1>2, <2>1, <2>2, <2>3, FailedKeeps
<1>3. ASSUME ~Replying!WorthWaitingFor PROVE ReplyInv'
  <2>1. Replying!GoesWithout BY <1>3 DEF Replying!ReadFails
  <2>. QED BY <1>1, <2>1, GoesWithoutKeeps
<1>. QED BY <1>2, <1>3

LEMMA PostKeeps == ReplyInv /\ Replying!Post => ReplyInv'
<1>. SUFFICES ASSUME ReplyInv, Replying!Post PROVE ReplyInv' OBVIOUS
<1>1. ReplyKinds /\ Waited /\ ReadRight BY DEF ReplyInv
<1>2. /\ delivery.state = "posting" /\ delivery' = [delivery EXCEPT !.state = "done"] /\ rung' = Replying!Rings
      /\ UNCHANGED <<now, comments, reply, answered, losses, readAs, refusals>>
  BY DEF Replying!Post
<1>3. delivery' \in Attempts /\ delivery'.state = "done" /\ delivery'.attempts = delivery.attempts
  BY <1>1, <1>2 DEF ReplyKinds, Attempts
<1>4. ReplyKinds' BY <1>1, <1>2, <1>3 DEF ReplyKinds, WellPlaced, Utterances, Answers, Attempts
<1>5. Waited' BY <1>3 DEF Waited
<1>6. Replying!RingsWhomItAnswers'
  <2>. SUFFICES ASSUME rung' # NULL, readAs # NULL PROVE Replying!RingsWhomItAnswers'
    BY <1>2 DEF Replying!RingsWhomItAnswers
  <2> DEFINE before == {c \in 1..(reply.id - 1) : readAs[c] # NULL /\ readAs[c].opener = reply.opener}
             members == {Account(readAs[c].by) : c \in before} \ {Account(reply.by)}
             writers == {readAs[c].by : c \in before} \ {reply.by}
  <2>1. /\ Replying!Rings \subseteq members
        /\ reply.opener \in before /\ readAs[reply.opener].by # reply.by =>
               Account(readAs[reply.opener].by) \in Replying!Rings \cup {Account(reply.by)}
        /\ Cardinality(writers) <= MentionLimit => Replying!Rings = members
    BY <1>1, <1>2, RingsRightly
  <2>2. /\ rung' \subseteq members
        /\ reply.opener \in before /\ readAs[reply.opener].by # reply.by =>
               Account(readAs[reply.opener].by) \in rung' \cup {Account(reply.by)}
        /\ Replying!Cardinality(writers) <= MentionLimit => rung' = members
    BY <1>2, <2>1, CountsAlike
  <2>. QED BY <1>2, <2>2 DEF Replying!RingsWhomItAnswers
<1>7. ReadRight' BY <1>3, <1>6 DEF ReadRight
<1>. QED BY <1>4, <1>5, <1>7 DEF ReplyInv

LEMMA PostFailsKeeps == ReplyInv /\ Replying!PostFails => ReplyInv'
<1>. SUFFICES ASSUME ReplyInv, Replying!PostFails PROVE ReplyInv' OBVIOUS
<1>1. ReplyKinds /\ Waited BY DEF ReplyInv
<1>2. /\ delivery.state = "posting" /\ losses < MaxLosses /\ losses' = losses + 1 /\ Replying!Failed
      /\ UNCHANGED <<now, comments, reply, rung>>
      /\ refusals' = IF Replying!WorthWaitingFor THEN refusals ELSE refusals + 1
  BY DEF Replying!PostFails, Replying!Upset
<1>3. delivery.due <= now BY <1>1, <1>2 DEF Waited
<1>4. losses \in Nat /\ refusals \in Nat /\ refusals <= losses BY <1>1, ReplyParts DEF ReplyKinds
<1>5. losses' \in 0..MaxLosses BY <1>2, <1>4, ReplyBounds
<1>6. refusals' \in Nat /\ refusals' <= losses' /\ (Replying!WorthWaitingFor \/ refusals' > 0) BY <1>2, <1>4
<1>. QED BY <1>2, <1>3, <1>5, <1>6, FailedKeeps

LEMMA ReplyInvHolds == ReplyInv /\ Replying!Next => ReplyInv'
<1>. SUFFICES ASSUME ReplyInv, Replying!Next PROVE ReplyInv' OBVIOUS
<1>1. CASE Replying!Tick BY <1>1, TickKeeps
<1>2. CASE Replying!Send BY <1>2, SendKeeps
<1>3. ASSUME NEW by \in Logins, NEW opener \in 1..MaxComments, Replying!Write(by, opener) \/ Replying!Answer(by, opener)
      PROVE  ReplyInv' BY <1>3, WriteKeeps, AnswerKeeps
<1>4. ASSUME NEW c \in 1..MaxComments, Replying!Delete(c) PROVE ReplyInv' BY <1>4, DeleteKeeps
<1>5. CASE Replying!ReadThread BY <1>5, ReadThreadKeeps
<1>6. CASE Replying!ReadRefused BY <1>6, GoesWithoutKeeps DEF Replying!ReadRefused
<1>7. CASE Replying!ReadFails BY <1>7, ReadFailsKeeps
<1>8. CASE Replying!Post BY <1>8, PostKeeps
<1>9. CASE Replying!PostFails BY <1>9, PostFailsKeeps
<1>. QED BY <1>1, <1>2, <1>3, <1>4, <1>5, <1>6, <1>7, <1>8, <1>9 DEF Replying!Next

LEMMA ReplyTypes == ReplyInv => Replying!TypeOK
<1>. SUFFICES ASSUME ReplyInv PROVE Replying!TypeOK OBVIOUS
<1>1. ReplyKinds BY DEF ReplyInv
<1>2. refusals \in 0..MaxLosses
  <2>1. refusals \in Nat /\ refusals <= losses /\ losses \in Nat /\ losses <= MaxLosses
    BY <1>1, ReplyParts DEF ReplyKinds
  <2>. QED BY <2>1, ReplyBounds
<1>3. reply = NULL \/ reply.id \in DOMAIN comments
  <2>1. DOMAIN comments = 1..Len(comments) BY <1>1, ReplyParts, Talked
  <2>. QED BY <1>1, <2>1 DEF ReplyKinds
<1>4. delivery.state \in {"not sent", "queued", "posting", "done", "given up"}
  BY <1>1 DEF ReplyKinds, Attempts
<1>5. delivery.attempts \in 0..MaxAttempts
  <2>1. delivery.attempts \in Nat /\ delivery.attempts <= MaxAttempts BY <1>1, ReplyParts DEF ReplyKinds
  <2>. QED BY <2>1, ReplyBounds
<1>. QED BY <1>1, <1>2, <1>3, <1>4, <1>5 DEF ReplyKinds, Replying!TypeOK

LEMMA RepliesRing == ReplyInv => Replying!OutageCostsThePing /\ Replying!RingsWhomItAnswers
BY DEF ReplyInv, Waited, ReadRight, Replying!OutageCostsThePing

----
\* The three parts together.

AllInv ==
    /\ part \in {"notes", "lines", "replies"}
    /\ WellKept /\ TellInv /\ ReplyInv

LEMMA AllAtFirst == ToldInit => AllInv
BY WellKeptAtFirst, TellInvAtFirst, ReplyAtFirst DEF ToldInit, AllInv

LEMMA AllHolds == AllInv /\ [ToldNext]_allVars => AllInv'
<1>. SUFFICES ASSUME AllInv, [ToldNext]_allVars PROVE AllInv' OBVIOUS
<1>1. CASE Remark
  <2>1. WellKept' BY <1>1, WellKeptHolds DEF AllInv, Remark
  <2>2. TellInv' /\ ReplyInv' BY <1>1, TellInvAside, ReplyAside DEF AllInv, Remark
  <2>. QED BY <1>1, <2>1, <2>2 DEF AllInv, Remark
<1>2. CASE Tell
  <2>1. WellKept' /\ ReplyInv' BY <1>2, WellKeptHolds, ReplyAside DEF AllInv, Tell
  <2>2. TellInv' BY <1>2, TellInvHolds DEF AllInv, Tell
  <2>. QED BY <1>2, <2>1, <2>2 DEF AllInv, Tell
<1>3. CASE Reply
  <2>1. WellKept' /\ TellInv' BY <1>3, WellKeptHolds, TellInvAside DEF AllInv, Reply
  <2>2. ReplyInv' BY <1>3, ReplyInvHolds DEF AllInv, Reply
  <2>. QED BY <1>3, <2>1, <2>2 DEF AllInv, Reply
<1>4. CASE UNCHANGED allVars BY <1>4, WellKeptHolds, TellInvAside, ReplyAside DEF AllInv, allVars
<1>. QED BY <1>1, <1>2, <1>3, <1>4 DEF ToldNext

\* Every variable of notes, lines and replies has its type, whichever part moves: a
\* worker that writes has a thread to write to, a line being posted is claimed, and a
\* delivery says no more commits than one comment may (ItemNoteMirror,
\* ClaimedLine.say_once, CommitAnnouncer, ReviewComments.handle).
THEOREM SaidTypeCorrect == ToldSpec => []ToldTypeOK
<1>1. AllInv => ToldTypeOK
  <2>. SUFFICES ASSUME AllInv PROVE ToldTypeOK OBVIOUS
  <2>1. TypeOK /\ Telling!TypeOK /\ Replying!TypeOK BY NoteTypes, LineTypes, ReplyTypes DEF AllInv
  <2>. QED BY <2>1 DEF AllInv, ToldTypeOK
<1>. QED BY <1>1, AllAtFirst, AllHolds, PTL DEF ToldSpec

\* The thread ends up showing and having heard what it should, for any number of workers,
\* events, comments and faults: the newest version of a note, in a thread shut as it
\* should be (ItemNoteMirror._revise, KeepsThreadsShut.again); each label, commit and turn
\* of the draft switch once (label_lines.py, commit_lines.py, draft_lines.py, on
\* ClaimedLine.say_once); and a reply rings whom it answers, and is lost to no outage of
\* GitHub's (everyone_it_answers, ReviewThreads.answering).
THEOREM AlwaysShownAndHeard == ToldSpec => []ShownAndHeard
<1>1. AllInv => ShownAndHeard
  <2>. SUFFICES ASSUME AllInv PROVE ShownAndHeard OBVIOUS
  <2>1. MirroredWhenQuiet BY MirroredOnceTold DEF AllInv, WellKept
  <2>2. Telling!ThreadHears BY LinesHeard DEF AllInv
  <2>3. Replying!OutageCostsThePing /\ Replying!RingsWhomItAnswers BY RepliesRing DEF AllInv
  <2>. QED BY <2>1, <2>2, <2>3 DEF ShownAndHeard
<1>. QED BY <1>1, AllAtFirst, AllHolds, PTL DEF ToldSpec
=============================================================================
