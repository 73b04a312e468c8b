--------------------------- MODULE SendingProofs ---------------------------
(***************************************************************************)
(* What is proved of what is kept until it is sent: a conversation's       *)
(* batches here, and beside them the reminders and the deliveries, whose   *)
(* proofs are taken from their own modules.                                *)
(***************************************************************************)
EXTENDS MCSending, FiniteSetTheorems, TLAPS

----
\* NothingLost is not inductive.  delete_through names its rows by an
\* upper bound, so what is deleted is what was published, but for rows that
\* come to be seen below the bound once the batch was read (ReadIt), and a
\* flusher about to drop a batch has said each of its other rows (SaidIt).

Kinds ==
    /\ said \in 0 .. MaxMessages
    /\ unseen \subseteq 1 .. said /\ waiting \subseteq 1 .. said
    /\ through \in 0 .. said
    /\ pc    \in [Flushers -> PCs]
    /\ upto  \in [Flushers -> 0 .. said]
    /\ lines \in [Flushers -> SUBSET Messages]
    /\ why   \in [Flushers -> {"published", "orphan", "gave_up"}]
    /\ published \in [Messages -> Nat]

\* A flusher about to publish has read the whole of its batch.
ReadIt ==
    \A f \in Flushers : pc[f] = "publishing" =>
        \A m \in waiting : m <= upto[f] => m \in lines[f] \cup missed

\* A flusher about to drop its batch as published has published it.
SaidIt ==
    \A f \in Flushers : pc[f] = "settling" /\ why[f] = "published" =>
        \A m \in waiting : m <= upto[f] => published[m] > 0 \/ m \in missed

LossInv == Kinds /\ ReadIt /\ SaidIt /\ NothingLost

LEMMA LossInit == Init => LossInv BY TranscriptAssumption
DEF Init, LossInv, Kinds, ReadIt, SaidIt, NothingLost, PCs, Messages

\* A flusher moves on with its own bookkeeping, or gives its batch up; the rows
\* and what was said of them stay as they are.
LEMMA FlusherMoves ==
  ASSUME LossInv, NEW f \in Flushers, NEW x \in PCs \ {"publishing"},
         Goto(f, x),
         x = "settling" => why'[f] # "published",
         upto'  \in [Flushers -> 0 .. said],
         lines' \in [Flushers -> SUBSET Messages],
         why'   \in [Flushers -> {"published", "orphan", "gave_up"}],
         \A g \in Flushers \ {f} : /\ upto'[g] = upto[g]
                                   /\ lines'[g] = lines[g]
                                   /\ why'[g] = why[g],
         through' \in 0 .. said,
         UNCHANGED <<capture, waiting, outcome, missed>>
  PROVE  LossInv'
<1>1. Kinds' BY DEF LossInv, Kinds, Goto, capture, outcome
<1>3. \A g \in Flushers : pc'[g] = IF g = f THEN x ELSE pc[g] BY DEF LossInv, Kinds, Goto
<1>4. ReadIt' BY <1>3 DEF LossInv, ReadIt
<1>5. SaidIt' BY <1>3 DEF LossInv, SaidIt, outcome
<1>6. NothingLost' BY DEF LossInv, NothingLost, capture, outcome
<1>. QED BY <1>1, <1>4, <1>5, <1>6 DEF LossInv

\* Nothing the invariant speaks of changes.
LEMMA NothingMoves ==
  ASSUME LossInv,
         UNCHANGED <<capture, waiting, through, pc, upto, lines, why, outcome, missed>>
  PROVE  LossInv'
BY DEF LossInv, Kinds, ReadIt, SaidIt, NothingLost, capture, outcome

----
\* The thread.

LEMMA SayKeeps == LossInv /\ Say => LossInv'
<1>. SUFFICES ASSUME LossInv, Say PROVE LossInv' OBVIOUS
<1>. USE DEF LossInv, Say, held, memory, outcome, late
<1>1. said \in Nat /\ MaxMessages \in Nat /\ said' = said + 1 /\ said' <= MaxMessages
  BY TranscriptAssumption DEF Kinds
<1>2. Kinds' BY <1>1 DEF Kinds
<1>3. ReadIt' /\ SaidIt' BY DEF ReadIt, SaidIt
<1>4. NothingLost' BY <1>1 DEF NothingLost
<1>. QED BY <1>2, <1>3, <1>4

\* A row that comes to be seen in a batch that was read is one that is missed.
LEMMA CommitKeeps ==
  ASSUME LossInv, NEW m \in Messages, Commit(m) PROVE LossInv'
<1>. USE DEF LossInv, Commit, held, memory, outcome
<1>1. m \in unseen /\ m \in 1 .. said BY DEF Kinds
<1>2. Kinds' BY <1>1 DEF Kinds
<1>3. /\ missed \subseteq missed'
      /\ \A f \in Flushers : pc[f] \in {"publishing", "settling"} /\ m <= upto[f] => m \in missed'
  BY DEF ReadWithout
<1>4. ReadIt' BY <1>3 DEF ReadIt
<1>5. SaidIt' BY <1>3 DEF SaidIt
<1>6. NothingLost' BY <1>3 DEF NothingLost
<1>. QED BY <1>2, <1>4, <1>5, <1>6

LEMMA ForgetKeeps ==
  ASSUME LossInv, NEW m \in Messages, Forget(m) PROVE LossInv'
<1>. USE DEF LossInv, Forget, capture, held, memory, late
<1>1. Kinds' BY DEF Kinds
<1>2. ReadIt' /\ SaidIt' BY DEF ReadIt, SaidIt
<1>3. NothingLost' BY DEF NothingLost
<1>. QED BY <1>1, <1>2, <1>3

----
\* A flusher.

LEMMA SweepKeeps ==
  ASSUME LossInv, NEW f \in Flushers, Sweep(f) PROVE LossInv'
<1>1. through' \in 0 .. said BY DEF LossInv, Kinds, Sweep, held
<1>. QED BY <1>1, FlusherMoves DEF LossInv, Kinds, Sweep, memory, late, PCs

LEMMA LookKeeps ==
  ASSUME LossInv, NEW f \in Flushers, Look(f) PROVE LossInv'
<1>. USE DEF LossInv, Kinds, Look, held, late
<1>1. /\ \E x \in {"taking", "seizing", "idle"} : Goto(f, x)
      /\ upto' \in [Flushers -> 0 .. said]
      /\ \A g \in Flushers \ {f} : upto'[g] = upto[g] OBVIOUS
<1>2. PICK x \in {"taking", "seizing", "idle"} : Goto(f, x) BY <1>1
<1>. QED BY <1>1, <1>2, FlusherMoves DEF PCs

\* Letting go of a conversation leaves no batch in mind.
LEMMA ThroughForgets ==
  ASSUME LossInv, NEW f \in Flushers, Through(f)
  PROVE  /\ Goto(f, "idle")
         /\ upto'  \in [Flushers -> 0 .. said] /\ upto'[f] = 0
         /\ lines' \in [Flushers -> SUBSET Messages]
         /\ why'   \in [Flushers -> {"published", "orphan", "gave_up"}]
         /\ \A g \in Flushers \ {f} : /\ upto'[g] = upto[g]
                                      /\ lines'[g] = lines[g]
                                      /\ why'[g] = why[g]
BY DEF LossInv, Kinds, Through

LEMMA TakeKeeps ==
  ASSUME LossInv, NEW f \in Flushers, Take(f) PROVE LossInv'
<1>1. CASE MayTake(f)
  <2>1. through' \in 0 .. said BY <1>1 DEF LossInv, Kinds, Take
  <2>. QED BY <1>1, <2>1, FlusherMoves DEF LossInv, Kinds, Take, PCs
<1>2. CASE ~MayTake(f)
  <2>1. Through(f) /\ UNCHANGED <<capture, waiting, outcome, missed, through>> BY <1>2 DEF Take, held
  <2>2. through' \in 0 .. said BY <2>1 DEF LossInv, Kinds
  <2>. QED BY <2>1, <2>2, ThroughForgets, FlusherMoves DEF PCs
<1>. QED BY <1>1, <1>2

LEMMA SeizeKeeps ==
  ASSUME LossInv, NEW f \in Flushers, Seize(f) PROVE LossInv'
<1>1. UNCHANGED <<capture, waiting, outcome, missed, through>> BY DEF Seize, held, late
<1>2. through' \in 0 .. said BY <1>1 DEF LossInv, Kinds
<1>3. CASE claim = token[f] BY <1>1, <1>2, <1>3, FlusherMoves DEF LossInv, Kinds, Seize, PCs
<1>4. CASE claim # token[f] BY <1>1, <1>2, <1>4, ThroughForgets, FlusherMoves DEF Seize, PCs
<1>. QED BY <1>3, <1>4

LEMMA LocateKeeps ==
  ASSUME LossInv, NEW f \in Flushers, Locate(f) PROVE LossInv'
<1>. USE DEF LossInv, Kinds, Locate, held, late
<1>1. CASE present BY <1>1, FlusherMoves DEF PCs
<1>2. CASE ~present BY <1>2, FlusherMoves DEF PCs
<1>. QED BY <1>1, <1>2

LEMMA ReadKeeps ==
  ASSUME LossInv, NEW f \in Flushers, Read(f) PROVE LossInv'
<1>. DEFINE rows == {m \in waiting : m <= upto[f]}
<1>. USE DEF LossInv, Read, Listed, held, outcome, capture, late
<1>1. /\ pc' = [pc EXCEPT ![f] = IF rows = {} THEN "settling" ELSE "publishing"]
      /\ lines' = [lines EXCEPT ![f] = rows] BY DEF Goto
<1>2. rows \subseteq Messages
  <2>1. 1 .. said \subseteq 1 .. MaxMessages BY TranscriptAssumption DEF Kinds
  <2>. QED BY <2>1 DEF Kinds, Messages
<1>. HIDE DEF rows
<1>3. Kinds'
  <2>1. pc' \in [Flushers -> PCs] BY <1>1 DEF Kinds, PCs
  <2>2. lines' \in [Flushers -> SUBSET Messages] BY <1>1, <1>2 DEF Kinds
  <2>. QED BY <2>1, <2>2 DEF Kinds
<1>4. \A g \in Flushers \ {f} : pc'[g] = pc[g] /\ lines'[g] = lines[g] BY <1>1 DEF Kinds
<1>5. lines'[f] = rows /\ (pc'[f] = "settling" => rows = {}) BY <1>1 DEF Kinds
<1>6. ReadIt' BY <1>4, <1>5 DEF ReadIt, rows
<1>7. SaidIt' BY <1>4, <1>5 DEF SaidIt, rows
<1>8. NothingLost' BY DEF NothingLost
<1>. QED BY <1>3, <1>6, <1>7, <1>8

\* A comment only ever adds to what has gone out.
LEMMA MoreGoesOut ==
  ASSUME Kinds, NEW f \in Flushers, GoesOut(f)
  PROVE  /\ published' \in [Messages -> Nat]
         /\ \A m \in Messages : published[m] > 0 => published'[m] > 0
         /\ \A m \in lines[f] : published'[m] > 0 BY DEF Kinds, GoesOut

LEMMA PublishKeeps ==
  ASSUME LossInv, NEW f \in Flushers,
         pc[f] = "publishing",
         \/ GoesOut(f) /\ Goto(f, "settling")
         \/ Goto(f, "counting") /\ (GoesOut(f) \/ UNCHANGED published),
         UNCHANGED <<capture, waiting, through, memory, forgotten, dropped, missed>>
  PROVE  LossInv'
<1>. USE DEF LossInv, capture, memory
<1>1. /\ published' \in [Messages -> Nat]
      /\ \A m \in Messages : published[m] > 0 => published'[m] > 0
  BY MoreGoesOut DEF Kinds
<1>2. \A g \in Flushers \ {f} : pc'[g] = pc[g] BY DEF Goto, Kinds
<1>3. /\ pc'[f] \in {"settling", "counting"}
      /\ pc'[f] = "settling" => GoesOut(f) BY DEF Goto, Kinds
<1>4. Kinds' BY <1>1 DEF Kinds, Goto, PCs
<1>6. ReadIt' BY <1>2, <1>3 DEF ReadIt
<1>7. waiting \subseteq Messages BY TranscriptAssumption DEF Kinds, Messages
<1>8. SaidIt'
  <2>1. ASSUME NEW g \in Flushers, pc'[g] = "settling", why'[g] = "published",
               NEW m \in waiting, m <= upto[g]
        PROVE  published'[m] > 0 \/ m \in missed
    <3>1. CASE g = f BY <1>3, <2>1, <3>1, MoreGoesOut DEF ReadIt
    <3>2. CASE g # f BY <1>1, <1>2, <1>7, <2>1, <3>2 DEF SaidIt
    <3>. QED BY <3>1, <3>2
  <2>. QED BY <2>1 DEF SaidIt
<1>9. NothingLost' BY <1>1, TranscriptAssumption DEF NothingLost, Kinds, Messages
<1>. QED BY <1>4, <1>6, <1>8, <1>9

LEMMA CountKeeps ==
  ASSUME LossInv, NEW f \in Flushers, Count(f) PROVE LossInv'
<1>. USE DEF Count, held, late
<1>1. CASE GivesUp BY <1>1, FlusherMoves DEF LossInv, Kinds, PCs
<1>2. CASE ~GivesUp
  <2>1. through' \in 0 .. said BY DEF LossInv, Kinds
  <2>. QED BY <1>2, <2>1, ThroughForgets, FlusherMoves DEF PCs
<1>. QED BY <1>1, <1>2

\* What leaves is the batch, and each of its rows was said, is dropped or was missed.
LEMMA SettleKeeps ==
  ASSUME LossInv, NEW f \in Flushers, Settle(f) PROVE LossInv'
<1>. USE DEF Settle, capture, late
<1>1. /\ waiting' \subseteq waiting
      /\ waiting \ waiting' = Batch(f) BY DEF Batch
<1>2. through' = 0 BY DEF ReleaseClaim
<1>4. Kinds'
  <2>1. pc' \in [Flushers -> PCs] BY ThroughForgets DEF LossInv, Kinds, Goto, PCs
  <2>2. through' \in 0 .. said BY <1>2 DEF LossInv, Kinds
  <2>3. waiting' \subseteq 1 .. said BY <1>1 DEF LossInv, Kinds
  <2>4. /\ upto'  \in [Flushers -> 0 .. said]
        /\ lines' \in [Flushers -> SUBSET Messages]
        /\ why'   \in [Flushers -> {"published", "orphan", "gave_up"}]
    BY ThroughForgets
  <2>5. UNCHANGED <<said, unseen, published, missed>> OBVIOUS
  <2>. HIDE DEF Settle
  <2>. QED BY <2>1, <2>2, <2>3, <2>4, <2>5 DEF LossInv, Kinds
<1>6. /\ pc'[f] = "idle"
      /\ \A g \in Flushers \ {f} : pc'[g] = pc[g]
  BY ThroughForgets DEF LossInv, Kinds, Goto
<1>7. ReadIt' /\ SaidIt' BY <1>1, <1>6, ThroughForgets DEF LossInv, ReadIt, SaidIt
<1>8. \A m \in Batch(f) : published[m] > 0 \/ m \in dropped' \cup missed BY DEF LossInv, SaidIt, Batch
<1>9. NothingLost' BY <1>1, <1>8 DEF LossInv, NothingLost
<1>. QED BY <1>4, <1>7, <1>9 DEF LossInv

LEMMA DieKeeps ==
  ASSUME LossInv, NEW f \in Flushers, Die(f) PROVE LossInv'
<1>1. through' \in 0 .. said BY DEF LossInv, Kinds, Die, held
<1>. QED BY <1>1, ThroughForgets, FlusherMoves DEF Die, late, PCs

LEMMA LossStep == LossInv /\ [Next]_vars => LossInv'
<1>. SUFFICES ASSUME LossInv, [Next]_vars PROVE LossInv' OBVIOUS
<1>1. CASE Environment
  <2>1. CASE Say BY <2>1, SayKeeps
  <2>2. CASE \E m \in Messages : Commit(m) \/ Forget(m) BY <2>2, CommitKeeps, ForgetKeeps
  <2>3. CASE Stop \/ ThreadGoes \/ Ripens \/ Ages
    BY <2>3, NothingMoves DEF Stop, ThreadGoes, Ripens, Ages, held, memory, late
  <2>. QED BY <1>1, <2>1, <2>2, <2>3 DEF Environment
<1>2. ASSUME NEW f \in Flushers, Step(f) PROVE LossInv'
  <2>1. CASE Publish(f) BY <2>1, PublishKeeps DEF Publish, held, late
  <2>. QED BY <1>2, <2>1, SweepKeeps, LookKeeps, TakeKeeps, SeizeKeeps, LocateKeeps, ReadKeeps, CountKeeps,
      SettleKeeps DEF Step
<1>3. ASSUME NEW f \in Flushers, PublishFails(f) PROVE LossInv'
  BY <1>3, PublishKeeps DEF PublishFails, held, late
<1>4. CASE UNCHANGED vars BY <1>4, NothingMoves DEF vars, held, memory, late
<1>. QED BY <1>1, <1>2, <1>3, <1>4, DieKeeps DEF Next

\* Nothing captured disappears without having gone out, been deleted by its author or
\* been given up on, unless it came to be seen in a batch that was already read: in
\* whatever order rows become visible, however many flushers overlap and however stale
\* what they act on is (_publish, _done, delete_through).
THEOREM NothingIsLost == Spec => []NothingLost
<1>1. LossInv => NothingLost BY DEF LossInv
<1>. QED BY LossInit, LossStep, <1>1, PTL DEF Spec

----
\* Kinds, and whose a claim is.  A flusher about to take a batch, or to
\* take it over, knows up to which row.

RowKinds ==
    /\ said \in 0 .. MaxMessages /\ unseen \subseteq 1 .. said /\ waiting \subseteq 1 .. said
    /\ {ripe, stopped, present} \subseteq BOOLEAN
    /\ faults \in Nat
    /\ published \in [Messages -> Nat]
    /\ {forgotten, dropped, missed} \subseteq SUBSET Messages /\ hollow \in BOOLEAN

ClaimKinds ==
    /\ stale \in BOOLEAN
    /\ claim \in Claims \cup {NULL} /\ through \in 0 .. MaxMessages
    /\ claim = NULL <=> through = 0
    /\ failed \in Nat /\ tries \in Nat

FlusherKinds ==
    /\ pc    \in [Flushers -> PCs]
    /\ token \in [Flushers -> Claims \cup {NULL}]
    /\ upto  \in [Flushers -> 0 .. MaxMessages]
    /\ lines \in [Flushers -> SUBSET Messages]
    /\ why   \in [Flushers -> {"published", "orphan", "gave_up"}]

Aimed ==
    \A f \in Flushers :
        /\ pc[f] \in Working \cup {"seizing"} => token[f] # NULL
        /\ pc[f] \in Working \cup {"taking", "seizing"} => upto[f] # 0

OneEach ==
    \A f, g \in Flushers :
        f # g /\ pc[f] \in Working /\ pc[g] \in Working => token[f] # token[g]

TypeInv == RowKinds /\ ClaimKinds /\ FlusherKinds /\ Aimed /\ OneEach

LEMMA TypeInvIs == TypeInv => TypeOK
BY DEF TypeInv, RowKinds, ClaimKinds, FlusherKinds, Aimed, OneEach, TypeOK

LEMMA TypeInit == Init => TypeInv
<1>. SUFFICES ASSUME Init PROVE TypeInv OBVIOUS
<1>1. 0 \in 0 .. MaxMessages BY TranscriptAssumption
<1>2. RowKinds BY <1>1 DEF Init, RowKinds
<1>3. ClaimKinds BY <1>1 DEF Init, ClaimKinds
<1>4. FlusherKinds BY <1>1 DEF Init, FlusherKinds, PCs
<1>5. Aimed /\ OneEach BY DEF Init, Aimed, OneEach, Working
<1>. QED BY <1>2, <1>3, <1>4, <1>5 DEF TypeInv

\* Of the flushers at most f moves, and not to work unless it has a claim of its own.
Moves(f) ==
    \A g \in Flushers \ {f} :
        /\ pc'[g] = pc[g] /\ token'[g] = token[g] /\ upto'[g] = upto[g]
        /\ lines'[g] = lines[g] /\ why'[g] = why[g]

LEMMA OneMoves ==
  ASSUME TypeInv, NEW f \in Flushers, FlusherKinds', Moves(f),
         pc'[f] \in Working \cup {"seizing"} => token'[f] # NULL,
         pc'[f] \in Working \cup {"taking", "seizing"} => upto'[f] # 0,
         pc'[f] \in Working /\ ~(pc[f] \in Working /\ token'[f] = token[f]) =>
             \A g \in Flushers : token'[f] # token[g]
  PROVE  Aimed' /\ OneEach'
<1>1. Aimed' BY DEF TypeInv, Aimed, Moves
<1>2. OneEach' BY DEF TypeInv, OneEach, Moves
<1>. QED BY <1>1, <1>2

LEMMA ThroughRests ==
  ASSUME FlusherKinds, NEW f \in Flushers, Through(f)
  PROVE  /\ FlusherKinds' /\ Moves(f)
         /\ pc'[f] = "idle" /\ token'[f] = NULL /\ upto'[f] = 0 /\ lines'[f] = {}
<1>1. pc' \in [Flushers -> PCs] /\ token' \in [Flushers -> Claims \cup {NULL}]
  BY DEF FlusherKinds, Through, Goto, PCs
<1>2. /\ upto' \in [Flushers -> 0 .. MaxMessages]
      /\ lines' \in [Flushers -> SUBSET Messages]
      /\ why' \in [Flushers -> {"published", "orphan", "gave_up"}]
  BY TranscriptAssumption DEF FlusherKinds, Through
<1>3. Moves(f) /\ pc'[f] = "idle" /\ token'[f] = NULL /\ upto'[f] = 0 /\ lines'[f] = {}
  BY DEF FlusherKinds, Through, Goto, Moves
<1>. QED BY <1>1, <1>2, <1>3 DEF FlusherKinds

\* A flusher that only goes on to another place.
LEMMA GotoMoves ==
  ASSUME FlusherKinds, NEW f \in Flushers, NEW x \in PCs, Goto(f, x), UNCHANGED memory
  PROVE  /\ FlusherKinds' /\ Moves(f)
         /\ pc'[f] = x /\ UNCHANGED memory
BY DEF FlusherKinds, Goto, Moves, memory

LEMMA FreshIs ==
  ASSUME NEW k \in Fresh
  PROVE  /\ k \in Claims /\ k # NULL /\ k # claim
         /\ \A g \in Flushers : token[g] # k BY TranscriptAssumption DEF Fresh

LEMMA ThreadTypes ==
  ASSUME TypeInv, Environment PROVE TypeInv'
<1>. USE DEF capture, thread, held, memory, outcome, late
<1>1. /\ UNCHANGED <<pc, token, upto, lines, why, claim, through, failed, tries>>
      /\ stale' \in BOOLEAN
  BY DEF Environment, Say, Commit, Forget, Stop, ThreadGoes, Ripens, Ages, TypeInv, ClaimKinds
<1>2. RowKinds'
  <2>1. CASE Say
    <3>1. said' = said + 1 /\ said' \in 0 .. MaxMessages /\ said \in Nat
      BY <2>1, TranscriptAssumption DEF Say, TypeInv, RowKinds
    <3>2. unseen' \subseteq 1 .. said' /\ waiting' \subseteq 1 .. said'
      BY <2>1, <3>1 DEF Say, TypeInv, RowKinds
    <3>. QED BY <2>1, <3>1, <3>2 DEF Say, TypeInv, RowKinds
  <2>2. ASSUME NEW m \in Messages, Commit(m) \/ Forget(m) PROVE RowKinds'
    <3>1. unseen' \subseteq unseen /\ waiting' \subseteq waiting \cup unseen BY <2>2 DEF Commit, Forget
    <3>2. /\ {ripe', stopped', present'} \subseteq BOOLEAN
          /\ {forgotten', missed'} \subseteq SUBSET Messages
          /\ UNCHANGED <<said, faults, published, dropped, hollow>>
      BY <2>2 DEF Commit, Forget, TypeInv, RowKinds
    <3>. QED BY <3>1, <3>2 DEF TypeInv, RowKinds
  <2>3. CASE Stop \/ ThreadGoes \/ Ripens \/ Ages
    BY <2>3 DEF Stop, ThreadGoes, Ripens, Ages, TypeInv, RowKinds
  <2>. QED BY <2>1, <2>2, <2>3 DEF Environment
<1>. QED BY <1>1, <1>2 DEF TypeInv, ClaimKinds, FlusherKinds, Aimed, OneEach

LEMMA SweepTypes ==
  ASSUME TypeInv, NEW f \in Flushers, Sweep(f) PROVE TypeInv'
<1>1. RowKinds' BY DEF Sweep, TypeInv, RowKinds, capture, thread, outcome, late
<1>2. ClaimKinds'
  <2>1. 0 \in 0 .. MaxMessages BY TranscriptAssumption
  <2>2. CASE claim # NULL /\ waiting = {} BY <2>1, <2>2 DEF Sweep, TypeInv, ClaimKinds
  <2>3. CASE ~(claim # NULL /\ waiting = {}) BY <2>3 DEF Sweep, TypeInv, ClaimKinds, held
  <2>. QED BY <2>2, <2>3
<1>3. /\ FlusherKinds' /\ Moves(f) /\ pc'[f] = "looking" BY GotoMoves DEF Sweep, TypeInv, PCs
<1>4. Aimed' /\ OneEach' BY <1>3, OneMoves DEF Working
<1>. QED BY <1>1, <1>2, <1>3, <1>4 DEF TypeInv

LEMMA LookTypes ==
  ASSUME TypeInv, NEW f \in Flushers, Look(f) PROVE TypeInv'
<1>. USE DEF Look, capture, thread, held, outcome, late
<1>1. RowKinds' /\ ClaimKinds' BY DEF TypeInv, RowKinds, ClaimKinds
<1>2. UNCHANGED <<lines, why>> OBVIOUS
<1>3. /\ pc'[f] \in {"taking", "seizing", "idle"} /\ pc' \in [Flushers -> PCs]
      /\ \A g \in Flushers \ {f} : pc'[g] = pc[g]
  BY DEF Goto, TypeInv, FlusherKinds, PCs
<1>4. /\ upto' \in [Flushers -> 0 .. MaxMessages]
      /\ \A g \in Flushers \ {f} : upto'[g] = upto[g]
      /\ pc'[f] \in {"taking", "seizing"} => upto'[f] # 0
  <2>1. waiting \subseteq 1 .. MaxMessages BY TranscriptAssumption DEF TypeInv, RowKinds
  <2>2. through \in 0 .. MaxMessages /\ (claim # NULL => through # 0) BY DEF TypeInv, ClaimKinds
  <2>3. upto \in [Flushers -> 0 .. MaxMessages] /\ pc \in [Flushers -> PCs] BY DEF TypeInv, FlusherKinds
  <2>4. ASSUME NEW newest \in waiting, upto' = [upto EXCEPT ![f] = newest]
        PROVE  /\ upto' \in [Flushers -> 0 .. MaxMessages]
               /\ \A g \in Flushers \ {f} : upto'[g] = upto[g]
               /\ upto'[f] # 0 BY <2>1, <2>3, <2>4, TranscriptAssumption
  <2>5. ASSUME upto' = [upto EXCEPT ![f] = through], claim # NULL
        PROVE  /\ upto' \in [Flushers -> 0 .. MaxMessages]
               /\ \A g \in Flushers \ {f} : upto'[g] = upto[g]
               /\ upto'[f] # 0 BY <2>2, <2>3, <2>5
  <2>6. ASSUME Goto(f, "idle") PROVE pc'[f] = "idle" BY <2>3, <2>6 DEF Goto
  <2>. QED BY <2>3, <2>4, <2>5, <2>6
<1>5. /\ token' \in [Flushers -> Claims \cup {NULL}]
      /\ \A g \in Flushers \ {f} : token'[g] = token[g]
      /\ pc'[f] = "seizing" => token'[f] # NULL
  BY DEF Goto, TypeInv, FlusherKinds, ClaimKinds
<1>6. FlusherKinds' /\ Moves(f) BY <1>2, <1>3, <1>4, <1>5 DEF TypeInv, FlusherKinds, Moves
<1>7. Aimed' /\ OneEach' BY <1>3, <1>4, <1>5, <1>6, OneMoves DEF Working
<1>. QED BY <1>1, <1>6, <1>7 DEF TypeInv

LEMMA TakeTypes ==
  ASSUME TypeInv, NEW f \in Flushers, Take(f) PROVE TypeInv'
<1>. USE DEF Take
<1>1. RowKinds' BY DEF TypeInv, RowKinds, capture, thread, outcome, late
<1>2. CASE MayTake(f)
  <2>1. PICK k \in Fresh : claim' = k /\ token' = [token EXCEPT ![f] = k] BY <1>2
  <2>2. /\ through' = upto[f] /\ stale' = FALSE /\ tries' = 0
        /\ pc' = [pc EXCEPT ![f] = "locating"] /\ UNCHANGED <<upto, lines, why, failed>>
    BY <1>2 DEF Goto
  <2>3. upto[f] \in 0 .. MaxMessages /\ upto[f] # 0 BY DEF TypeInv, FlusherKinds, Aimed
  <2>4. ClaimKinds' BY <2>1, <2>2, <2>3, FreshIs DEF TypeInv, ClaimKinds
  <2>5. FlusherKinds' /\ Moves(f) /\ pc'[f] = "locating" /\ token'[f] = k /\ upto'[f] = upto[f]
    BY <2>1, <2>2, FreshIs DEF TypeInv, FlusherKinds, Moves, PCs
  <2>6. Aimed' /\ OneEach' BY <2>1, <2>3, <2>5, FreshIs, OneMoves
  <2>. QED BY <1>1, <2>4, <2>5, <2>6 DEF TypeInv
<1>3. CASE ~MayTake(f)
  <2>1. Through(f) /\ UNCHANGED <<held, tries, failed>> BY <1>3
  <2>2. ClaimKinds' BY <2>1 DEF TypeInv, ClaimKinds, held
  <2>3. FlusherKinds' /\ Moves(f) /\ pc'[f] = "idle" BY <2>1, ThroughRests DEF TypeInv
  <2>4. Aimed' /\ OneEach' BY <2>3, OneMoves DEF Working
  <2>. QED BY <1>1, <2>2, <2>3, <2>4 DEF TypeInv
<1>. QED BY <1>2, <1>3

LEMMA SeizeTypes ==
  ASSUME TypeInv, NEW f \in Flushers, Seize(f) PROVE TypeInv'
<1>. USE DEF Seize
<1>1. RowKinds' BY DEF TypeInv, RowKinds, capture, thread, outcome, late
<1>2. CASE claim = token[f]
  <2>1. PICK k \in Fresh : claim' = k /\ token' = [token EXCEPT ![f] = k] BY <1>2
  <2>2. /\ UNCHANGED through /\ stale' = FALSE /\ UNCHANGED tries
        /\ pc' = [pc EXCEPT ![f] = "locating"] /\ UNCHANGED <<upto, lines, why, failed>>
    BY <1>2 DEF Goto
  <2>3. upto[f] \in 0 .. MaxMessages /\ upto[f] # 0 BY DEF TypeInv, FlusherKinds, Aimed
  <2>4. ClaimKinds'
    <3>1. k \in Claims /\ k # NULL /\ claim # NULL BY <1>2, <2>1, FreshIs DEF TypeInv, Aimed, ClaimKinds
    <3>. QED BY <2>1, <2>2, <3>1 DEF TypeInv, ClaimKinds
  <2>5. FlusherKinds' /\ Moves(f) /\ pc'[f] = "locating" /\ token'[f] = k /\ upto'[f] = upto[f]
    BY <2>1, <2>2, FreshIs DEF TypeInv, FlusherKinds, Moves, PCs
  <2>6. Aimed' /\ OneEach' BY <2>1, <2>3, <2>5, FreshIs, OneMoves
  <2>. QED BY <1>1, <2>4, <2>5, <2>6 DEF TypeInv
<1>3. CASE claim # token[f]
  <2>1. Through(f) /\ UNCHANGED <<held, tries, failed>> BY <1>3
  <2>2. ClaimKinds' BY <2>1 DEF TypeInv, ClaimKinds, held
  <2>3. FlusherKinds' /\ Moves(f) /\ pc'[f] = "idle" BY <2>1, ThroughRests DEF TypeInv
  <2>4. Aimed' /\ OneEach' BY <2>3, OneMoves DEF Working
  <2>. QED BY <1>1, <2>2, <2>3, <2>4 DEF TypeInv
<1>. QED BY <1>2, <1>3

\* At work, a flusher goes on under the claim it has.
LEMMA WorkTypes ==
  ASSUME TypeInv, NEW f \in Flushers, pc[f] \in Working, RowKinds', ClaimKinds',
         UNCHANGED <<token, upto>>, lines' \in [Flushers -> SUBSET Messages],
         why' \in [Flushers -> {"published", "orphan", "gave_up"}],
         \A g \in Flushers \ {f} : lines'[g] = lines[g] /\ why'[g] = why[g],
         NEW x \in PCs, Goto(f, x)
  PROVE  TypeInv'
<1>1. pc' \in [Flushers -> PCs] /\ \A g \in Flushers \ {f} : pc'[g] = pc[g] BY DEF TypeInv, FlusherKinds, Goto
<1>2. FlusherKinds' /\ Moves(f) BY <1>1 DEF TypeInv, FlusherKinds, Moves
<1>3. Aimed' /\ OneEach' BY <1>2, OneMoves DEF TypeInv, Aimed
<1>. QED BY <1>2, <1>3 DEF TypeInv

LEMMA PublishTypes ==
  ASSUME TypeInv, NEW f \in Flushers, pc[f] = "publishing",
         GoesOut(f) \/ UNCHANGED published, faults' \in Nat, NEW x \in PCs, Goto(f, x),
         UNCHANGED <<capture, waiting, thread, held, failed, memory, forgotten, dropped, tries,
                     late>>
  PROVE  TypeInv'
<1>1. published' \in [Messages -> Nat] BY DEF TypeInv, RowKinds, GoesOut
<1>2. RowKinds' /\ ClaimKinds' BY <1>1 DEF TypeInv, RowKinds, ClaimKinds, capture, thread, held, late
<1>. QED BY <1>2, WorkTypes DEF TypeInv, FlusherKinds, memory, Working

LEMMA WorkersTypes ==
  ASSUME TypeInv, NEW f \in Flushers, Locate(f) \/ Read(f) \/ Publish(f) \/ PublishFails(f) PROVE TypeInv'
<1>1. CASE Locate(f)
  <2>1. RowKinds' /\ ClaimKinds'
    BY <1>1 DEF Locate, TypeInv, RowKinds, ClaimKinds, capture, thread, held, outcome, late
  <2>2. /\ why' \in [Flushers -> {"published", "orphan", "gave_up"}]
        /\ \A g \in Flushers \ {f} : why'[g] = why[g]
        /\ pc[f] \in Working /\ UNCHANGED <<token, upto, lines>>
    BY <1>1 DEF Locate, TypeInv, FlusherKinds, Working
  <2>3. \E x \in PCs : Goto(f, x) BY <1>1 DEF Locate, PCs
  <2>. QED BY <2>1, <2>2, <2>3, WorkTypes DEF TypeInv, FlusherKinds
<1>2. CASE Read(f)
  <2>1. RowKinds' /\ ClaimKinds'
    BY <1>2 DEF Read, TypeInv, RowKinds, ClaimKinds, capture, thread, held, outcome, late
  <2>2. waiting \subseteq Messages BY TranscriptAssumption DEF TypeInv, RowKinds, Messages
  <2>3. /\ lines' \in [Flushers -> SUBSET Messages]
        /\ \A g \in Flushers \ {f} : lines'[g] = lines[g]
        /\ pc[f] \in Working /\ UNCHANGED <<token, upto, why>>
    BY <1>2, <2>2 DEF Read, Listed, TypeInv, FlusherKinds, Working
  <2>4. \E x \in PCs : Goto(f, x) BY <1>2 DEF Read, Listed, PCs
  <2>. QED BY <2>1, <2>3, <2>4, WorkTypes DEF TypeInv, FlusherKinds
<1>3. CASE Publish(f) BY <1>3, PublishTypes DEF Publish, PCs, TypeInv, RowKinds
<1>4. CASE PublishFails(f) BY <1>4, PublishTypes DEF PublishFails, Fault, PCs, TypeInv, RowKinds
<1>. QED BY <1>1, <1>2, <1>3, <1>4

LEMMA CountTypes ==
  ASSUME TypeInv, NEW f \in Flushers, Count(f) PROVE TypeInv'
<1>1. RowKinds' /\ ClaimKinds'
  BY DEF Count, TypeInv, RowKinds, ClaimKinds, capture, thread, held, outcome, late
<1>2. CASE GivesUp
  <2>1. /\ why' \in [Flushers -> {"published", "orphan", "gave_up"}]
        /\ \A g \in Flushers \ {f} : why'[g] = why[g]
        /\ pc[f] \in Working /\ UNCHANGED <<token, upto, lines>>
    BY <1>2 DEF Count, TypeInv, FlusherKinds, Working
  <2>2. "settling" \in PCs /\ Goto(f, "settling") BY <1>2 DEF Count, PCs
  <2>. QED BY <1>1, <2>1, <2>2, WorkTypes DEF TypeInv, FlusherKinds
<1>3. CASE ~GivesUp
  <2>1. FlusherKinds' /\ Moves(f) /\ pc'[f] = "idle" BY <1>3, ThroughRests DEF TypeInv, Count
  <2>2. Aimed' /\ OneEach' BY <2>1, OneMoves DEF Working
  <2>. QED BY <1>1, <2>1, <2>2 DEF TypeInv
<1>. QED BY <1>2, <1>3

LEMMA SettleTypes ==
  ASSUME TypeInv, NEW f \in Flushers, Settle(f) PROVE TypeInv'
<1>1. Batch(f) \subseteq Messages
  <2>1. 1 .. said \subseteq 1 .. MaxMessages BY TranscriptAssumption DEF TypeInv, RowKinds
  <2>. QED BY <2>1 DEF Batch, TypeInv, RowKinds, Messages
<1>2. RowKinds'
  <2>1. waiting' \subseteq 1 .. said /\ dropped' \subseteq Messages BY <1>1 DEF Settle, TypeInv, RowKinds
  <2>. QED BY <2>1 DEF Settle, TypeInv, RowKinds, capture, late
<1>3. ClaimKinds'
  <2>1. 0 \in 0 .. MaxMessages BY TranscriptAssumption
  <2>. QED BY <2>1 DEF Settle, ReleaseClaim, TypeInv, ClaimKinds
<1>4. FlusherKinds' /\ Moves(f) /\ pc'[f] = "idle" BY ThroughRests DEF TypeInv, Settle
<1>5. Aimed' /\ OneEach' BY <1>4, OneMoves DEF Working
<1>. QED BY <1>2, <1>3, <1>4, <1>5 DEF TypeInv

LEMMA DieTypes ==
  ASSUME TypeInv, NEW f \in Flushers, Die(f) PROVE TypeInv'
<1>1. RowKinds' /\ ClaimKinds'
  BY DEF Die, Fault, TypeInv, RowKinds, ClaimKinds, capture, thread, held, outcome, late
<1>2. FlusherKinds' /\ Moves(f) /\ pc'[f] = "idle" BY ThroughRests DEF TypeInv, Die
<1>3. Aimed' /\ OneEach' BY <1>2, OneMoves DEF Working
<1>. QED BY <1>1, <1>2, <1>3 DEF TypeInv

LEMMA TypeStep == TypeInv /\ [Next]_vars => TypeInv'
<1>. SUFFICES ASSUME TypeInv, [Next]_vars PROVE TypeInv' OBVIOUS
<1>1. CASE Environment BY <1>1, ThreadTypes
<1>2. ASSUME NEW f \in Flushers, Step(f) \/ PublishFails(f) \/ Die(f) PROVE TypeInv'
  BY <1>2, SweepTypes, LookTypes, TakeTypes, SeizeTypes, WorkersTypes, CountTypes, SettleTypes, DieTypes
    DEF Step
<1>3. CASE UNCHANGED vars
  BY <1>3 DEF vars, capture, thread, held, memory, outcome, late, TypeInv, RowKinds, ClaimKinds, FlusherKinds,
    Aimed, OneEach
<1>. QED BY <1>1, <1>2, <1>3 DEF Next

\* Every variable keeps its type, and no two flushers at work have one claim: a flush
\* id is drawn anew, and only the claim it was read from gives way to it (_take, claim,
\* _take_over, seize).
THEOREM TypeCorrect == Spec => []TypeOK
BY TypeInit, TypeStep, TypeInvIs, PTL DEF Spec

----
\* How often a message goes out.  A comment leaves its flusher about to
\* drop the batch, and of a message that still waits only a fault takes
\* such a flusher away: so it has gone out once for each of them and once
\* for each fault.  Of a message that waits no longer, whoever has read it
\* may still say it, and nobody else will read it.

Droppers(m) == {f \in Flushers : pc[f] = "settling" /\ m <= upto[f]}
Readers(m)  == {f \in Flushers : pc[f] = "publishing" /\ m \in lines[f]}

Unsaid ==
    \A m \in Messages : m \in unseen \/ said < m =>
        published[m] = 0 /\ m \notin waiting /\ \A f \in Flushers : m \notin lines[f]

WithinBatch ==
    \A f \in Flushers : pc[f] = "publishing" => \A m \in lines[f] : m <= upto[f]

SpentWaiting(m) == published[m] <= faults + Cardinality(Droppers(m))
SpentGone(m)    == published[m] + Cardinality(Readers(m)) <= faults + Cardinality(Flushers)

Spent ==
    \A m \in Messages : /\ m \in waiting => SpentWaiting(m)
                        /\ m \notin waiting => SpentGone(m)

SpentInv == Unsaid /\ WithinBatch /\ Spent

----
\* As long as no claim was left without rows, one flusher at a time is at
\* work: a row of what is claimed is there, the failures counted are those
\* of the batch claimed, and what has been read waits until it is dropped.

Alone ==
    /\ \A f \in Flushers : pc[f] \in Working => token[f] = claim /\ ~stale
    /\ \A f \in Flushers : pc[f] = "seizing" /\ token[f] = claim => stale
    /\ claim # NULL => \E m \in waiting : m <= through

OwnFailures ==
    /\ claim = NULL => failed = 0
    /\ claim # NULL => failed = tries

\* Why a batch is dropped is settled when it is about to be.
Reasoned ==
    /\ OwnFailuresOnly
    /\ \A f \in Flushers : pc[f] # "settling" => why[f] = "published"

OnceOnly ==
    /\ \A m \in Messages : published[m] <= faults + 1
    /\ \A f \in Flushers : pc[f] = "publishing" => lines[f] \subseteq waiting

SoleInv == ClaimsHaveRows => Alone /\ OwnFailures /\ Reasoned /\ OnceOnly

\* A finite set of flushers grows or shrinks by the one that moves.
LEMMA OneMore ==
  ASSUME NEW S, NEW T, NEW f, IsFiniteSet(S), T \subseteq S \cup {f}
  PROVE  /\ IsFiniteSet(T) /\ Cardinality(T) \in Nat /\ Cardinality(S) \in Nat
         /\ Cardinality(T) <= Cardinality(S) + 1
         /\ T \subseteq S => Cardinality(T) <= Cardinality(S)
         /\ f \in S /\ f \notin T => Cardinality(T) <= Cardinality(S) - 1
<1>1. IsFiniteSet(S \cup {f}) /\ Cardinality(S \cup {f}) \in Nat /\ Cardinality(S) \in Nat
      /\ Cardinality(S \cup {f}) <= Cardinality(S) + 1
  BY FS_AddElement, FS_CardinalityType
<1>2. IsFiniteSet(T) /\ Cardinality(T) \in Nat /\ Cardinality(T) <= Cardinality(S \cup {f})
  BY <1>1, FS_Subset, FS_CardinalityType
<1>3. T \subseteq S => Cardinality(T) <= Cardinality(S) BY FS_Subset
<1>4. ASSUME f \in S, f \notin T PROVE Cardinality(T) <= Cardinality(S) - 1
  <2>1. IsFiniteSet(S \ {f}) /\ Cardinality(S \ {f}) = Cardinality(S) - 1 BY <1>4, FS_RemoveElement
  <2>2. T \subseteq S \ {f} BY <1>4
  <2>3. Cardinality(T) <= Cardinality(S \ {f}) BY <2>1, <2>2, FS_Subset
  <2>. QED BY <2>1, <2>3
<1>. QED BY <1>1, <1>2, <1>3, <1>4

LEMMA FlushersAreFinite ==
  ASSUME IsFiniteSet(Flushers), NEW m \in Messages
  PROVE  /\ IsFiniteSet(Droppers(m)) /\ Cardinality(Droppers(m)) \in Nat
         /\ IsFiniteSet(Readers(m)) /\ Cardinality(Readers(m)) \in Nat
         /\ Cardinality(Flushers) \in Nat
         /\ Cardinality(Droppers(m)) + Cardinality(Readers(m)) <= Cardinality(Flushers)
<1>1. Droppers(m) \subseteq Flushers /\ Readers(m) \subseteq Flushers BY DEF Droppers, Readers
<1>2. /\ IsFiniteSet(Droppers(m)) /\ Cardinality(Droppers(m)) \in Nat
      /\ IsFiniteSet(Readers(m)) /\ Cardinality(Readers(m)) \in Nat
      /\ Cardinality(Flushers) \in Nat BY <1>1, FS_Subset, FS_CardinalityType
<1>3. Droppers(m) \cap Readers(m) = {} BY DEF Droppers, Readers
<1>4. /\ IsFiniteSet(Droppers(m) \cup Readers(m))
      /\ Cardinality(Droppers(m) \cup Readers(m)) =
             Cardinality(Droppers(m)) + Cardinality(Readers(m))
  <2>1. Cardinality(Droppers(m) \cap Readers(m)) = 0 BY <1>3, FS_EmptySet
  <2>2. /\ IsFiniteSet(Droppers(m) \cup Readers(m))
        /\ Cardinality(Droppers(m) \cup Readers(m)) =
               Cardinality(Droppers(m)) + Cardinality(Readers(m))
                   - Cardinality(Droppers(m) \cap Readers(m)) BY <1>2, FS_Union
  <2>. QED BY <1>2, <2>1, <2>2
<1>5. Cardinality(Droppers(m) \cup Readers(m)) <= Cardinality(Flushers) BY <1>1, FS_Subset
<1>. QED BY <1>2, <1>4, <1>5

LEMMA SpentInit == ASSUME IsFiniteSet(Flushers) PROVE Init => SpentInv
<1>. SUFFICES ASSUME Init PROVE SpentInv OBVIOUS
<1>1. Unsaid /\ WithinBatch BY DEF Init, Unsaid, WithinBatch
<1>2. ASSUME NEW m \in Messages PROVE m \notin waiting /\ SpentGone(m)
  <2>1. published[m] = 0 /\ faults = 0 /\ m \notin waiting BY DEF Init
  <2>. QED BY <2>1, FlushersAreFinite DEF SpentGone
<1>. QED BY <1>1, <1>2 DEF SpentInv, Spent

\* A message goes on waiting, or goes on being gone; no flusher leaves off dropping
\* what waits, and none has read what is gone.
LEMMA SpentKept ==
  ASSUME IsFiniteSet(Flushers), TypeInv, SpentInv, NEW m \in Messages,
         published' = published, faults' \in Nat, faults <= faults',
         Droppers(m) \subseteq Droppers(m)', Readers(m)' \subseteq Readers(m),
         m \in waiting' <=> m \in waiting
  PROVE  /\ m \in waiting' => SpentWaiting(m)'
         /\ m \notin waiting' => SpentGone(m)'
<1>1. /\ IsFiniteSet(Droppers(m)') /\ Cardinality(Droppers(m)') \in Nat
      /\ IsFiniteSet(Readers(m)') /\ Cardinality(Readers(m)') \in Nat
  <2>1. Droppers(m)' \subseteq Flushers /\ Readers(m)' \subseteq Flushers BY DEF Droppers, Readers
  <2>. QED BY <2>1, FS_Subset, FS_CardinalityType
<1>2. /\ Cardinality(Droppers(m)) <= Cardinality(Droppers(m)')
      /\ Cardinality(Readers(m)') <= Cardinality(Readers(m))
  BY <1>1, FlushersAreFinite, FS_Subset
<1>3. published[m] \in Nat /\ faults \in Nat BY DEF TypeInv, RowKinds
<1>. HIDE DEF Droppers, Readers
<1>4. CASE m \in waiting
  <2>1. published[m] <= faults + Cardinality(Droppers(m)) BY <1>4 DEF SpentInv, Spent, SpentWaiting
  <2>2. published'[m] <= faults' + Cardinality(Droppers(m)') BY <1>1, <1>2, <1>3, <2>1, FlushersAreFinite
  <2>. QED BY <1>4, <2>2 DEF SpentWaiting
<1>5. CASE m \notin waiting
  <2>1. published[m] + Cardinality(Readers(m)) <= faults + Cardinality(Flushers)
    BY <1>5 DEF SpentInv, Spent, SpentGone
  <2>2. published'[m] + Cardinality(Readers(m)') <= faults' + Cardinality(Flushers)
    BY <1>1, <1>2, <1>3, <2>1, FlushersAreFinite
  <2>. QED BY <1>5, <2>2 DEF SpentGone
<1>. QED BY <1>4, <1>5

\* A message that waits no longer was said by those who drop it, and may still be
\* said by those who have read it: together they are flushers.
LEMMA SpentLeaves ==
  ASSUME IsFiniteSet(Flushers), TypeInv, SpentInv, NEW m \in Messages,
         m \in waiting, m \notin waiting', UNCHANGED <<published, faults>>,
         Readers(m)' \subseteq Readers(m)
  PROVE  SpentGone(m)'
<1>1. published[m] <= faults + Cardinality(Droppers(m)) BY DEF SpentInv, Spent, SpentWaiting
<1>2. Cardinality(Readers(m)') \in Nat /\ Cardinality(Readers(m)') <= Cardinality(Readers(m))
  BY FlushersAreFinite, FS_Subset, FS_CardinalityType
<1>3. published[m] \in Nat /\ faults \in Nat BY DEF TypeInv, RowKinds
<1>4. published'[m] + Cardinality(Readers(m)') <= faults' + Cardinality(Flushers)
  BY <1>1, <1>2, <1>3, FlushersAreFinite
<1>. QED BY <1>4 DEF SpentGone

\* A step in which no comment goes out and no row comes or goes.
LEMMA SpentRests ==
  ASSUME IsFiniteSet(Flushers), TypeInv, SpentInv, NEW f \in Flushers, Moves(f),
         faults' \in Nat, faults <= faults',
         UNCHANGED <<capture, waiting, published>>,
         pc[f] # "settling", pc'[f] # "publishing",
         lines'[f] \subseteq lines[f]
  PROVE  SpentInv'
<1>1. ASSUME NEW m \in Messages PROVE Droppers(m) \subseteq Droppers(m)' /\ Readers(m)' \subseteq Readers(m)
  BY DEF Droppers, Readers, Moves
<1>2. Spent' BY <1>1, SpentKept DEF Spent
<1>3. Unsaid' BY DEF SpentInv, Unsaid, Moves, capture
<1>4. WithinBatch' BY DEF SpentInv, WithinBatch, Moves
<1>. QED BY <1>2, <1>3, <1>4 DEF SpentInv

\* What happens in the thread.
LEMMA SpentThread ==
  ASSUME IsFiniteSet(Flushers), TypeInv, SpentInv, Environment PROVE SpentInv'
<1>1. UNCHANGED <<pc, token, upto, lines, why, faults, published>>
  BY DEF Environment, Say, Commit, Forget, Stop, ThreadGoes, Ripens, Ages, memory, outcome
<1>2. WithinBatch' BY <1>1 DEF SpentInv, WithinBatch
<1>3. \A m \in Messages : Droppers(m)' = Droppers(m) /\ Readers(m)' = Readers(m) BY <1>1 DEF Droppers, Readers
<1>4. faults \in Nat /\ \A m \in Messages : published[m] \in Nat BY DEF TypeInv, RowKinds
<1>5. CASE Say
  <2>1. /\ said' = said + 1 /\ unseen' = unseen \cup {said + 1} /\ waiting' = waiting
        /\ said \in Nat BY <1>5 DEF Say, TypeInv, RowKinds
  <2>2. Unsaid' BY <1>1, <2>1 DEF SpentInv, Unsaid, Messages
  <2>3. Spent' BY <1>1, <1>3, <1>4, <2>1, SpentKept DEF Spent
  <2>. QED BY <1>2, <2>2, <2>3 DEF SpentInv
<1>6. ASSUME NEW m \in Messages, Commit(m) PROVE SpentInv'
  <2>1. /\ m \in unseen /\ unseen' = unseen \ {m} /\ waiting' = waiting \cup {m}
        /\ said' = said BY <1>6 DEF Commit
  <2>2. /\ unseen \subseteq 1 .. said /\ said \in Nat BY DEF TypeInv, RowKinds
  <2>3. Unsaid' BY <1>1, <2>1, <2>2 DEF SpentInv, Unsaid, Messages
  <2>4. SpentWaiting(m)'
    <3>1. published'[m] = 0 BY <1>1, <2>1 DEF SpentInv, Unsaid
    <3>. QED BY <1>1, <1>3, <1>4, <3>1, FlushersAreFinite DEF SpentWaiting
  <2>5. ASSUME NEW n \in Messages \ {m}
        PROVE  (n \in waiting' => SpentWaiting(n)') /\ (n \notin waiting' => SpentGone(n)')
    BY <1>1, <1>3, <1>4, <2>1, SpentKept
  <2>6. Spent' BY <2>1, <2>4, <2>5 DEF Spent
  <2>. QED BY <1>2, <2>3, <2>6 DEF SpentInv
<1>7. ASSUME NEW m \in Messages, Forget(m) PROVE SpentInv'
  <2>1. m \in waiting /\ waiting' = waiting \ {m} /\ UNCHANGED <<said, unseen>> BY <1>7 DEF Forget, capture
  <2>2. Unsaid' BY <1>1, <2>1 DEF SpentInv, Unsaid
  <2>3. SpentGone(m)' BY <1>1, <1>3, <2>1, SpentLeaves
  <2>4. ASSUME NEW n \in Messages \ {m}
        PROVE  (n \in waiting' => SpentWaiting(n)') /\ (n \notin waiting' => SpentGone(n)')
    BY <1>1, <1>3, <1>4, <2>1, SpentKept
  <2>5. Spent' BY <2>1, <2>3, <2>4 DEF Spent
  <2>. QED BY <1>2, <2>2, <2>5 DEF SpentInv
<1>8. CASE Stop \/ ThreadGoes \/ Ripens \/ Ages
  <2>1. UNCHANGED <<said, unseen, waiting>> BY <1>8 DEF Stop, ThreadGoes, Ripens, Ages, capture
  <2>2. Unsaid' BY <1>1, <2>1 DEF SpentInv, Unsaid
  <2>3. Spent' BY <1>1, <1>3, <1>4, <2>1, SpentKept DEF Spent
  <2>. QED BY <1>2, <2>2, <2>3 DEF SpentInv
<1>. QED BY <1>5, <1>6, <1>7, <1>8 DEF Environment

\* A flusher reads its batch.
LEMMA SpentRead ==
  ASSUME IsFiniteSet(Flushers), TypeInv, SpentInv, NEW f \in Flushers, Read(f) PROVE SpentInv'
<1>1. PICK rows \in SUBSET waiting :
        /\ lines' = [lines EXCEPT ![f] = rows]
        /\ \A m \in rows : m <= upto[f]
  <2>1. {m \in waiting : m <= upto[f]} \in SUBSET waiting OBVIOUS
  <2>. QED BY <2>1 DEF Read, Listed
<1>2. /\ pc[f] = "reading" /\ UNCHANGED <<capture, waiting, published, faults, upto>>
      /\ \A g \in Flushers \ {f} : pc'[g] = pc[g] /\ lines'[g] = lines[g]
      /\ lines'[f] = rows BY <1>1 DEF Read, Goto, outcome, TypeInv, FlusherKinds
<1>3. faults \in Nat BY DEF TypeInv, RowKinds
<1>4. ASSUME NEW m \in Messages PROVE Droppers(m) \subseteq Droppers(m)' BY <1>2 DEF Droppers
<1>5. ASSUME NEW m \in Messages \ waiting PROVE Readers(m)' \subseteq Readers(m) BY <1>2 DEF Readers
<1>6. ASSUME NEW m \in Messages, m \in waiting PROVE SpentWaiting(m)'
  <2>1. Droppers(m)' \subseteq Flushers /\ IsFiniteSet(Droppers(m)') BY FS_Subset DEF Droppers
  <2>2. Cardinality(Droppers(m)) <= Cardinality(Droppers(m)') /\ Cardinality(Droppers(m)') \in Nat
    BY <1>4, <2>1, FS_Subset, FS_CardinalityType
  <2>3. published[m] <= faults + Cardinality(Droppers(m)) /\ published[m] \in Nat
    BY <1>6 DEF SpentInv, Spent, SpentWaiting, TypeInv, RowKinds
  <2>. HIDE DEF Droppers
  <2>4. published'[m] <= faults' + Cardinality(Droppers(m)') BY <1>2, <1>3, <2>2, <2>3, FlushersAreFinite
  <2>. QED BY <2>4 DEF SpentWaiting
<1>7. ASSUME NEW m \in Messages, m \notin waiting PROVE SpentGone(m)'
  BY <1>2, <1>3, <1>4, <1>5, <1>7, SpentKept
<1>8. Spent' BY <1>2, <1>6, <1>7 DEF Spent
<1>9. Unsaid' BY <1>2 DEF SpentInv, Unsaid, capture
<1>10. WithinBatch' BY <1>1, <1>2 DEF SpentInv, WithinBatch
<1>. QED BY <1>8, <1>9, <1>10 DEF SpentInv

\* The comment goes out: whoever sent it is about to drop what it said, or a fault
\* befell it.
LEMMA SpentPublished ==
  ASSUME IsFiniteSet(Flushers), TypeInv, SpentInv, NEW f \in Flushers,
         pc[f] = "publishing", GoesOut(f) \/ UNCHANGED published,
         UNCHANGED <<capture, waiting, lines, upto>>,
         \/ Goto(f, "settling") /\ UNCHANGED faults
         \/ Goto(f, "counting") /\ faults' = faults + 1
  PROVE  SpentInv'
<1>1. /\ \A g \in Flushers \ {f} : pc'[g] = pc[g]
      /\ pc'[f] \in {"settling", "counting"}
      /\ pc'[f] = "settling" => faults' = faults
      /\ pc'[f] = "counting" => faults' = faults + 1
  BY DEF TypeInv, FlusherKinds, Goto
<1>2. faults \in Nat /\ faults' \in Nat /\ faults <= faults' BY <1>1 DEF TypeInv, RowKinds
<1>3. ASSUME NEW m \in Messages
      PROVE  /\ published[m] \in Nat /\ published'[m] \in Nat
             /\ published'[m] = published[m] \/ (published'[m] = published[m] + 1 /\ m \in lines[f])
  BY DEF GoesOut, TypeInv, RowKinds
<1>4. ASSUME NEW m \in Messages
      PROVE  /\ Readers(m)' \subseteq Readers(m)
             /\ f \notin Readers(m)'
             /\ m \in lines[f] => f \in Readers(m)
             /\ Droppers(m) \subseteq Droppers(m)' /\ f \notin Droppers(m)
             /\ m \in lines[f] /\ pc'[f] = "settling" => f \in Droppers(m)'
             /\ IsFiniteSet(Droppers(m)') /\ Cardinality(Droppers(m)') \in Nat
             /\ IsFiniteSet(Readers(m)') /\ Cardinality(Readers(m)') \in Nat
  <2>1. Readers(m)' \subseteq Flushers /\ Droppers(m)' \subseteq Flushers BY DEF Readers, Droppers
  <2>2. m \in lines[f] => m <= upto[f] BY DEF SpentInv, WithinBatch
  <2>3. /\ Readers(m)' \subseteq Readers(m)
        /\ f \notin Readers(m)'
        /\ m \in lines[f] => f \in Readers(m) BY <1>1 DEF Readers
  <2>4. /\ Droppers(m) \subseteq Droppers(m)' /\ f \notin Droppers(m)
        /\ m \in lines[f] /\ pc'[f] = "settling" => f \in Droppers(m)'
    BY <1>1, <2>2 DEF Droppers
  <2>. QED BY <2>1, <2>3, <2>4, FS_Subset, FS_CardinalityType
<1>5. ASSUME NEW m \in Messages, m \in waiting PROVE SpentWaiting(m)'
  <2>1. published[m] <= faults + Cardinality(Droppers(m)) BY <1>5 DEF SpentInv, Spent, SpentWaiting
  <2>2. Cardinality(Droppers(m)) <= Cardinality(Droppers(m)') BY <1>4, FS_Subset
  <2>3. m \in lines[f] /\ pc'[f] = "settling" =>
            Cardinality(Droppers(m)) <= Cardinality(Droppers(m)') - 1
    BY <1>4, OneMore
  <2>4. Cardinality(Droppers(m)) \in Nat /\ Cardinality(Droppers(m)') \in Nat BY <1>4, FlushersAreFinite
  <2>5. published'[m] <= faults' + Cardinality(Droppers(m)') BY <1>1, <1>2, <1>3, <2>1, <2>2, <2>3, <2>4
  <2>. QED BY <2>5 DEF SpentWaiting
<1>6. ASSUME NEW m \in Messages, m \notin waiting PROVE SpentGone(m)'
  <2>1. published[m] + Cardinality(Readers(m)) <= faults + Cardinality(Flushers)
    BY <1>6 DEF SpentInv, Spent, SpentGone
  <2>2. Cardinality(Readers(m)') <= Cardinality(Readers(m)) /\ Cardinality(Readers(m)) \in Nat
    BY <1>4, FlushersAreFinite, FS_Subset
  <2>3. m \in lines[f] => Cardinality(Readers(m)') <= Cardinality(Readers(m)) - 1
    BY <1>4, FlushersAreFinite, OneMore
  <2>4. Cardinality(Readers(m)') \in Nat /\ Cardinality(Flushers) \in Nat BY <1>4, FlushersAreFinite
  <2>5. published'[m] + Cardinality(Readers(m)') <= faults' + Cardinality(Flushers)
    BY <1>2, <1>3, <2>1, <2>2, <2>3, <2>4
  <2>. QED BY <2>5 DEF SpentGone
<1>7. Spent' BY <1>5, <1>6 DEF Spent
<1>8. Unsaid' BY <1>3 DEF SpentInv, Unsaid, capture
<1>9. WithinBatch' BY <1>1 DEF SpentInv, WithinBatch
<1>. QED BY <1>7, <1>8, <1>9 DEF SpentInv

\* The batch is dropped, and its flusher with it.
LEMMA SpentSettled ==
  ASSUME IsFiniteSet(Flushers), TypeInv, SpentInv, NEW f \in Flushers, Settle(f) PROVE SpentInv'
<1>1. /\ waiting' = {m \in waiting : ~(m <= upto[f])}
      /\ UNCHANGED <<capture, published, faults>> /\ Through(f) /\ pc[f] = "settling"
  BY DEF Settle, Batch
<1>2. Moves(f) /\ pc'[f] = "idle" /\ lines'[f] = {} BY <1>1, ThroughRests DEF TypeInv
<1>3. ASSUME NEW m \in Messages PROVE Readers(m)' \subseteq Readers(m) BY <1>2 DEF Readers, Moves
<1>4. ASSUME NEW m \in Messages, ~(m <= upto[f]) PROVE Droppers(m) \subseteq Droppers(m)'
  BY <1>2, <1>4 DEF Droppers, Moves
<1>6. ASSUME NEW m \in Messages, m \in waiting' PROVE SpentWaiting(m)'
  <2>1. m \in waiting /\ ~(m <= upto[f]) BY <1>1, <1>6
  <2>2. Droppers(m)' \subseteq Flushers BY DEF Droppers
  <2>3. Cardinality(Droppers(m)) <= Cardinality(Droppers(m)') /\ Cardinality(Droppers(m)') \in Nat
    BY <1>4, <2>1, <2>2, FS_Subset, FS_CardinalityType
  <2>4. published[m] <= faults + Cardinality(Droppers(m)) /\ published[m] \in Nat /\ faults \in Nat
    BY <2>1 DEF SpentInv, Spent, SpentWaiting, TypeInv, RowKinds
  <2>5. published'[m] <= faults' + Cardinality(Droppers(m)') BY <1>1, <2>3, <2>4, FlushersAreFinite
  <2>. QED BY <2>5 DEF SpentWaiting
<1>7. ASSUME NEW m \in Messages, m \notin waiting' PROVE SpentGone(m)'
  <2>1. CASE m \in waiting BY <1>1, <1>3, <1>7, <2>1, SpentLeaves
  <2>2. CASE m \notin waiting
    <3>1. published[m] + Cardinality(Readers(m)) <= faults + Cardinality(Flushers)
      BY <2>2 DEF SpentInv, Spent, SpentGone
    <3>2. Cardinality(Readers(m)') \in Nat /\ Cardinality(Readers(m)') <= Cardinality(Readers(m))
      BY <1>3, FlushersAreFinite, FS_Subset, FS_CardinalityType
    <3>3. published[m] \in Nat /\ faults \in Nat BY DEF TypeInv, RowKinds
    <3>4. published'[m] + Cardinality(Readers(m)') <= faults' + Cardinality(Flushers)
      BY <1>1, <3>1, <3>2, <3>3, FlushersAreFinite
    <3>. QED BY <3>4 DEF SpentGone
  <2>. QED BY <2>1, <2>2
<1>8. Spent' BY <1>6, <1>7 DEF Spent
<1>9. Unsaid' BY <1>1, <1>2 DEF SpentInv, Unsaid, Moves, capture
<1>10. WithinBatch' BY <1>2 DEF SpentInv, WithinBatch, Moves
<1>. QED BY <1>8, <1>9, <1>10 DEF SpentInv

\* Whoever dies about to drop a batch is a fault the more.
LEMMA SpentDies ==
  ASSUME IsFiniteSet(Flushers), TypeInv, SpentInv, NEW f \in Flushers, Die(f) PROVE SpentInv'
<1>1. /\ UNCHANGED <<capture, waiting, published>> /\ faults' = faults + 1 /\ Through(f)
  BY DEF Die, Fault, outcome
<1>2. Moves(f) /\ pc'[f] = "idle" /\ lines'[f] = {} BY <1>1, ThroughRests DEF TypeInv
<1>3. faults \in Nat BY DEF TypeInv, RowKinds
<1>4. ASSUME NEW m \in Messages
      PROVE  Readers(m)' \subseteq Readers(m) /\ Droppers(m) \subseteq Droppers(m)' \cup {f}
  BY <1>2 DEF Readers, Droppers, Moves
<1>5. ASSUME NEW m \in Messages PROVE Droppers(m)' \subseteq Flushers BY DEF Droppers
<1>6. ASSUME NEW m \in Messages, m \in waiting' PROVE SpentWaiting(m)'
  <2>1. /\ Cardinality(Droppers(m)) <= Cardinality(Droppers(m)') + 1
        /\ Cardinality(Droppers(m)') \in Nat /\ Cardinality(Droppers(m)) \in Nat
    BY <1>4, <1>5, FS_Subset, OneMore
  <2>2. published[m] <= faults + Cardinality(Droppers(m)) /\ published[m] \in Nat
    BY <1>1, <1>6 DEF SpentInv, Spent, SpentWaiting, TypeInv, RowKinds
  <2>3. published'[m] <= faults' + Cardinality(Droppers(m)') BY <1>1, <1>3, <2>1, <2>2
  <2>. QED BY <2>3 DEF SpentWaiting
<1>7. ASSUME NEW m \in Messages, m \notin waiting' PROVE SpentGone(m)'
  <2>1. published[m] + Cardinality(Readers(m)) <= faults + Cardinality(Flushers)
    BY <1>1, <1>7 DEF SpentInv, Spent, SpentGone
  <2>2. Cardinality(Readers(m)') \in Nat /\ Cardinality(Readers(m)') <= Cardinality(Readers(m))
    BY <1>4, FlushersAreFinite, FS_Subset, FS_CardinalityType
  <2>3. published[m] \in Nat BY DEF TypeInv, RowKinds
  <2>4. published'[m] + Cardinality(Readers(m)') <= faults' + Cardinality(Flushers)
    BY <1>1, <1>3, <2>1, <2>2, <2>3, FlushersAreFinite
  <2>. QED BY <2>4 DEF SpentGone
<1>8. Spent' BY <1>6, <1>7 DEF Spent
<1>9. Unsaid' BY <1>1, <1>2 DEF SpentInv, Unsaid, Moves, capture
<1>10. WithinBatch' BY <1>2 DEF SpentInv, WithinBatch, Moves
<1>. QED BY <1>8, <1>9, <1>10 DEF SpentInv

LEMMA SpentStep ==
  ASSUME IsFiniteSet(Flushers) PROVE TypeInv /\ SpentInv /\ [Next]_vars => SpentInv'
<1>. SUFFICES ASSUME TypeInv, SpentInv, [Next]_vars PROVE SpentInv' OBVIOUS
<1>1. faults \in Nat /\ FlusherKinds BY DEF TypeInv, RowKinds
<1>2. ASSUME NEW f \in Flushers, Sweep(f) \/ Look(f) \/ Seize(f) \/ Take(f) \/ Locate(f) \/ Count(f)
      PROVE  SpentInv'
  <2>1. /\ UNCHANGED <<capture, waiting, published, faults>>
        /\ pc[f] # "settling"
    BY <1>2 DEF Sweep, Look, Seize, Take, Locate, Count, outcome
  <2>2. Moves(f) /\ pc'[f] # "publishing" /\ lines'[f] \subseteq lines[f]
    <3>1. CASE Sweep(f) BY <1>1, <3>1, GotoMoves DEF Sweep, PCs, memory
    <3>2. CASE Look(f) BY <1>1, <3>2 DEF Look, Goto, Moves, FlusherKinds
    <3>3. CASE Take(f) BY <1>1, <3>3, ThroughRests DEF Take, Goto, Moves, FlusherKinds
    <3>4. CASE Seize(f) BY <1>1, <3>4, ThroughRests DEF Seize, Goto, Moves, FlusherKinds
    <3>5. CASE Locate(f) BY <1>1, <3>5 DEF Locate, Goto, Moves, FlusherKinds
    <3>6. CASE Count(f) BY <1>1, <3>6, ThroughRests DEF Count, Goto, Moves, FlusherKinds
    <3>. QED BY <1>2, <3>1, <3>2, <3>3, <3>4, <3>5, <3>6
  <2>. QED BY <1>1, <2>1, <2>2, SpentRests
<1>3. ASSUME NEW f \in Flushers, Publish(f) \/ PublishFails(f) PROVE SpentInv'
  BY <1>3, SpentPublished DEF Publish, PublishFails, Fault, memory
<1>4. CASE UNCHANGED vars
  <2>1. UNCHANGED <<said, unseen, waiting, published, faults, pc, upto, lines>>
    BY <1>4 DEF vars, capture, memory, outcome
  <2>2. \A m \in Messages : Droppers(m)' = Droppers(m) /\ Readers(m)' = Readers(m)
    BY <2>1 DEF Droppers, Readers
  <2>3. Spent' BY <1>1, <2>1, <2>2, SpentKept DEF Spent
  <2>. QED BY <2>1, <2>3 DEF SpentInv, Unsaid, WithinBatch
<1>. QED BY <1>2, <1>3, <1>4, SpentThread, SpentRead, SpentSettled, SpentDies DEF Next, Step

----
\* Two flushers are not at work together: each would have the claim.
LEMMA NoSecond ==
  ASSUME TypeInv, Alone, NEW f \in Flushers, NEW g \in Flushers \ {f}, pc[f] \in Working
  PROVE  pc[g] \notin Working BY DEF TypeInv, OneEach, Alone

LEMMA SoleInit == Init => SoleInv
<1>. SUFFICES ASSUME Init PROVE SoleInv OBVIOUS
<1>1. Alone /\ OwnFailures /\ Reasoned BY DEF Init, Alone, OwnFailures, Reasoned, OwnFailuresOnly, Working
<1>2. OnceOnly BY DEF Init, OnceOnly
<1>. QED BY <1>1, <1>2 DEF SoleInv

\* What a flusher does before it has said anything, or once it is through.
LEMMA SoleRests ==
  ASSUME TypeInv, NEW f \in Flushers, FlusherKinds', Moves(f), Reasoned, OnceOnly,
         UNCHANGED <<published, waiting>>, faults' \in Nat, faults <= faults',
         \/ UNCHANGED tries
         \/ \A g \in Flushers \ {f} : pc[g] # "settling",
         pc'[f] # "publishing",
         pc'[f] # "settling" => why'[f] = "published",
         pc'[f] = "settling" => why'[f] # "gave_up"
  PROVE  Reasoned' /\ OnceOnly'
<1>1. Reasoned' BY DEF Reasoned, OwnFailuresOnly, Moves
<1>2. OnceOnly'
  <2>1. \A m \in Messages : published[m] <= faults + 1 /\ published[m] \in Nat /\ faults \in Nat
    BY DEF OnceOnly, TypeInv, RowKinds
  <2>2. \A m \in Messages : published'[m] <= faults' + 1 BY <2>1
  <2>3. \A g \in Flushers : pc'[g] = "publishing" => lines'[g] \subseteq waiting' BY DEF OnceOnly, Moves
  <2>. QED BY <2>2, <2>3 DEF OnceOnly
<1>. QED BY <1>1, <1>2

LEMMA SoleThread ==
  ASSUME Prompt, TypeInv, SoleInv, Environment, ClaimsHaveRows, ClaimsHaveRows'
  PROVE  Alone' /\ OwnFailures' /\ Reasoned' /\ OnceOnly'
<1>1. UNCHANGED <<pc, token, upto, lines, why, faults, published, claim, through, failed, tries>>
  BY DEF Environment, Say, Commit, Forget, Stop, ThreadGoes, Ripens, Ages, memory, held, outcome
<1>2. waiting \subseteq waiting'
  <2>1. ASSUME NEW m \in Messages, Forget(m) PROVE FALSE BY <2>1 DEF Forget, ClaimsHaveRows
  <2>. QED BY <2>1 DEF Environment, Say, Commit, Stop, ThreadGoes, Ripens, Ages
<1>3. stale' = stale \/ (stale' = TRUE /\ \A f \in Flushers : pc[f] \in Working => token[f] # claim)
  BY DEF Environment, Say, Commit, Forget, Stop, ThreadGoes, Ripens, Ages, held
<1>4. Alone' BY <1>1, <1>2, <1>3 DEF SoleInv, Alone
<1>5. OwnFailures' /\ Reasoned' /\ OnceOnly'
  BY <1>1, <1>2 DEF SoleInv, OwnFailures, Reasoned, OwnFailuresOnly, OnceOnly
<1>. QED BY <1>4, <1>5

\* A sweep finds no claim to let go of: what is claimed is there.
LEMMA SoleSweep ==
  ASSUME TypeInv, SoleInv, NEW f \in Flushers, Sweep(f), ClaimsHaveRows
  PROVE  Alone' /\ OwnFailures' /\ Reasoned' /\ OnceOnly'
<1>1. UNCHANGED <<claim, through, stale>> BY DEF Sweep, SoleInv, Alone, held
<1>2. /\ FlusherKinds' /\ Moves(f) /\ pc'[f] = "looking"
      /\ UNCHANGED <<token, upto>> /\ why'[f] = "published"
  BY GotoMoves DEF Sweep, TypeInv, PCs, memory, SoleInv, Reasoned
<1>3. UNCHANGED <<waiting, failed, tries, faults, published>> BY DEF Sweep, outcome
<1>4. Alone' BY <1>1, <1>2, <1>3 DEF SoleInv, Alone, Moves, Working
<1>5. OwnFailures' BY <1>1, <1>3 DEF SoleInv, OwnFailures
<1>6. Reasoned' /\ OnceOnly' BY <1>2, <1>3, SoleRests DEF SoleInv, TypeInv, RowKinds
<1>. QED BY <1>4, <1>5, <1>6

LEMMA SoleLook ==
  ASSUME TypeInv, SoleInv, NEW f \in Flushers, Look(f), ClaimsHaveRows
  PROVE  Alone' /\ OwnFailures' /\ Reasoned' /\ OnceOnly'
<1>1. UNCHANGED <<claim, through, stale, waiting, failed, tries, faults, published, lines, why>>
  BY DEF Look, held, outcome
<1>2. FlusherKinds' /\ Moves(f) BY LookTypes, <1>1 DEF TypeInv, Look, Moves, FlusherKinds, Goto
<1>3. /\ pc'[f] \in {"taking", "seizing", "idle"}
      /\ pc'[f] = "seizing" => stale
      /\ why'[f] = "published"
  BY DEF Look, Goto, TypeInv, FlusherKinds, SoleInv, Reasoned
<1>4. Alone' BY <1>1, <1>2, <1>3 DEF SoleInv, Alone, Moves, Working
<1>5. OwnFailures' BY <1>1 DEF SoleInv, OwnFailures
<1>6. Reasoned' /\ OnceOnly' BY <1>1, <1>2, <1>3, SoleRests DEF SoleInv, TypeInv, RowKinds
<1>. QED BY <1>4, <1>5, <1>6

\* A claim is taken where nobody has one, and nobody is at work there.
LEMMA SoleTake ==
  ASSUME TypeInv, SoleInv, NEW f \in Flushers, Take(f), ClaimsHaveRows, ClaimsHaveRows'
  PROVE  Alone' /\ OwnFailures' /\ Reasoned' /\ OnceOnly'
<1>1. UNCHANGED <<waiting, failed, faults, published>> /\ pc[f] = "taking" BY DEF Take, outcome
<1>2. CASE MayTake(f)
  <2>1. PICK k \in Fresh : claim' = k /\ token' = [token EXCEPT ![f] = k] BY <1>2 DEF Take
  <2>2. /\ through' = upto[f] /\ stale' = FALSE /\ tries' = 0 /\ claim = NULL
        /\ pc' = [pc EXCEPT ![f] = "locating"] /\ UNCHANGED <<upto, lines, why>>
    BY <1>2 DEF Take, Goto, MayTake
  <2>3. \A g \in Flushers : pc[g] \notin Working BY <2>2 DEF SoleInv, Alone, TypeInv, Aimed
  <2>4. /\ FlusherKinds' /\ Moves(f) /\ pc'[f] = "locating" /\ token'[f] = k
        /\ why'[f] = "published"
    BY <1>1, <2>1, <2>2, FreshIs DEF TypeInv, FlusherKinds, Moves, PCs, SoleInv, Reasoned
  <2>5. Alone'
    <3>1. \E m \in waiting : m <= upto[f] BY <1>2 DEF Take, Listed, ClaimsHaveRows
    <3>. QED BY <1>1, <2>1, <2>2, <2>3, <2>4, <3>1, FreshIs DEF SoleInv, Alone, Moves, Working
  <2>6. OwnFailures' BY <1>1, <2>1, <2>2, FreshIs DEF SoleInv, OwnFailures
  <2>7. Reasoned' /\ OnceOnly' BY <1>1, <2>3, <2>4, SoleRests DEF SoleInv, TypeInv, RowKinds, Working
  <2>. QED BY <2>5, <2>6, <2>7
<1>3. CASE ~MayTake(f)
  <2>1. Through(f) /\ UNCHANGED <<claim, through, stale, tries>> BY <1>3 DEF Take, held
  <2>2. /\ FlusherKinds' /\ Moves(f) /\ pc'[f] = "idle" /\ why'[f] = "published"
    BY <2>1, ThroughRests DEF TypeInv, Through, FlusherKinds
  <2>3. Alone' BY <1>1, <2>1, <2>2 DEF SoleInv, Alone, Moves, Working
  <2>4. OwnFailures' BY <1>1, <2>1 DEF SoleInv, OwnFailures
  <2>5. Reasoned' /\ OnceOnly' BY <1>1, <2>1, <2>2, SoleRests DEF SoleInv, TypeInv, RowKinds
  <2>. QED BY <2>3, <2>4, <2>5
<1>. QED BY <1>2, <1>3

\* A claim is taken over only while it is stale, and then nobody is at work.
LEMMA SoleSeize ==
  ASSUME TypeInv, SoleInv, NEW f \in Flushers, Seize(f), ClaimsHaveRows
  PROVE  Alone' /\ OwnFailures' /\ Reasoned' /\ OnceOnly'
<1>1. UNCHANGED <<waiting, failed, faults, published, tries>> /\ pc[f] = "seizing" BY DEF Seize, outcome
<1>2. CASE claim = token[f]
  <2>1. PICK k \in Fresh : claim' = k /\ token' = [token EXCEPT ![f] = k] BY <1>2 DEF Seize
  <2>2. /\ UNCHANGED through /\ stale' = FALSE
        /\ pc' = [pc EXCEPT ![f] = "locating"] /\ UNCHANGED <<upto, lines, why>>
    BY <1>2 DEF Seize, Goto
  <2>3. claim # NULL /\ \A g \in Flushers : pc[g] \notin Working
    BY <1>1, <1>2 DEF SoleInv, Alone, TypeInv, Aimed
  <2>4. /\ FlusherKinds' /\ Moves(f) /\ pc'[f] = "locating" /\ token'[f] = k
        /\ why'[f] = "published"
    BY <1>1, <2>1, <2>2, FreshIs DEF TypeInv, FlusherKinds, Moves, PCs, SoleInv, Reasoned
  <2>5. Alone' BY <1>1, <2>1, <2>2, <2>3, <2>4, FreshIs DEF SoleInv, Alone, Moves, Working
  <2>6. OwnFailures' BY <1>1, <2>1, <2>3, FreshIs DEF SoleInv, OwnFailures
  <2>7. Reasoned' /\ OnceOnly' BY <1>1, <2>4, SoleRests DEF SoleInv, TypeInv, RowKinds
  <2>. QED BY <2>5, <2>6, <2>7
<1>3. CASE claim # token[f]
  <2>1. Through(f) /\ UNCHANGED <<claim, through, stale>> BY <1>3 DEF Seize, held
  <2>2. /\ FlusherKinds' /\ Moves(f) /\ pc'[f] = "idle" /\ why'[f] = "published"
    BY <2>1, ThroughRests DEF TypeInv, Through, FlusherKinds
  <2>3. Alone' BY <1>1, <2>1, <2>2 DEF SoleInv, Alone, Moves, Working
  <2>4. OwnFailures' BY <1>1, <2>1 DEF SoleInv, OwnFailures
  <2>5. Reasoned' /\ OnceOnly' BY <1>1, <2>2, SoleRests DEF SoleInv, TypeInv, RowKinds
  <2>. QED BY <2>3, <2>4, <2>5
<1>. QED BY <1>2, <1>3

\* At work: the claim stays as it is, and so does what is known of it.
LEMMA SoleWorks ==
  ASSUME Alone, NEW f \in Flushers, Moves(f), pc[f] \in Working,
         UNCHANGED <<claim, through, stale, waiting>>,
         pc'[f] \in Working => token'[f] = token[f],
         pc'[f] \in Working \cup {"idle"}
  PROVE  Alone' BY DEF Alone, Moves, Working

LEMMA SoleReads ==
  ASSUME TypeInv, SoleInv, NEW f \in Flushers, Locate(f) \/ Read(f), ClaimsHaveRows
  PROVE  Alone' /\ OwnFailures' /\ Reasoned' /\ OnceOnly'
<1>1. /\ UNCHANGED <<claim, through, stale, waiting, failed, tries, faults, published, token, upto>>
      /\ pc[f] \in {"locating", "reading"} BY DEF Locate, Read, held, outcome
<1>2. FlusherKinds' /\ Moves(f) /\ pc'[f] \in {"reading", "publishing", "settling"}
  <2>1. FlusherKinds' BY WorkersTypes DEF TypeInv
  <2>. QED BY <2>1 DEF Locate, Read, Goto, Moves, TypeInv, FlusherKinds
<1>3. /\ pc'[f] = "publishing" => lines'[f] \subseteq waiting
      /\ why'[f] = why[f] \/ (pc'[f] = "settling" /\ why'[f] = "orphan")
      /\ \A g \in Flushers \ {f} : why'[g] = why[g]
      /\ why[f] = "published"
  BY DEF Locate, Read, Listed, Goto, TypeInv, FlusherKinds, SoleInv, Reasoned
<1>4. Alone' /\ OwnFailures' BY <1>1, <1>2, SoleWorks DEF SoleInv, OwnFailures, Working
<1>5. OnceOnly' BY <1>1, <1>2, <1>3 DEF SoleInv, OnceOnly, Moves
<1>6. Reasoned' BY <1>1, <1>2, <1>3 DEF SoleInv, Reasoned, OwnFailuresOnly, Moves
<1>. QED BY <1>4, <1>5, <1>6

\* A comment: nobody has said these rows but for a fault, or somebody else would be
\* about to drop them.
LEMMA SolePublishes ==
  ASSUME TypeInv, SpentInv, SoleInv, NEW f \in Flushers, Publish(f) \/ PublishFails(f),
         ClaimsHaveRows
  PROVE  Alone' /\ OwnFailures' /\ Reasoned' /\ OnceOnly'
<1>1. /\ UNCHANGED <<claim, through, stale, waiting, failed, tries, token, upto, lines, why>>
      /\ pc[f] = "publishing" /\ Alone
  BY DEF Publish, PublishFails, held, memory, SoleInv
<1>2. /\ \A g \in Flushers \ {f} : pc'[g] = pc[g]
      /\ pc'[f] \in {"settling", "counting"}
      /\ faults' \in Nat /\ faults <= faults' /\ faults \in Nat
  BY DEF Publish, PublishFails, Fault, Goto, TypeInv, FlusherKinds, RowKinds
<1>3. Alone' /\ OwnFailures' BY <1>1, <1>2, SoleWorks DEF SoleInv, OwnFailures, Moves, Working
<1>4. ASSUME NEW m \in lines[f] PROVE m \in Messages /\ published[m] <= faults
  <2>1. m \in waiting /\ m \in Messages BY <1>1 DEF SoleInv, OnceOnly, TypeInv, FlusherKinds
  <2>2. Droppers(m) = {}
    <3>1. ASSUME NEW g \in Flushers PROVE pc[g] # "settling" BY <1>1, NoSecond DEF Working
    <3>. QED BY <3>1 DEF Droppers
  <2>3. published[m] <= faults + Cardinality(Droppers(m)) BY <2>1 DEF SpentInv, Spent, SpentWaiting
  <2>. QED BY <1>2, <2>1, <2>2, <2>3, FS_EmptySet
<1>5. ASSUME NEW m \in Messages PROVE published'[m] <= faults' + 1
  <2>1. published[m] \in Nat /\ published[m] <= faults + 1 BY DEF SoleInv, OnceOnly, TypeInv, RowKinds
  <2>2. published'[m] = published[m] \/ (published'[m] = published[m] + 1 /\ m \in lines[f])
    BY DEF Publish, PublishFails, GoesOut, outcome, TypeInv, RowKinds
  <2>. QED BY <1>2, <1>4, <2>1, <2>2
<1>6. OnceOnly' BY <1>1, <1>2, <1>5 DEF SoleInv, OnceOnly
<1>7. Reasoned' BY <1>1, <1>2 DEF SoleInv, Reasoned, OwnFailuresOnly
<1>. QED BY <1>3, <1>6, <1>7

\* A failure is counted to the batch that is claimed.
LEMMA SoleCounts ==
  ASSUME TypeInv, SoleInv, NEW f \in Flushers, Count(f), ClaimsHaveRows
  PROVE  Alone' /\ OwnFailures' /\ Reasoned' /\ OnceOnly'
<1>1. /\ UNCHANGED <<claim, through, stale, waiting, faults, published>>
      /\ failed' = failed + 1 /\ tries' = tries + 1
      /\ pc[f] = "counting" /\ Alone
      /\ failed \in Nat /\ tries \in Nat
  BY DEF Count, held, outcome, SoleInv, TypeInv, ClaimKinds
<1>2. claim # NULL /\ failed = tries BY <1>1 DEF SoleInv, Alone, OwnFailures, TypeInv, Aimed, Working
<1>3. \A g \in Flushers \ {f} : pc[g] # "settling" BY <1>1, NoSecond DEF Working
<1>4. OwnFailures' BY <1>1, <1>2 DEF OwnFailures
<1>5. CASE GivesUp
  <2>1. /\ FlusherKinds' /\ Moves(f) /\ pc'[f] = "settling" /\ UNCHANGED <<token, upto, lines>>
        /\ why'[f] = "gave_up"
    BY <1>5 DEF Count, Goto, Moves, TypeInv, FlusherKinds, PCs
  <2>2. Alone' BY <1>1, <2>1, SoleWorks DEF Working
  <2>3. tries' >= MaxAttempts BY <1>1, <1>2, <1>5, TranscriptAssumption DEF GivesUp
  <2>4. Reasoned' BY <1>3, <2>1, <2>3 DEF SoleInv, Reasoned, OwnFailuresOnly, Moves
  <2>5. OnceOnly' BY <1>1, <2>1 DEF SoleInv, OnceOnly, Moves
  <2>. QED BY <1>4, <2>2, <2>4, <2>5
<1>6. CASE ~GivesUp
  <2>1. Through(f) BY <1>6 DEF Count
  <2>2. /\ FlusherKinds' /\ Moves(f) /\ pc'[f] = "idle" /\ why'[f] = "published"
    BY <2>1, ThroughRests DEF TypeInv, Through, FlusherKinds
  <2>3. Alone' BY <1>1, <2>2, SoleWorks DEF Working
  <2>4. Reasoned' /\ OnceOnly' BY <1>1, <1>3, <2>2, SoleRests DEF SoleInv, TypeInv, RowKinds
  <2>. QED BY <1>4, <2>3, <2>4
<1>. QED BY <1>5, <1>6

\* The batch is dropped, and the claim on it: nobody else has read a row of it.
LEMMA SoleSettles ==
  ASSUME TypeInv, SoleInv, NEW f \in Flushers, Settle(f), ClaimsHaveRows
  PROVE  Alone' /\ OwnFailures' /\ Reasoned' /\ OnceOnly'
<1>1. /\ claim' = NULL /\ through' = 0 /\ stale' = FALSE /\ failed' = 0
      /\ UNCHANGED <<faults, published, tries>>
      /\ pc[f] = "settling" /\ Alone /\ Through(f)
  BY DEF Settle, ReleaseClaim, SoleInv
<1>2. /\ FlusherKinds' /\ Moves(f) /\ pc'[f] = "idle" /\ why'[f] = "published"
  BY <1>1, ThroughRests DEF TypeInv, Through, FlusherKinds
<1>3. \A g \in Flushers : /\ pc'[g] \notin Working
                          /\ pc'[g] = "seizing" => token'[g] # NULL
  BY <1>1, <1>2, NoSecond DEF Moves, Working, TypeInv, Aimed
<1>4. Alone' BY <1>1, <1>3 DEF Alone
<1>5. OwnFailures' BY <1>1 DEF OwnFailures
<1>6. Reasoned' BY <1>2, <1>3 DEF SoleInv, Reasoned, OwnFailuresOnly, Moves, Working
<1>7. OnceOnly' BY <1>1, <1>3 DEF SoleInv, OnceOnly, Working
<1>. QED BY <1>4, <1>5, <1>6, <1>7

LEMMA SoleDies ==
  ASSUME TypeInv, SoleInv, NEW f \in Flushers, Die(f), ClaimsHaveRows
  PROVE  Alone' /\ OwnFailures' /\ Reasoned' /\ OnceOnly'
<1>1. /\ UNCHANGED <<claim, through, stale, waiting, published, failed, tries>>
      /\ faults' \in Nat /\ faults <= faults' /\ Through(f)
  BY DEF Die, Fault, held, outcome, TypeInv, RowKinds
<1>2. /\ FlusherKinds' /\ Moves(f) /\ pc'[f] = "idle" /\ why'[f] = "published"
  BY <1>1, ThroughRests DEF TypeInv, Through, FlusherKinds
<1>3. Alone' BY <1>1, <1>2 DEF SoleInv, Alone, Moves, Working
<1>4. OwnFailures' BY <1>1 DEF SoleInv, OwnFailures
<1>5. Reasoned' /\ OnceOnly' BY <1>1, <1>2, SoleRests DEF SoleInv
<1>. QED BY <1>3, <1>4, <1>5

LEMMA SoleStep ==
  ASSUME Prompt PROVE TypeInv /\ SpentInv /\ SoleInv /\ [Next]_vars => SoleInv'
<1>. SUFFICES ASSUME TypeInv, SpentInv, SoleInv, [Next]_vars, ClaimsHaveRows' PROVE SoleInv' BY DEF SoleInv
<1>1. ClaimsHaveRows
  <2>1. forgotten \subseteq forgotten'
    BY DEF Next, Environment, Step, Say, Commit, Forget, Stop, ThreadGoes, Ripens, Ages, Sweep, Look, Take,
      Seize, Locate, Read, Publish, PublishFails, Count, Settle, Die, outcome, vars
  <2>2. hollow => hollow'
    <3>1. ASSUME NEW f \in Flushers, Take(f) PROVE hollow => hollow' BY <3>1 DEF Take
    <3>. QED
      BY <3>1 DEF Next, Environment, Step, Say, Commit, Forget, Stop, ThreadGoes, Ripens, Ages, Sweep, Look,
        Seize, Locate, Read, Publish, PublishFails, Count, Settle, Die, late, vars
  <2>. QED BY <2>1, <2>2 DEF ClaimsHaveRows
<1>2. CASE Environment BY <1>1, <1>2, SoleThread DEF SoleInv
<1>3. ASSUME NEW f \in Flushers, Step(f) \/ PublishFails(f) \/ Die(f) PROVE SoleInv'
  BY <1>1, <1>3, SoleSweep, SoleLook, SoleTake, SoleSeize, SoleReads, SolePublishes, SoleCounts, SoleSettles,
    SoleDies DEF Step, SoleInv
<1>4. CASE UNCHANGED vars
  <2>1. UNCHANGED <<waiting, claim, through, stale, failed, pc, token, upto, lines, why, faults,
                    published, tries>> BY <1>4 DEF vars, memory, held, outcome
  <2>. QED BY <1>1, <2>1 DEF SoleInv, Alone, OwnFailures, Reasoned, OwnFailuresOnly, OnceOnly
<1>. QED BY <1>2, <1>3, <1>4 DEF Next

\* As long as no claim was left without rows, by a deleted message or by a flusher that
\* takes a batch another has published and dropped, a batch is given up on only after
\* MOST_ATTEMPTS failures of its own, however many flushers overlap and however stale
\* what they read (_failed, note_failure, release).
THEOREM GivesUpRightly ==
  ASSUME Prompt, IsFiniteSet(Flushers) PROVE Spec => []GivesUpOnItsOwnFailures
<1>1. Init => TypeInv /\ SpentInv /\ SoleInv BY TypeInit, SpentInit, SoleInit
<1>2. TypeInv /\ SpentInv /\ SoleInv /\ [Next]_vars => (TypeInv /\ SpentInv /\ SoleInv)'
  BY TypeStep, SpentStep, SoleStep
<1>3. SoleInv => GivesUpOnItsOwnFailures BY DEF SoleInv, Reasoned, GivesUpOnItsOwnFailures
<1>. QED BY <1>1, <1>2, <1>3, PTL DEF Spec

LEMMA OftenEnough ==
  ASSUME IsFiniteSet(Flushers), TypeInv, SpentInv, SoleInv PROVE DuplicateNeedsAFault
<1>. SUFFICES ASSUME NEW m \in Messages
              PROVE published[m] <= faults + IF ClaimsHaveRows THEN 1 ELSE Cardinality(Flushers)
  BY DEF DuplicateNeedsAFault
<1>1. CASE ClaimsHaveRows BY <1>1 DEF SoleInv, OnceOnly
<1>2. CASE ~ClaimsHaveRows
  <2>1. published[m] \in Nat /\ faults \in Nat BY DEF TypeInv, RowKinds
  <2>2. CASE m \in waiting BY <1>2, <2>1, <2>2, FlushersAreFinite DEF SpentInv, Spent, SpentWaiting
  <2>3. CASE m \notin waiting BY <1>2, <2>1, <2>3, FlushersAreFinite DEF SpentInv, Spent, SpentGone
  <2>. QED BY <2>2, <2>3
<1>. QED BY <1>1, <1>2

----
\* Beside each other.  A step of one of the three leaves the other two
\* where they are, so what is proved of each of them alone holds of a
\* behaviour that looks at it.

Sender == INSTANCE RemindersProofs WITH
    Senders <- Flushers, Ids <- Messages, stale <- old, pc <- where, faults <- mishaps
Handed == INSTANCE DeliveryQueueProofs WITH
    Workers <- Flushers, MaxFaults <- MostSpills, attempts <- tried, pc <- at, faults <- spills

----
\* The two instances of Reminders, and the two of DeliveryQueue, are one
\* specification each.

LEMMA SameInit == (Memos!Init => Sender!Init) /\ (Queue!Init => Handed!Init)
BY DEF Memos!Init, Sender!Init, Queue!Init, Handed!Init

LEMMA SameCardinality ==
  \A S : /\ Memos!Cardinality(S) = Sender!Cardinality(S)
         /\ Queue!Cardinality(S) = Handed!Cardinality(S)
BY DEF Memos!Cardinality, Sender!Cardinality, Queue!Cardinality, Handed!Cardinality

LEMMA SameSender == Memos!Next => Sender!Next
<1>. USE DEF Memos!queue, Sender!queue, Memos!sender, Sender!sender, Memos!history, Sender!history,
    Memos!Fault, Sender!Fault, Memos!Rest, Sender!Rest, Memos!GoesOut, Sender!GoesOut
<1>0. Memos!Waiting = Sender!Waiting BY DEF Memos!Waiting, Sender!Waiting
<1>1. \A r \in Messages : Memos!CountThem(r) => Sender!CountThem(r)
  <2>1. Memos!Counted = Sender!Counted BY DEF Memos!Counted, Sender!Counted
  <2>2. Memos!HasRoom <=> Sender!HasRoom BY <1>0, SameCardinality DEF Memos!HasRoom, Sender!HasRoom
  <2>. QED BY <2>1, <2>2, SameCardinality DEF Memos!CountThem, Sender!CountThem
<1>2. \A r \in Messages : Memos!Add(r) => Sender!Add(r) BY DEF Memos!Add, Sender!Add
<1>3. \A r \in Messages : Memos!AddFails(r) => Sender!AddFails(r) BY DEF Memos!AddFails, Sender!AddFails
<1>4. \A r \in Messages : Memos!Ages(r) => Sender!Ages(r) BY DEF Memos!Ages, Sender!Ages
<1>5. Memos!Tick => Sender!Tick BY DEF Memos!Tick, Sender!Tick
<1>6. \A s \in Flushers : Memos!ClaimNext(s) => Sender!ClaimNext(s)
  BY <1>0 DEF Memos!ClaimNext, Sender!ClaimNext, Memos!Eligible, Sender!Eligible, Memos!Before, Sender!Before
<1>7. \A s \in Flushers : Memos!Post(s) => Sender!Post(s) BY DEF Memos!Post, Sender!Post
<1>8. \A s \in Flushers : Memos!Count(s) => Sender!Count(s)
  BY DEF Memos!Count, Sender!Count, Memos!OutOfAttempts, Sender!OutOfAttempts
<1>9. \A s \in Flushers : Memos!Finish(s) => Sender!Finish(s) BY DEF Memos!Finish, Sender!Finish
<1>10. \A s \in Flushers : Memos!PostDenied(s) => Sender!PostDenied(s)
  BY DEF Memos!PostDenied, Sender!PostDenied
<1>11. \A s \in Flushers : Memos!PostRefused(s) => Sender!PostRefused(s)
  BY DEF Memos!PostRefused, Sender!PostRefused
<1>12. \A s \in Flushers : Memos!Die(s) => Sender!Die(s) BY DEF Memos!Die, Sender!Die
<1>. QED BY <1>1, <1>2, <1>3, <1>4, <1>5, <1>6, <1>7, <1>8, <1>9, <1>10, <1>11, <1>12 DEF Memos!Next,
  Sender!Next, Memos!Command, Sender!Command, Memos!Step, Sender!Step, Memos!Trouble, Sender!Trouble

LEMMA SameWorker == Queue!Next => Handed!Next
<1>. USE DEF Queue!table, Handed!table, Queue!worker, Handed!worker, Queue!history, Handed!history,
    Queue!Fault, Handed!Fault, Queue!Settled, Handed!Settled, Queue!Terminal, Handed!Terminal
<1>1. \A n \in Rows : Queue!Enqueue(n) => Handed!Enqueue(n) BY DEF Queue!Enqueue, Handed!Enqueue
<1>2. \A n \in Rows : Queue!Revive(n) => Handed!Revive(n)
  BY DEF Queue!Revive, Handed!Revive, Queue!Free, Handed!Free
<1>3. \A n \in Rows : Queue!BackoffEnds(n) => Handed!BackoffEnds(n)
  BY DEF Queue!BackoffEnds, Handed!BackoffEnds, Queue!Free, Handed!Free
<1>4. \A n \in Rows : Queue!LeaseLapses(n) => Handed!LeaseLapses(n)
  BY DEF Queue!LeaseLapses, Handed!LeaseLapses, Queue!Free, Handed!Free, Queue!LeaseMates, Handed!LeaseMates
<1>5. \A n \in Rows : Queue!Ages(n) => Handed!Ages(n) BY DEF Queue!Ages, Handed!Ages
<1>6. Queue!Prune => Handed!Prune BY DEF Queue!Prune, Handed!Prune
<1>7. \A w \in Flushers : Queue!Lease(w) => Handed!Lease(w)
  <2>1. Queue!Eligible = Handed!Eligible BY DEF Queue!Eligible, Handed!Eligible
  <2>2. \A S : Queue!Oldest(S) = Handed!Oldest(S) BY SameCardinality DEF Queue!Oldest, Handed!Oldest
  <2>. QED BY <2>1, <2>2 DEF Queue!Lease, Handed!Lease
<1>8. \A w \in Flushers : Queue!Begin(w) => Handed!Begin(w) BY DEF Queue!Begin, Handed!Begin
<1>9. \A w \in Flushers : \A r : Queue!DispatchEnds(w, r) => Handed!DispatchEnds(w, r)
  BY DEF Queue!DispatchEnds, Handed!DispatchEnds
<1>10. \A w \in Flushers : Queue!Record(w) => Handed!Record(w)
  BY DEF Queue!Record, Handed!Record, Queue!WriteOutcome, Handed!WriteOutcome, Queue!Proceed, Handed!Proceed,
    Queue!WriteRow, Handed!WriteRow, Queue!OutOfAttempts, Handed!OutOfAttempts, Queue!Keep, Handed!Keep
<1>11. \A w \in Flushers : Queue!HandBack(w) => Handed!HandBack(w)
  BY DEF Queue!HandBack, Handed!HandBack, Queue!Release, Handed!Release, Queue!Proceed, Handed!Proceed,
    Queue!HandsBack, Handed!HandsBack, Queue!Keep, Handed!Keep
<1>12. \A w \in Flushers : Queue!HandBackRest(w) => Handed!HandBackRest(w)
  BY DEF Queue!HandBackRest, Handed!HandBackRest, Queue!Release, Handed!Release, Queue!Off, Handed!Off,
    Queue!Keep, Handed!Keep
<1>13. \A w \in Flushers : Queue!Exit(w) => Handed!Exit(w)
  BY DEF Queue!Exit, Handed!Exit, Queue!Off, Handed!Off, Queue!Keep, Handed!Keep
<1>14. \A w \in Flushers : Queue!Restart(w) => Handed!Restart(w) BY DEF Queue!Restart, Handed!Restart
<1>15. \A w \in Flushers : Queue!RecordFails(w) => Handed!RecordFails(w)
  BY DEF Queue!RecordFails, Handed!RecordFails, Queue!WriteOutcome, Handed!WriteOutcome, Queue!WriteRow,
    Handed!WriteRow, Queue!OutOfAttempts, Handed!OutOfAttempts
<1>16. \A w \in Flushers : Queue!HandBackFails(w) => Handed!HandBackFails(w)
  BY DEF Queue!HandBackFails, Handed!HandBackFails, Queue!Proceed, Handed!Proceed, Queue!HandsBack,
    Handed!HandsBack, Queue!Keep, Handed!Keep
<1>17. \A w \in Flushers : Queue!Stop(w) => Handed!Stop(w) BY DEF Queue!Stop, Handed!Stop
<1>18. \A w \in Flushers : Queue!Cancel(w) => Handed!Cancel(w)
  BY DEF Queue!Cancel, Handed!Cancel, Queue!WriteOutcome, Handed!WriteOutcome, Queue!WriteRow,
    Handed!WriteRow, Queue!OutOfAttempts, Handed!OutOfAttempts
<1>19. \A w \in Flushers : Queue!Crash(w) => Handed!Crash(w)
  BY DEF Queue!Crash, Handed!Crash, Queue!Off, Handed!Off, Queue!Keep, Handed!Keep
<1>. QED BY <1>1, <1>2, <1>3, <1>4, <1>5, <1>6, <1>7, <1>8, <1>9, <1>10, <1>11, <1>12, <1>13,
     <1>14, <1>15, <1>16, <1>17, <1>18, <1>19
     DEF Queue!Next, Handed!Next, Queue!Environment, Handed!Environment, Queue!Step, Handed!Step,
         Queue!Trouble, Handed!Trouble, Queue!Result, Handed!Result

LEMMA EachAlone ==
  ASSUME [EndsNext]_endsVars PROVE [Next]_vars /\ [Sender!Next]_(Sender!vars) /\ [Handed!Next]_(Handed!vars)
<1>1. CASE UNCHANGED endsVars
  BY <1>1 DEF endsVars, vars, capture, thread, held, memory, outcome, late, remindersAside, Sender!vars,
    Sender!queue, Sender!sender, Sender!history, queueAside, Handed!vars, Handed!table, Handed!worker,
    Handed!history
<1>2. CASE Next /\ UNCHANGED <<remindersAside, queueAside>>
  BY <1>2 DEF remindersAside, Sender!vars, Sender!queue, Sender!sender, Sender!history, queueAside,
    Handed!vars, Handed!table, Handed!worker, Handed!history
<1>3. CASE Memos!Next /\ UNCHANGED <<vars, queueAside>>
  BY <1>3, SameSender DEF queueAside, Handed!vars, Handed!table, Handed!worker, Handed!history
<1>4. CASE Queue!Next /\ UNCHANGED <<vars, remindersAside>>
  BY <1>4, SameWorker DEF remindersAside, Sender!vars, Sender!queue, Sender!sender, Sender!history
<1>. QED BY <1>1, <1>2, <1>3, <1>4 DEF EndsNext

\* A comment, or a reminder, goes out once and once more for each fault (_done,
\* _still_ours, claim; _send, finish); a comment of a conversation one of whose claims
\* was left without rows, once for each flusher and once more for each fault.
THEOREM SentOnceEach ==
  ASSUME Prompt, IsFiniteSet(Flushers) PROVE EndsSpec => []NothingTwice
<1>. DEFINE Once == TypeInv /\ SpentInv /\ SoleInv /\ Sender!HeldInv /\ Sender!OnceInv
<1>1. EndsInit => Once
  <2>. SUFFICES ASSUME EndsInit PROVE Once OBVIOUS
  <2>1. TypeInv /\ SpentInv /\ SoleInv BY TypeInit, SpentInit, SoleInit DEF EndsInit
  <2>2. Sender!HeldInv /\ Sender!OnceInv
    BY SameInit, Sender!HeldInit, Sender!OnceInit, SendingAssumption DEF EndsInit
  <2>. QED BY <2>1, <2>2
<1>2. Once /\ [EndsNext]_endsVars => Once'
  <2>. SUFFICES ASSUME Once, [EndsNext]_endsVars PROVE Once' OBVIOUS
  <2>1. [Next]_vars /\ [Sender!Next]_(Sender!vars) BY EachAlone
  <2>2. (TypeInv /\ SpentInv /\ SoleInv)' BY <2>1, TypeStep, SpentStep, SoleStep
  <2>3. (Sender!HeldInv /\ Sender!OnceInv)' BY <2>1, Sender!HeldStep, Sender!OnceStep, SendingAssumption
  <2>. QED BY <2>2, <2>3
<1>3. Once => NothingTwice BY OftenEnough DEF NothingTwice, Sender!OnceInv, Sender!RungOnce, Memos!RungOnce
<1>. HIDE DEF Once
<1>. QED BY <1>1, <1>2, <1>3, PTL DEF EndsSpec

\* A delivery settled is touched again only by a redelivery of one given up on, or
\* by the prune, whoever still has its row and however late (finish, retry_later,
\* give_up, release; enqueue).
THEOREM OutcomesStand == EndsSpec => SettledStaysSettled
<1>1. EndsInit => Handed!TypeOK BY SameInit, Handed!InitType, SendingAssumption DEF EndsInit
<1>2. Handed!TypeOK /\ [EndsNext]_endsVars => Handed!TypeOK' BY EachAlone, Handed!StepType, SendingAssumption
<1>3. Handed!TypeOK /\ [EndsNext]_endsVars =>
          [\A n \in Rows :
               /\ status[n] \in Queue!Settled => status'[n] \in {status[n], "pruned"}
               /\ status[n] = "failed" => \/ status'[n] \in {"failed", "pruned"}
                                          \/ status'[n] = "pending" /\ tried'[n] = 0
               /\ status[n] \in Queue!Live => status'[n] # "pruned"]_(Queue!vars)
  <2>. SUFFICES ASSUME Handed!TypeOK, [EndsNext]_endsVars PROVE Handed!StaysSettled \/ UNCHANGED Queue!vars
    BY DEF Handed!StaysSettled, Handed!Settled, Handed!Live, Queue!Settled, Queue!Live
  <2>1. Handed!StaysSettled \/ UNCHANGED Handed!vars BY EachAlone, Handed!SettledStep, SendingAssumption
  <2>. QED BY <2>1 DEF Handed!vars, Handed!table, Handed!worker, Handed!history, Queue!vars, Queue!table,
    Queue!worker, Queue!history
<1>. QED BY <1>1, <1>2, <1>3, PTL DEF EndsSpec, SettledStaysSettled, Queue!SettledStaysSettled
=============================================================================
