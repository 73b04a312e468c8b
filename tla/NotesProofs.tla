---------------------------- MODULE NotesProofs ----------------------------
(***************************************************************************)
(* What Notes guarantees for any set of notes, any number of workers, of   *)
(* closings and reopenings, and of faults: one worker at a time stands     *)
(* between the claim of a note and its outcome; what is known to have been *)
(* said is never said again; what was sent and not said is accounted for;  *)
(* the pointer to a thread that exists is kept; and when all is handled    *)
(* the newest version of a note is shown, in a thread shut as it should be.*)
(***************************************************************************)
EXTENDS Notes, FiniteSetTheorems, TLAPS

Deliverable == Keys \X (Nat \ {0})

\* The kinds the argument needs: where workers are, with what, and what is said.
Kinds ==
    /\ pc      \in [Workers -> PCs]
    /\ job     \in [Workers -> Deliverable \cup {Nobody}]
    /\ \A p \in Workers : pc[p] # "idle" => job[p] \in Deliverable
    /\ thread  \in [Workers -> Threads \cup {NULL}]
    /\ pointer \in Threads \cup {NULL}
    /\ version \in [Keys -> Nat]
    /\ owed    \subseteq Deliverable
    /\ posted  \in [Keys -> Seq(Messages)]


----
\* Messages: one is put at the end, or one is rewritten where it stands.

\* Of these messages one is known to be there.
Known(messages) == \E i \in DOMAIN messages : messages[i].heard

\* What Post and PostLost put there is a message, at the end of its note's.
LEMMA Landed ==
  ASSUME Kinds, NEW p \in Workers, NEW heard \in BOOLEAN, pc[p] # "idle", Land(p, heard)
  PROVE  /\ posted' \in [Keys -> Seq(Messages)]
         /\ \A k \in Keys \ {Key(p)} : posted'[k] = posted[k]
         /\ posted'[Key(p)] # <<>>
         /\ ~heard /\ Known(posted'[Key(p)]) => Known(posted[Key(p)])
<1> DEFINE new  == [version |-> job[p][2], thread |-> thread[p], heard |-> heard]
           said == Append(posted[Key(p)], new)
<1>1. Key(p) \in Keys /\ job[p][2] \in Nat BY DEF Kinds, Deliverable, Key
<1>2. new \in Messages BY <1>1 DEF Kinds, Messages
<1>3. posted[Key(p)] \in Seq(Messages) BY <1>1 DEF Kinds
<1>4. said \in Seq(Messages) /\ said # <<>>
  <2>1. said \in Seq(Messages) /\ Len(said) = Len(posted[Key(p)]) + 1 BY <1>2, <1>3
  <2>2. Len(said) # 0 BY <1>3, <2>1
  <2> HIDE DEF said
  <2> QED BY <2>1, <2>2
<1>5. posted' = [posted EXCEPT ![Key(p)] = said] BY DEF Land
<1>6. posted' \in [Keys -> Seq(Messages)] /\ posted'[Key(p)] = said /\ said # <<>>
  BY <1>1, <1>4, <1>5 DEF Kinds
<1>7. \A k \in Keys \ {Key(p)} : posted'[k] = posted[k] BY <1>5 DEF Kinds
<1>8. ~heard /\ Known(said) => Known(posted[Key(p)]) BY <1>3 DEF Known
<1> QED BY <1>6, <1>7, <1>8

\* A message rewritten, or deleted, is no other message and is known as before.
LEMMA Rewritten ==
  ASSUME Kinds, NEW k \in Keys, NEW i, NEW m,
         i \in DOMAIN posted[k] => m \in Messages /\ m.heard = posted[k][i].heard,
         posted' = [posted EXCEPT ![k] = [posted[k] EXCEPT ![i] = m]]
  PROVE  /\ posted' \in [Keys -> Seq(Messages)]
         /\ \A j \in Keys : /\ Len(posted'[j]) = Len(posted[j])
                            /\ Known(posted'[j]) => Known(posted[j])
<1> DEFINE old == posted[k]
           new == [old EXCEPT ![i] = m]
<1>1. old \in Seq(Messages) BY DEF Kinds
<1>2. new \in Seq(Messages) /\ Len(new) = Len(old) /\ (Known(new) => Known(old))
  <2>1. CASE i \in DOMAIN old BY <1>1, <2>1 DEF Known
  <2>2. CASE i \notin DOMAIN old BY <1>1, <2>2, new = old
  <2> QED BY <2>1, <2>2
<1>3. posted'[k] = new /\ \A j \in Keys \ {k} : posted'[j] = posted[j] BY DEF Kinds
<1> QED BY <1>2, <1>3 DEF Kinds

----
\* Kinds.  A worker that has a delivery goes on with it or leaves it.

Threaded == Threads \cup {NULL}

GoesOn(p) ==
    /\ pc' = [pc EXCEPT ![p] = pc'[p]] /\ pc'[p] \in PCs \ {"idle"}
    /\ thread' \in [Workers -> Threaded]
    /\ \A q \in Workers \ {p} : thread'[q] = thread[q]
    /\ UNCHANGED <<job, owed>>

Leaves(p) == Rest(p) /\ owed' \in {owed, owed \ {job[p]}}

Works(p) ==
    /\ pc[p] # "idle"
    /\ GoesOn(p) \/ Leaves(p)
    /\ version' = version
    /\ pointer' \in Threaded

LEMMA KindsInit == Init => Kinds
BY NotesAssumption DEF Init, Kinds, PCs, Deliverable, Nobody

LEMMA KindsWorks ==
  ASSUME Kinds, NEW p \in Workers, Works(p), posted' \in [Keys -> Seq(Messages)] PROVE Kinds'
<1>1. CASE GoesOn(p) BY <1>1 DEF Works, GoesOn, Kinds, Threaded
<1>2. CASE Leaves(p) BY <1>2 DEF Works, Leaves, Rest, Goto, Kinds, Threaded, PCs
<1> QED BY <1>1, <1>2 DEF Works

LEMMA LeavesSo ==
  ASSUME NEW p \in Workers, Finish(p) \/ Raise(p)
  PROVE  Leaves(p) /\ version' = version BY DEF Finish, Raise, Leaves, github

LEMMA Syncing ==
  ASSUME Kinds, NEW p \in Workers, NEW t \in Threaded, NEW open, Synced(p, t, open), pc[p] # "idle"
  PROVE  (GoesOn(p) \/ Leaves(p)) /\ version' = version
<1>1. CASE IsLine(p) BY <1>1 DEF Synced, Goto, GoesOn, Kinds, Threaded, PCs, github
<1>2. CASE ~IsLine(p) BY <1>2, LeavesSo DEF Synced
<1> QED BY <1>1, <1>2

LEMMA WorksSync ==
  ASSUME Kinds, NEW p \in Workers, Sync(p) PROVE Works(p) /\ posted' = posted
<1> USE DEF Works, GoesOn, Threaded, Goto, PCs, Kinds, github, row, discord, local
<1>1. CASE Record(p) BY <1>1 DEF Record
<1>2. CASE TurnAway(p) BY <1>2, Syncing DEF TurnAway
<1>3. CASE Write(p) BY <1>3 DEF Write
<1>4. ASSUME NEW t \in Threads, Open(p, t) PROVE Works(p) /\ posted' = posted
  <2>1. CASE Closed(stored) BY <1>4, <2>1 DEF Open
  <2>2. CASE ~Closed(stored) BY <1>4, <2>2, Syncing DEF Open
  <2> QED BY <2>1, <2>2
<1>5. CASE SetLock(p)
  <2>1. CASE Raise(p) BY <1>5, <2>1, LeavesSo DEF SetLock
  <2>2. CASE ~Raise(p) BY <1>5, <2>2 DEF SetLock
  <2> QED BY <2>1, <2>2
<1>6. CASE NoteLock(p) BY <1>6, Syncing DEF NoteLock
<1> QED BY <1>1, <1>2, <1>3, <1>4, <1>5, <1>6 DEF Sync

LEMMA WorksSay ==
  ASSUME Kinds, NEW p \in Workers, Say(p) PROVE Works(p) /\ (Post(p) \/ Revise(p) \/ posted' = posted)
<1> USE DEF Works, GoesOn, Threaded, Goto, PCs, Kinds, Holding, HandingBack, github, row, discord, local
<1>1. CASE Look(p) /\ ~Finish(p) BY <1>1 DEF Look
<1>2. CASE Locate(p) /\ ~Finish(p) BY <1>2 DEF Locate
<1>3. CASE Claim(p) /\ ~Finish(p) BY <1>3 DEF Claim
<1>4. CASE Post(p) \/ PostGone(p) BY <1>4 DEF Post, PostGone
<1>5. CASE HandBack(p) /\ ~Finish(p) BY <1>5, LeavesSo DEF HandBack, OnwardFrom
<1>6. CASE ForgetThread(p) \/ Remember(p) BY <1>6 DEF ForgetThread, Forget, Remember
<1>7. CASE (ReadMessage(p) \/ Revise(p)) /\ ~Finish(p) BY <1>7 DEF ReadMessage, Revise
<1>8. CASE ReviseGone(p) BY <1>8, LeavesSo DEF ReviseGone
<1>9. CASE (Again(p) \/ ShutAgain(p)) /\ ~Finish(p) BY <1>9 DEF Again, ShutAgain
<1>10. CASE Finish(p)
  <2>1. CASE Look(p) \/ Locate(p) \/ Claim(p) BY <1>10, <2>1, LeavesSo DEF Look, Locate, Claim
  <2>2. CASE HandBack(p) \/ Again(p) \/ ShutAgain(p) BY <1>10, <2>2, LeavesSo DEF HandBack, Again, ShutAgain
  <2>3. CASE ReadMessage(p) \/ Revise(p) BY <1>10, <2>3, LeavesSo DEF ReadMessage, Revise
  <2> QED BY <2>1, <2>2, <2>3, <1>4, <1>6, <1>8 DEF Say
<1> QED BY <1>1, <1>2, <1>3, <1>4, <1>5, <1>6, <1>7, <1>8, <1>9, <1>10 DEF Say

Takes(p) == \E d \in Deliveries : Deliver(p, d) \/ DeliverAgain(p, d)

LEMMA WorksTrouble ==
  ASSUME Kinds, NEW p \in Workers, Trouble(p), ~Takes(p) PROVE Works(p) /\ (PostLost(p) \/ posted' = posted)
<1> USE DEF Works, GoesOn, Threaded, Goto, PCs, Kinds, Holding, HandingBack, github, row, discord, local
<1>1. CASE Busy(p) \/ ClaimLost(p) \/ Abort(p) BY <1>1, LeavesSo DEF Busy, ClaimLost, Abort
<1>2. CASE LockRefused(p) BY <1>2, Syncing DEF LockRefused
<1>3. CASE PostLost(p) \/ PostRefused(p) BY <1>3 DEF PostLost, PostRefused
<1>4. CASE HandBackFails(p) BY <1>4, LeavesSo DEF HandBackFails, OnwardFrom
<1>5. CASE ReviseFails(p) \/ ShutAgainRefused(p) BY <1>5, LeavesSo DEF ReviseFails, ShutAgainRefused
<1> QED BY <1>1, <1>2, <1>3, <1>4, <1>5 DEF Trouble, Takes

LEMMA Revised ==
  ASSUME Kinds, NEW p \in Workers, Revise(p)
  PROVE  /\ posted' \in [Keys -> Seq(Messages)]
         /\ \A k \in Keys : /\ Len(posted'[k]) = Len(posted[k])
                            /\ Known(posted'[k]) => Known(posted[k])
<1>1. CASE StillThere(p)
  <2> DEFINE old == posted[Key(p)][picked[p]]
             new == [old EXCEPT !.version = job[p][2]]
  <2>1. Key(p) \in Keys /\ job[p][2] \in Nat BY DEF Kinds, Deliverable, Key, Revise
  <2>2. picked[p] \in DOMAIN posted[Key(p)] => new \in Messages /\ new.heard = old.heard
    <3> SUFFICES ASSUME picked[p] \in DOMAIN posted[Key(p)]
                 PROVE  new \in Messages /\ new.heard = old.heard OBVIOUS
    <3>1. old \in Messages BY <2>1 DEF Kinds
    <3> QED BY <2>1, <3>1 DEF Messages
  <2>3. posted' = [posted EXCEPT ![Key(p)] = [posted[Key(p)] EXCEPT ![picked[p]] = new]] BY <1>1 DEF Revise
  <2> QED BY <2>1, <2>2, <2>3, Rewritten
<1>2. CASE ~StillThere(p) BY <1>2 DEF Revise, Kinds
<1> QED BY <1>1, <1>2

LEMMA Deleted ==
  ASSUME Kinds, NEW k \in Keys, NEW i \in DOMAIN posted[k], DeleteMessage(k, i)
  PROVE  /\ posted' \in [Keys -> Seq(Messages)]
         /\ \A j \in Keys : /\ Len(posted'[j]) = Len(posted[j])
                            /\ Known(posted'[j]) => Known(posted[j])
<1> DEFINE new == [posted[k][i] EXCEPT !.thread = NULL]
<1>1. posted[k][i] \in Messages BY DEF Kinds
<1>2. new \in Messages /\ new.heard = posted[k][i].heard BY <1>1 DEF Messages
<1>3. posted' = [posted EXCEPT ![k] = [posted[k] EXCEPT ![i] = new]] BY DEF DeleteMessage
<1> QED BY <1>2, <1>3, Rewritten

LEMMA KindsTaken ==
  ASSUME Kinds, NEW p \in Workers, Takes(p) PROVE Kinds'
<1>1. PICK d \in owed : /\ pc[p] = "idle" /\ job' = [job EXCEPT ![p] = d]
                        /\ pc' = [pc EXCEPT ![p] = pc'[p]] /\ pc'[p] \in {"sync", "locate"}
                        /\ UNCHANGED <<github, row, discord, thread>>
  BY DEF Takes, Deliver, DeliverAgain, Begin, Goto, Kinds
<1> QED BY <1>1 DEF Kinds, PCs, github, row, discord

LEMMA KindsArrive == ASSUME Kinds, NEW k \in Keys, Arrive(k) PROVE Kinds'
<1>1. version[k] + 1 \in Nat \ {0} BY DEF Kinds
<1>2. <<k, version[k] + 1>> \in Deliverable BY <1>1 DEF Deliverable
<1>3. version' \in [Keys -> Nat] BY <1>1 DEF Arrive, Kinds
<1>4. owed' \subseteq Deliverable BY <1>2 DEF Arrive, Kinds
<1> QED BY <1>3, <1>4 DEF Arrive, Kinds, row, discord, local

LEMMA PostKinds ==
  ASSUME Kinds, NEW p \in Workers, Post(p) \/ PostLost(p)
  PROVE  posted' \in [Keys -> Seq(Messages)] BY Landed DEF Post, PostLost, Kinds

LEMMA KindsNext == ASSUME Kinds, [Next]_vars PROVE Kinds'
<1>1. CASE Environment
  <2>1. ASSUME NEW k \in Keys, NEW i \in DOMAIN posted[k], DeleteMessage(k, i) PROVE Kinds'
    <3>1. posted' \in [Keys -> Seq(Messages)] BY <2>1, Deleted
    <3> QED BY <2>1, <3>1 DEF DeleteMessage, Kinds, github, row, local
  <2>2. ASSUME NEW t \in Threads, Delete(t) \/ Report(t) PROVE Kinds'
    BY <2>2 DEF Delete, Report, Forget, Kinds, github, row, local, discord
  <2>3. CASE Toggle BY <2>3 DEF Toggle, Kinds, github, discord, local
  <2> QED BY <1>1, <2>1, <2>2, <2>3, KindsArrive DEF Environment
<1>2. CASE UNCHANGED vars BY <1>2 DEF vars, Kinds, github, row, discord, local
<1>3. ASSUME NEW p \in Workers, Sync(p) PROVE Kinds'
  <2>1. posted' \in [Keys -> Seq(Messages)] BY <1>3, WorksSync DEF Kinds
  <2> QED BY <1>3, <2>1, WorksSync, KindsWorks
<1>4. ASSUME NEW p \in Workers, Say(p) PROVE Kinds'
  <2>1. posted' \in [Keys -> Seq(Messages)] BY <1>4, WorksSay, PostKinds, Revised DEF Kinds
  <2> QED BY <1>4, <2>1, WorksSay, KindsWorks
<1>5. ASSUME NEW p \in Workers, Trouble(p), ~Takes(p) PROVE Kinds'
  <2>1. posted' \in [Keys -> Seq(Messages)] BY <1>5, WorksTrouble, PostKinds DEF Kinds
  <2> QED BY <1>5, <2>1, WorksTrouble, KindsWorks
<1> QED BY <1>1, <1>2, <1>3, <1>4, <1>5, KindsTaken DEF Next, Takes

----
\* One holder.  Whoever stands between claim and outcome is alone with
\* what it claimed, and nobody has been heard to say it; and what has been
\* heard stays claimed.

HolderInv ==
    /\ OneHolder
    /\ \A p \in Workers : pc[p] \in Holding => Key(p) \in claimed /\ ~Known(posted[Key(p)])
    /\ \A k \in Keys : Known(posted[k]) => k \in claimed

\* Nothing more is said of what has been heard.
SaidAgainNever == \A k \in Keys : Known(posted[k]) => Len(posted'[k]) = Len(posted[k])

\* A step that starts nobody holding, gives no claim back and lets nothing be heard.
LEMMA HolderKept ==
  ASSUME Kinds, HolderInv,
         \A q \in Workers : pc'[q] \in Holding => pc[q] \in Holding /\ job'[q] = job[q],
         claimed \subseteq claimed',
         \A k \in Keys : Known(posted'[k]) => Known(posted[k])
  PROVE  HolderInv'
<1>1. \A q \in Workers : pc'[q] \in Holding => Key(q)' = Key(q) /\ Key(q) \in Keys
  BY DEF Kinds, Deliverable, Key, Holding, HandingBack
<1>2. OneHolder' BY <1>1 DEF HolderInv, OneHolder
<1>3. ASSUME NEW q \in Workers, pc'[q] \in Holding PROVE Key(q)' \in claimed' /\ ~Known(posted'[Key(q)'])
  BY <1>1, <1>3 DEF HolderInv
<1>4. \A k \in Keys : Known(posted'[k]) => k \in claimed' BY DEF HolderInv
<1> QED BY <1>2, <1>3, <1>4 DEF HolderInv, Known

\* The two claims of a step, for one that leaves Discord's messages alone.
LEMMA HolderRest ==
  ASSUME Kinds, HolderInv, UNCHANGED posted, claimed \subseteq claimed',
         \A q \in Workers : pc'[q] \in Holding => pc[q] \in Holding /\ job'[q] = job[q]
  PROVE  HolderInv' /\ SaidAgainNever
<1>1. HolderInv' BY HolderKept
<1> QED BY <1>1 DEF SaidAgainNever

LEMMA HolderClaim ==
  ASSUME Kinds, HolderInv, NEW p \in Workers, Claim(p) PROVE HolderInv' /\ SaidAgainNever
<1>1. pc[p] = "claim" /\ Key(p) \in Keys /\ UNCHANGED posted BY DEF Kinds, Deliverable, Key, Claim, discord
<1>2. CASE Unclaimed(Key(p))
  <2>1. /\ pc' = [pc EXCEPT ![p] = "post"] /\ UNCHANGED job
        /\ claimed' = claimed \cup {Key(p)} /\ Key(p) \notin claimed
    BY <1>2 DEF Claim, Unclaimed, Goto, local
  <2>2. ~Known(posted[Key(p)]) BY <1>1, <2>1 DEF HolderInv
  <2>3. \A q \in Workers \ {p} : pc'[q] \in Holding => pc[q] \in Holding /\ Key(q) # Key(p)
    BY <2>1 DEF HolderInv, Kinds
  <2>4. \A q \in Workers : Key(q)' = Key(q) BY <2>1 DEF Key
  <2>5. OneHolder' BY <2>1, <2>3, <2>4 DEF HolderInv, OneHolder
  <2>6. \A q \in Workers : pc'[q] \in Holding => Key(q)' \in claimed' /\ ~Known(posted'[Key(q)'])
    BY <1>1, <2>1, <2>2, <2>3, <2>4 DEF HolderInv
  <2>7. \A k \in Keys : Known(posted'[k]) => k \in claimed' BY <1>1, <2>1 DEF HolderInv
  <2> QED BY <1>1, <2>5, <2>6, <2>7 DEF HolderInv, SaidAgainNever, Known
<1>3. CASE ~Unclaimed(Key(p))
  BY <1>1, <1>3, HolderRest DEF Claim, Kinds, Goto, Finish, Rest, Holding, HandingBack, local
<1> QED BY <1>2, <1>3

\* What is heard now was held, so it had not been heard.
LEMMA HolderPost ==
  ASSUME Kinds, HolderInv, NEW p \in Workers, Post(p) \/ PostLost(p) PROVE HolderInv' /\ SaidAgainNever
<1>1. /\ pc[p] = "post" /\ Key(p) \in Keys /\ Key(p) \in claimed /\ ~Known(posted[Key(p)])
      /\ UNCHANGED <<job, claimed>>
  BY DEF Kinds, Deliverable, Key, Post, PostLost, HolderInv, Holding, claims, local
<1>2. \A k \in Keys \ {Key(p)} : posted'[k] = posted[k] BY Landed DEF Post, PostLost, Kinds
<1>3. SaidAgainNever BY <1>1, <1>2 DEF SaidAgainNever
<1>4. \A q \in Workers \ {p} : pc'[q] = pc[q] BY DEF Post, PostLost, Goto, Kinds
<1>5. CASE Post(p)
  <2>1. pc'[p] \notin Holding BY <1>5 DEF Post, Goto, Kinds, Holding, HandingBack
  <2>2. \A q \in Workers : pc'[q] \in Holding => q # p /\ pc[q] \in Holding /\ Key(q)' = Key(q)
                                               /\ Key(q) \in Keys \ {Key(p)}
    BY <1>1, <1>4, <2>1 DEF HolderInv, OneHolder, Key, Holding, HandingBack, Kinds, Deliverable
  <2>3. OneHolder' BY <2>2 DEF HolderInv, OneHolder
  <2>4. ASSUME NEW q \in Workers, pc'[q] \in Holding PROVE Key(q)' \in claimed' /\ ~Known(posted'[Key(q)'])
    BY <1>1, <1>2, <2>2, <2>4 DEF HolderInv
  <2>5. \A k \in Keys : Known(posted'[k]) => k \in claimed' BY <1>1, <1>2 DEF HolderInv
  <2> QED BY <1>3, <2>3, <2>4, <2>5 DEF HolderInv, Known
<1>6. CASE PostLost(p)
  <2>1. Known(posted'[Key(p)]) => Known(posted[Key(p)]) BY <1>1, <1>6, Landed DEF PostLost
  <2>2. \A k \in Keys : Known(posted'[k]) => Known(posted[k]) BY <1>2, <2>1
  <2>3. \A q \in Workers : pc'[q] \in Holding => pc[q] \in Holding /\ job'[q] = job[q]
    BY <1>1, <1>4 DEF Holding
  <2> QED BY <1>1, <1>3, <2>2, <2>3, HolderKept
<1> QED BY <1>5, <1>6

\* Giving a claim back takes it from nobody else.
LEMMA HolderHandBack ==
  ASSUME Kinds, HolderInv, NEW p \in Workers, HandBack(p) PROVE HolderInv' /\ SaidAgainNever
<1>1. /\ pc[p] \in Holding /\ Key(p) \in Keys /\ ~Known(posted[Key(p)])
      /\ claimed' = claimed \ {Key(p)} /\ UNCHANGED posted
  BY DEF HandBack, HandingBack, Holding, Release, HolderInv, Kinds, Deliverable, Key, discord
<1>2. /\ pc'[p] \notin Holding
      /\ \A q \in Workers \ {p} : pc'[q] = pc[q] /\ job'[q] = job[q]
  BY DEF HandBack, OnwardFrom, Goto, Finish, Raise, Rest, Kinds, Holding, HandingBack, local
<1>3. \A q \in Workers : pc'[q] \in Holding => q # p /\ pc[q] \in Holding /\ Key(q)' = Key(q)
                                             /\ Key(q) # Key(p)
  BY <1>1, <1>2 DEF HolderInv, OneHolder, Key
<1>4. OneHolder' BY <1>3 DEF HolderInv, OneHolder
<1>5. ASSUME NEW q \in Workers, pc'[q] \in Holding PROVE Key(q)' \in claimed' /\ ~Known(posted'[Key(q)'])
  BY <1>1, <1>3, <1>5 DEF HolderInv
<1>6. \A k \in Keys : Known(posted'[k]) => k \in claimed' BY <1>1 DEF HolderInv
<1> QED BY <1>1, <1>4, <1>5, <1>6 DEF HolderInv, SaidAgainNever, Known

LEMMA HolderSync ==
  ASSUME Kinds, HolderInv, NEW p \in Workers, Sync(p) PROVE HolderInv' /\ SaidAgainNever
<1> USE DEF Kinds, Goto, Finish, Raise, Rest, Synced, Holding, HandingBack, claims, discord, local
<1>1. CASE Record(p) \/ TurnAway(p) \/ Write(p) BY <1>1, HolderRest DEF Record, TurnAway, Write
<1>2. ASSUME NEW t \in Threads, Open(p, t) PROVE HolderInv' /\ SaidAgainNever BY <1>2, HolderRest DEF Open
<1>3. CASE SetLock(p) \/ NoteLock(p) BY <1>3, HolderRest DEF SetLock, NoteLock
<1> QED BY <1>1, <1>2, <1>3 DEF Sync

LEMMA HolderSay ==
  ASSUME Kinds, HolderInv, NEW p \in Workers, Say(p) PROVE HolderInv' /\ SaidAgainNever
<1> USE DEF Kinds, Goto, Finish, Raise, Rest, Holding, HandingBack, claims, discord, local
<1>1. CASE Look(p) \/ Locate(p) BY <1>1, HolderRest DEF Look, Locate
<1>2. CASE PostGone(p) \/ ForgetThread(p) \/ Remember(p) \/ ReadMessage(p)
  BY <1>2, HolderRest DEF PostGone, ForgetThread, Remember, ReadMessage
<1>3. CASE Revise(p)
  <2>1. HolderInv' BY <1>3, Revised, HolderKept DEF Revise
  <2> QED BY <1>3, <2>1, Revised DEF SaidAgainNever
<1>4. CASE ReviseGone(p) \/ Again(p) \/ ShutAgain(p) BY <1>4, HolderRest DEF ReviseGone, Again, ShutAgain
<1> QED BY <1>1, <1>2, <1>3, <1>4, HolderClaim, HolderPost, HolderHandBack DEF Say

LEMMA HolderTrouble ==
  ASSUME Kinds, HolderInv, NEW p \in Workers, Trouble(p) PROVE HolderInv' /\ SaidAgainNever
<1> USE DEF Kinds, Goto, Finish, Raise, Rest, Holding, HandingBack, claims, discord, local
<1>1. CASE Busy(p) \/ LockRefused(p) \/ PostRefused(p) \/ Abort(p)
  BY <1>1, HolderRest DEF Busy, LockRefused, Synced, PostRefused, Abort
<1>2. CASE ClaimLost(p) BY <1>2, HolderRest DEF ClaimLost
<1>3. CASE HandBackFails(p) \/ ReviseFails(p) \/ ShutAgainRefused(p)
  BY <1>3, HolderRest DEF HandBackFails, OnwardFrom, ReviseFails, ShutAgainRefused
<1>4. ASSUME NEW d \in Deliveries, DeliverAgain(p, d) PROVE HolderInv' /\ SaidAgainNever
  BY <1>4, HolderRest DEF DeliverAgain, Begin
<1> QED BY <1>1, <1>2, <1>3, <1>4, HolderPost DEF Trouble

LEMMA HolderNext ==
  ASSUME Kinds, HolderInv, [Next]_vars PROVE HolderInv' /\ SaidAgainNever
<1>1. CASE Environment
  <2>1. ASSUME NEW k \in Keys, NEW i \in DOMAIN posted[k], DeleteMessage(k, i)
        PROVE  HolderInv' /\ SaidAgainNever
    <3>1. HolderInv' BY <2>1, Deleted, HolderKept DEF DeleteMessage, claims, local
    <3> QED BY <2>1, <3>1, Deleted DEF SaidAgainNever
  <2>2. ASSUME UNCHANGED <<pc, job, claimed, posted>> PROVE HolderInv' /\ SaidAgainNever BY <2>2, HolderRest
  <2> QED BY <1>1, <2>1, <2>2 DEF Environment, Arrive, Delete, Report, Toggle, claims, discord, local
<1>2. ASSUME NEW p \in Workers, NEW d \in Deliveries, Deliver(p, d) PROVE HolderInv' /\ SaidAgainNever
  BY <1>2, HolderRest DEF Deliver, Begin, Goto, Kinds, Holding, HandingBack, claims, discord
<1>3. CASE UNCHANGED vars BY <1>3, HolderRest DEF vars, claims, discord, local
<1> QED BY <1>1, <1>2, <1>3, HolderSync, HolderSay, HolderTrouble DEF Next

----
\* The pointer.  Threads on Discord never come back, a sync changes the
\* pointer only under the item's lock, and a worker that gives a thread up
\* has seen that it is gone.

Locked == {"write", "turned_away", "set_lock", "note_lock"}

PointerInv ==
    /\ live \subseteq used /\ used \subseteq Threads
    /\ pointer \in used \cup {NULL}
    /\ thread \in [Workers -> used \cup {NULL}]
    /\ \A p \in Workers :
         /\ pc[p] \in Locked => lock = p
         /\ pc[p] = "write" => pointer \in {thread[p], NULL}
         /\ pc[p] \in {"back_gone", "forget"} => thread[p] \notin live

\* What a step does to the pointer, for a thread that is there.
PointerKept == pointer' # pointer => pointer \notin live

LEMMA PointerLeaves ==
  ASSUME Kinds, PointerInv, NEW p \in Workers, Leaves(p), UNCHANGED <<pointer, live, used>>
  PROVE  PointerInv' /\ PointerKept
BY NotesAssumption DEF PointerInv, PointerKept, Kinds, Locked, Leaves, Rest, ReleaseLock, Goto

\* Every step that goes on but the ones that write the pointer.
LEMMA PointerGoesOn ==
  ASSUME Kinds, PointerInv, NEW p \in Workers, GoesOn(p), UNCHANGED <<pointer, live, used>>,
         thread'[p] \in used \cup {NULL},
         lock' = lock \/ lock = p \/ lock = NULL,
         pc'[p] \in Locked => lock' = p,
         pc'[p] = "write" => pointer \in {thread'[p], NULL},
         pc'[p] \in {"back_gone", "forget"} => thread'[p] \notin live
  PROVE  PointerInv' /\ PointerKept
<1>1. thread' \in [Workers -> used \cup {NULL}] BY DEF PointerInv, GoesOn, Threaded
<1> QED BY <1>1, NotesAssumption DEF PointerInv, PointerKept, Kinds, Locked, GoesOn

\* What a step that sits outside the lock, and has no thread to give up, keeps.
LEMMA PointerOutside ==
  ASSUME Kinds, PointerInv, NEW p \in Workers, Works(p), UNCHANGED <<pointer, live, used>>,
         GoesOn(p) => /\ thread'[p] \in {thread[p], pointer} /\ lock' = lock
                      /\ pc'[p] \notin Locked \cup {"back_gone", "forget"}
  PROVE  PointerInv' /\ PointerKept
<1>1. CASE Leaves(p) BY <1>1, PointerLeaves
<1>2. CASE GoesOn(p)
  <2>1. thread'[p] \in used \cup {NULL} BY <1>2 DEF PointerInv
  <2>2. pc'[p] # "write" BY <1>2 DEF Locked
  <2> QED BY <1>2, <2>1, <2>2, PointerGoesOn
<1> QED BY <1>1, <1>2 DEF Works

LEMMA PointerSynced ==
  ASSUME Kinds, PointerInv, NEW p \in Workers, UNCHANGED <<pointer, live, used>>,
         NEW open, Synced(p, thread[p], open), pc[p] # "idle"
  PROVE  PointerInv' /\ PointerKept
<1>1. CASE IsLine(p)
  <2>1. /\ pc' = [pc EXCEPT ![p] = "look"] /\ thread' = thread
        /\ lock' = IF lock = p THEN NULL ELSE lock
    BY <1>1 DEF Synced, Goto, ReleaseLock, Kinds
  <2> QED BY <2>1, NotesAssumption DEF PointerInv, PointerKept, Kinds, Locked
<1>2. CASE ~IsLine(p) BY <1>2, LeavesSo, PointerLeaves DEF Synced
<1> QED BY <1>1, <1>2

LEMMA PointerSync ==
  ASSUME Kinds, PointerInv, NEW p \in Workers, Sync(p) PROVE PointerInv' /\ PointerKept
<1> USE DEF Kinds, Goto, row, discord, local
<1>0. Works(p) BY WorksSync
<1>1. CASE Record(p)
  <2>1. pc'[p] \in Locked /\ lock' = p /\ lock = NULL /\ thread' = [thread EXCEPT ![p] = pointer]
    BY <1>1 DEF Record, Locked
  <2>2. GoesOn(p) BY <1>0, <2>1 DEF Works, Leaves, Rest, Locked
  <2> QED BY <1>1, <2>1, <2>2, PointerGoesOn DEF Record, PointerInv, Locked
<1>2. CASE TurnAway(p) \/ NoteLock(p) BY <1>2, PointerSynced DEF TurnAway, NoteLock
<1>3. CASE Write(p) \/ SetLock(p)
  <2>1. CASE Leaves(p) BY <1>3, <2>1, PointerLeaves DEF Write, SetLock
  <2>2. CASE GoesOn(p)
    <3>1. /\ pc'[p] \in {"set_lock", "note_lock"} /\ thread' = thread /\ lock' = lock
          /\ lock = p /\ UNCHANGED <<pointer, live, used>>
      BY <1>3, <2>2 DEF Write, SetLock, GoesOn, Raise, Rest, PointerInv, Locked
    <3> QED BY <2>2, <3>1, PointerGoesOn DEF PointerInv
  <2> QED BY <1>0, <2>1, <2>2 DEF Works
<1>4. ASSUME NEW t \in Threads, Open(p, t) PROVE PointerInv' /\ PointerKept
  <2>1. /\ pc[p] = "write" /\ lock = p /\ pointer \in {thread[p], NULL} /\ thread[p] \notin live
        /\ live' = live \cup {t} /\ used' = used \cup {t} /\ t \notin used /\ pointer' = t
    BY <1>4 DEF Open, PointerInv, Locked
  <2>2. PointerKept BY <2>1, NotesAssumption DEF PointerKept, PointerInv
  <2>3. /\ pc'[p] \notin {"write", "turned_away", "note_lock", "back_gone", "forget"}
        /\ pc'[p] = "set_lock" => lock' = p
        /\ thread'[p] \in {t, NULL}
    <3>1. CASE Closed(stored) BY <1>4, <2>1, <3>1 DEF Open
    <3>2. CASE ~Closed(stored) BY <1>4, <2>1, <3>2 DEF Open, Synced, Raise, Rest
    <3> QED BY <3>1, <3>2
  <2>4. \A q \in Workers \ {p} : pc'[q] = pc[q] /\ thread'[q] = thread[q] /\ thread[q] # t
    <3>1. t # NULL BY NotesAssumption
    <3> QED BY <1>0, <2>1, <3>1 DEF Works, GoesOn, Leaves, Rest, PointerInv
  <2>5. thread' \in [Workers -> used' \cup {NULL}]
    <3>1. thread' \in [Workers -> Threaded] BY KindsNext, <1>4 DEF Next, Sync, Threaded
    <3> QED BY <2>1, <2>3, <2>4, <3>1 DEF PointerInv
  <2>6. \A q \in Workers \ {p} : pc[q] \notin Locked /\ pc[q] # "write" BY <2>1 DEF PointerInv, Locked
  <2>7. live' \subseteq used' /\ used' \subseteq Threads /\ pointer' \in used' \cup {NULL}
    BY <2>1 DEF PointerInv
  <2> QED BY <2>1, <2>2, <2>3, <2>4, <2>5, <2>6, <2>7 DEF PointerInv, Locked
<1> QED BY <1>1, <1>2, <1>3, <1>4 DEF Sync

LEMMA PointerSay ==
  ASSUME Kinds, PointerInv, NEW p \in Workers, Say(p) PROVE PointerInv' /\ PointerKept
<1> USE DEF Kinds, Goto, row, discord, local
<1>0. Works(p) BY WorksSay
<1> DEFINE Outside == GoesOn(p) => /\ thread'[p] \in {thread[p], pointer} /\ lock' = lock
                                   /\ pc'[p] \notin Locked \cup {"back_gone", "forget"}
<1>1. CASE Look(p) \/ Locate(p) \/ Claim(p)
  <2>1. Outside BY <1>1 DEF Look, Locate, Claim, GoesOn, Finish, Rest, Locked
  <2> QED BY <1>0, <1>1, <2>1, PointerOutside DEF Look, Locate, Claim
<1>2. CASE Post(p)
  <2>1. Outside BY <1>2 DEF Post, Locked
  <2> QED BY <1>0, <1>2, <2>1, PointerOutside DEF Post
<1>3. CASE PostGone(p)
  <2>1. GoesOn(p) /\ thread[p] \notin live /\ thread' = thread /\ lock' = lock
        /\ pc'[p] \notin Locked /\ UNCHANGED <<pointer, live, used>>
    BY <1>0, <1>3 DEF PostGone, Works, Leaves, Rest, Locked
  <2> QED BY <2>1, PointerGoesOn DEF PointerInv, Locked
<1>4. CASE HandBack(p)
  <2>1. CASE Leaves(p) BY <1>4, <2>1, PointerLeaves DEF HandBack
  <2>2. CASE GoesOn(p)
    <3>1. pc[p] = "back_gone" /\ pc'[p] = "forget" /\ thread' = thread /\ lock' = lock
          /\ UNCHANGED <<pointer, live, used>>
      BY <1>4, <2>2 DEF HandBack, OnwardFrom, GoesOn, Finish, Raise, Rest
    <3> QED BY <2>2, <3>1, PointerGoesOn DEF PointerInv, Locked
  <2> QED BY <1>0, <2>1, <2>2 DEF Works
<1>5. CASE ForgetThread(p) BY <1>5 DEF ForgetThread, Forget, Names, PointerKept, PointerInv, Locked
<1>6. CASE Remember(p) \/ ReadMessage(p) \/ Revise(p)
  <2>1. Outside BY <1>6 DEF Remember, ReadMessage, Revise, GoesOn, Finish, Rest, Locked
  <2> QED BY <1>0, <1>6, <2>1, PointerOutside DEF Remember, ReadMessage, Revise
<1>7. CASE ReviseGone(p) \/ Again(p) \/ ShutAgain(p)
  <2>1. Outside BY <1>7 DEF ReviseGone, Again, ShutAgain, GoesOn, Raise, Finish, Rest, Locked
  <2> QED BY <1>0, <1>7, <2>1, PointerOutside DEF ReviseGone, Again, ShutAgain
<1> QED BY <1>1, <1>2, <1>3, <1>4, <1>5, <1>6, <1>7 DEF Say

LEMMA PointerTrouble ==
  ASSUME Kinds, PointerInv, NEW p \in Workers, Trouble(p), ~Takes(p) PROVE PointerInv' /\ PointerKept
<1> USE DEF Kinds, Goto, row, discord, local
<1>0. Works(p) BY WorksTrouble
<1> DEFINE Outside == GoesOn(p) => /\ thread'[p] \in {thread[p], pointer} /\ lock' = lock
                                   /\ pc'[p] \notin Locked \cup {"back_gone", "forget"}
<1>1. CASE Busy(p) \/ ClaimLost(p) \/ Abort(p) BY <1>1, LeavesSo, PointerLeaves DEF Busy, ClaimLost, Abort
<1>2. CASE LockRefused(p) BY <1>2, PointerSynced DEF LockRefused
<1>3. CASE PostLost(p) \/ PostRefused(p)
  <2>1. Outside BY <1>3 DEF PostLost, PostRefused, Locked
  <2> QED BY <1>0, <1>3, <2>1, PointerOutside DEF PostLost, PostRefused
<1>4. CASE HandBackFails(p)
  <2>1. CASE Leaves(p) BY <1>4, <2>1, PointerLeaves DEF HandBackFails
  <2>2. CASE GoesOn(p)
    <3>1. pc[p] = "back_gone" /\ pc'[p] = "forget" /\ thread' = thread /\ lock' = lock
          /\ UNCHANGED <<pointer, live, used>>
      BY <1>4, <2>2 DEF HandBackFails, OnwardFrom, GoesOn, Finish, Raise, Rest
    <3> QED BY <2>2, <3>1, PointerGoesOn DEF PointerInv, Locked
  <2> QED BY <1>0, <2>1, <2>2 DEF Works
<1>5. CASE ReviseFails(p) \/ ShutAgainRefused(p)
  BY <1>5, LeavesSo, PointerLeaves DEF ReviseFails, ShutAgainRefused
<1> QED BY <1>1, <1>2, <1>3, <1>4, <1>5 DEF Trouble, Takes

LEMMA PointerTaken ==
  ASSUME Kinds, PointerInv, NEW p \in Workers, Takes(p) PROVE PointerInv' /\ PointerKept
<1>1. /\ pc' = [pc EXCEPT ![p] = pc'[p]] /\ pc'[p] \in {"sync", "locate"}
      /\ UNCHANGED <<pointer, live, used, thread, lock>>
  BY DEF Takes, Deliver, DeliverAgain, Begin, Goto, Kinds, row, discord
<1> QED BY <1>1 DEF Kinds, PointerInv, PointerKept, Locked

LEMMA PointerNext ==
  ASSUME Kinds, PointerInv, [Next]_vars PROVE PointerInv' /\ PointerKept
<1>1. CASE Environment
  <2>1. ASSUME UNCHANGED <<pointer, live, used, thread, pc, lock>> PROVE PointerInv' /\ PointerKept
    BY <2>1 DEF PointerInv, PointerKept
  <2>2. ASSUME NEW t \in Threads, Delete(t) \/ Report(t) PROVE PointerInv' /\ PointerKept
    BY <2>2 DEF Delete, Report, Forget, Names, PointerInv, PointerKept, row, discord, local
  <2> QED BY <1>1, <2>1, <2>2 DEF Environment, Arrive, DeleteMessage, Toggle, row, discord, local
<1>2. CASE UNCHANGED vars BY <1>2 DEF vars, row, discord, local, PointerInv, PointerKept
<1> QED BY <1>1, <1>2, PointerSync, PointerSay, PointerTrouble, PointerTaken DEF Next, Takes

----
\* Nothing owed is lost.  What has been sent is said, excused or promised:
\* a delivery of it is owed, and not by one who ends it as an early edit.

Excuses == {"stuck", "quiet", "moved", "refused", "overlap"}

Settled(k) == posted[k] # <<>> \/ Excused(k, Excuses)

Promised(k) ==
    \E d \in owed : /\ d[1] = k
                    /\ \A q \in Workers : job[q] = d => pc[q] # "read_message"

Overlap(k) == <<"overlap", k>> \in excuses

Saying(k) == \E q \in Workers : pc[q] \in Holding /\ Key(q) = k

AfterPost == {"remember", "again", "shut_again", "revise"}

\* Who has a delivery in hand has one that is owed, and has it alone.
WorkInv ==
    /\ \A d \in owed : version[d[1]] # 0
    /\ \A p \in Workers : pc[p] = "idle" => job[p] = Nobody
    /\ \A p \in Workers : pc[p] # "idle" =>
         /\ version[Key(p)] # 0
         /\ job[p] \in owed \/ Overlap(Key(p))
         /\ \A q \in Workers : q # p /\ job[q] = job[p] => Overlap(Key(p))
         /\ pc[p] \in AfterPost => posted[Key(p)] # <<>>

OwedInv ==
    /\ WorkInv
    /\ claimed \subseteq Keys /\ DOMAIN message = Keys
    /\ \A k \in Keys : message[k] # 0 => posted[k] # <<>>
    /\ \A k \in claimed : Settled(k) \/ Saying(k)
    /\ \A k \in Keys : version[k] # 0 => Settled(k) \/ Promised(k)

\* No trouble is forgotten, and what has been posted was posted.
Grows ==
    /\ excuses \subseteq excuses'
    /\ \A k \in Keys : posted[k] # <<>> => posted'[k] # <<>>

LEMMA SettledStays ==
  ASSUME Grows, NEW k \in Keys PROVE (Settled(k) => Settled(k)') /\ (Overlap(k) => Overlap(k)')
BY DEF Grows, Settled, Excused, Overlap

LEMMA WorkKept ==
  ASSUME Kinds, WorkInv, Grows, NEW p \in Workers, Works(p),
         pc'[p] \in AfterPost => posted'[Key(p)] # <<>>
  PROVE  WorkInv'
<1>1. /\ \A q \in Workers \ {p} : pc'[q] = pc[q] /\ job'[q] = job[q]
      /\ \/ pc'[p] = "idle" /\ job'[p] = Nobody /\ owed' \in {owed, owed \ {job[p]}}
         \/ pc'[p] # "idle" /\ job'[p] = job[p] /\ owed' = owed
  BY DEF Works, GoesOn, Leaves, Rest, Goto, Kinds
<1>2. \A d \in owed' : version'[d[1]] # 0 BY <1>1 DEF Works, WorkInv
<1>3. \A q \in Workers : pc'[q] = "idle" => job'[q] = Nobody BY <1>1 DEF WorkInv, Works
<1>4. ASSUME NEW q \in Workers, pc'[q] # "idle"
      PROVE  /\ version'[Key(q)'] # 0
             /\ job'[q] \in owed' \/ Overlap(Key(q))'
             /\ \A r \in Workers : r # q /\ job'[r] = job'[q] => Overlap(Key(q))'
             /\ pc'[q] \in AfterPost => posted'[Key(q)'] # <<>>
  <2>1. pc[q] # "idle" /\ job'[q] = job[q] /\ Key(q)' = Key(q) /\ Key(q) \in Keys
    BY <1>1, <1>4 DEF Key, Kinds, Deliverable, Works
  <2>2. Overlap(Key(q)) => Overlap(Key(q))' BY <2>1 DEF Overlap, Grows
  <2>3. version'[Key(q)'] # 0 BY <2>1 DEF Works, WorkInv
  <2>4. ASSUME NEW r \in Workers, r # q, job'[r] = job'[q] PROVE Overlap(Key(q))'
    <3>1. job[q] # Nobody BY <2>1 DEF Kinds, Deliverable, Nobody
    <3>2. job[r] = job[q] BY <1>1, <2>1, <2>4, <3>1
    <3> QED BY <2>1, <2>2, <2>4, <3>2 DEF WorkInv
  <2>5. job'[q] \in owed' \/ Overlap(Key(q))'
    <3>1. CASE owed' = owed \/ q = p BY <1>1, <1>4, <2>1, <2>2, <3>1 DEF WorkInv
    <3>2. CASE owed' # owed /\ q # p BY <1>1, <2>1, <2>2, <3>2 DEF WorkInv
    <3> QED BY <3>1, <3>2
  <2>6. pc'[q] \in AfterPost => posted'[Key(q)'] # <<>> BY <1>1, <2>1 DEF WorkInv, Grows
  <2> QED BY <2>3, <2>4, <2>5, <2>6
<1> QED BY <1>2, <1>3, <1>4 DEF WorkInv

\* What a step has to see to: its own key.
LEMMA OwedKept ==
  ASSUME Kinds, OwedInv, Grows, NEW p \in Workers, NEW k \in Keys, Works(p), Key(p) = k,
         pc'[p] \in AfterPost => posted'[k] # <<>>,
         DOMAIN message' = Keys,
         \A j \in Keys : message'[j] # 0 => posted'[j] # <<>>,
         claimed' \subseteq claimed \cup {k},
         k \in claimed' => Settled(k)' \/ Saying(k)',
         (owed' = owed /\ pc'[p] # "read_message") \/ Settled(k)' \/ Promised(k)'
  PROVE  OwedInv'
<1>1. WorkInv' BY WorkKept DEF OwedInv
<1>2. \A q \in Workers \ {p} : pc'[q] = pc[q] /\ job'[q] = job[q] /\ Key(q)' = Key(q)
  BY DEF Works, GoesOn, Leaves, Rest, Goto, Kinds, Key
<1>3. claimed' \subseteq Keys BY DEF OwedInv
<1>4. ASSUME NEW j \in claimed' PROVE Settled(j)' \/ Saying(j)'
  <2>1. CASE j = k BY <2>1
  <2>2. CASE j # k
    <3>1. j \in Keys /\ (Settled(j) \/ Saying(j)) BY <2>2 DEF OwedInv
    <3>2. Saying(j) => Saying(j)' BY <1>2, <2>2 DEF Saying
    <3> QED BY <3>1, <3>2, SettledStays
  <2> QED BY <2>1, <2>2
<1>5. ASSUME NEW j \in Keys, version'[j] # 0 PROVE Settled(j)' \/ Promised(j)'
  <2>1. Settled(j) \/ Promised(j) BY <1>5 DEF OwedInv, Works
  <2>2. CASE j = k /\ ~(owed' = owed /\ pc'[p] # "read_message") BY <2>2
  <2>3. ASSUME Promised(j), j # k \/ (owed' = owed /\ pc'[p] # "read_message") PROVE Promised(j)'
    <3>1. PICK d \in owed : d[1] = j /\ \A q \in Workers : job[q] = d => pc[q] # "read_message"
      BY <2>3 DEF Promised
    <3>2. d \in owed' /\ d # Nobody BY <2>3, <3>1 DEF Works, GoesOn, Leaves, Key, Kinds, Deliverable, Nobody
    <3>3. job'[p] = d => pc'[p] # "read_message"
      <4>1. CASE GoesOn(p) BY <2>3, <3>1, <4>1 DEF GoesOn, Key
      <4>2. CASE Leaves(p) BY <3>2, <4>2 DEF Leaves, Rest, Kinds
      <4> QED BY <4>1, <4>2 DEF Works
    <3>4. \A q \in Workers : job'[q] = d => pc'[q] # "read_message" BY <1>2, <3>1, <3>3
    <3> QED BY <3>1, <3>2, <3>4 DEF Promised
  <2>4. CASE Settled(j) BY <2>4, SettledStays
  <2> QED BY <2>1, <2>2, <2>3, <2>4
<1> QED BY <1>1, <1>3, <1>4, <1>5 DEF OwedInv

\* Whoever has the claim of k has a delivery of it, and has it alone.
LEMMA Claimants ==
  ASSUME Kinds, OwedInv, Grows, NEW p \in Workers, Works(p), pc[p] \notin Holding,
         NEW k \in claimed, k \in Keys
  PROVE  Settled(k)' \/ (Saying(k)' /\ Promised(k)')
<1>1. SUFFICES ASSUME ~Settled(k) PROVE Saying(k)' /\ Promised(k)' BY SettledStays
<1>2. PICK q \in Workers : pc[q] \in Holding /\ Key(q) = k BY <1>1 DEF OwedInv, Saying
<1>3. ~Overlap(k) /\ pc[q] \notin {"idle", "read_message"}
  BY <1>1, <1>2 DEF Settled, Excused, Excuses, Overlap, Holding, HandingBack
<1>4. job[q] \in owed /\ job[q] # Nobody /\ \A r \in Workers \ {q} : job[r] # job[q]
  BY <1>2, <1>3 DEF OwedInv, WorkInv, Kinds, Deliverable, Nobody
<1>5. q # p /\ pc'[q] = pc[q] /\ job'[q] = job[q] BY <1>2 DEF Works, GoesOn, Leaves, Rest, Goto, Kinds
<1>6. \A r \in Workers \ {q} : job'[r] # job[q] BY <1>4, <1>5 DEF Works, GoesOn, Leaves, Rest, Kinds
<1>7. job[q] \in owed' BY <1>4, <1>5 DEF Works, GoesOn, Leaves
<1>8. Saying(k)' BY <1>2, <1>5 DEF Saying, Key
<1>9. Promised(k)' BY <1>2, <1>3, <1>5, <1>6, <1>7 DEF Promised, Key
<1> QED BY <1>8, <1>9

\* A step that leaves the claims alone.
LEMMA OwedStep ==
  ASSUME Kinds, OwedInv, Grows, NEW p \in Workers, NEW k \in Keys, Works(p), Key(p) = k,
         pc[p] \notin Holding, UNCHANGED claims,
         pc'[p] \in AfterPost => posted'[k] # <<>>,
         \/ owed' = owed /\ pc'[p] # "read_message"
         \/ Settled(k)' \/ Promised(k)'
         \/ k \in claimed
  PROVE  OwedInv'
<1>2. k \in claimed => Settled(k)' \/ (Saying(k)' /\ Promised(k)') BY Claimants
<1>3. \A j \in Keys : message'[j] # 0 => posted'[j] # <<>> BY DEF OwedInv, Grows, claims
<1>4. claimed' = claimed /\ DOMAIN message' = Keys BY DEF OwedInv, claims
<1> QED BY <1>2, <1>3, <1>4, OwedKept

LEMMA OwedSync ==
  ASSUME Kinds, OwedInv, NEW p \in Workers, Sync(p) PROVE OwedInv'
<1>1. /\ owed' = owed /\ UNCHANGED claims /\ excuses \subseteq excuses'
      /\ pc[p] \notin Holding /\ pc'[p] \notin AfterPost \cup {"read_message"}
  <2> USE DEF Kinds, Holding, HandingBack, AfterPost, Goto, github, book
  <2>1. ASSUME NEW t, NEW open, Synced(p, t, open) PROVE owed' = owed /\ pc'[p] \in {"idle", "look"}
    BY <2>1 DEF Synced, Raise, Rest
  <2>2. CASE Record(p) \/ TurnAway(p) BY <2>1, <2>2 DEF Record, TurnAway
  <2>3. CASE Write(p) BY <2>3 DEF Write, Excuse
  <2>4. ASSUME NEW t \in Threads, Open(p, t)
        PROVE  /\ owed' = owed /\ UNCHANGED claims /\ excuses \subseteq excuses'
               /\ pc[p] \notin Holding /\ pc'[p] \notin AfterPost \cup {"read_message"}
    BY <2>1, <2>4 DEF Open
  <2>5. CASE SetLock(p) BY <2>5 DEF SetLock, Raise, Rest
  <2>6. CASE NoteLock(p) BY <2>1, <2>6 DEF NoteLock
  <2> QED BY <2>2, <2>3, <2>4, <2>5, <2>6 DEF Sync
<1>2. Works(p) /\ Grows BY <1>1, WorksSync DEF Grows
<1>3. Key(p) \in Keys BY <1>2 DEF Works, Kinds, Deliverable, Key
<1> QED BY <1>1, <1>2, <1>3, OwedStep

LEMMA PostedStays ==
  ASSUME Kinds, NEW p \in Workers, pc[p] # "idle",
         Post(p) \/ PostLost(p) \/ Revise(p) \/ posted' = posted
  PROVE  \A k \in Keys : posted[k] # <<>> => posted'[k] # <<>>
<1>1. CASE Post(p) \/ PostLost(p)
  <2>1. posted' = posted \/ \E heard \in BOOLEAN : Land(p, heard) BY <1>1 DEF Post, PostLost
  <2>2. ASSUME NEW heard \in BOOLEAN, Land(p, heard)
        PROVE  \A k \in Keys : posted[k] # <<>> => posted'[k] # <<>>
    BY <2>2, Landed
  <2> QED BY <2>1, <2>2
<1>2. CASE Revise(p)
  <2>1. ASSUME NEW k \in Keys, posted[k] # <<>> PROVE posted'[k] # <<>>
    <3>1. Len(posted[k]) # 0 BY <2>1 DEF Kinds
    <3>2. Len(posted'[k]) # 0 BY <1>2, <3>1, Revised
    <3> QED BY <3>2
  <2> QED BY <2>1
<1> QED BY <1>1, <1>2

\* An accepted trouble settles what it befell.
LEMMA SettledBy ==
  ASSUME NEW k, NEW reasons, Excuse(reasons, k)
  PROVE  /\ excuses \subseteq excuses'
         /\ reasons \cap Excuses # {} => Settled(k)'
BY DEF Excuse, Settled, Excused

LEMMA OwedSay ==
  ASSUME Kinds, OwedInv, NEW p \in Workers, Say(p) PROVE OwedInv'
<1> PICK k \in Keys : Key(p) = k BY WorksSay DEF Works, Kinds, Deliverable, Key
<1>0. Works(p) /\ \A j \in Keys : posted[j] # <<>> => posted'[j] # <<>> BY WorksSay, PostedStays DEF Works
<1>1. CASE Look(p)
  <2>1. UNCHANGED claims /\ pc[p] = "look" /\ excuses \subseteq excuses' BY <1>1, SettledBy DEF Look
  <2>2. \/ owed' = owed /\ pc'[p] = "claim"
        \/ Settled(k)' /\ pc'[p] = "idle"
    BY <1>1, SettledBy DEF Look, Finish, Rest, Goto, Kinds, github, Excuses
  <2> QED BY <1>0, <2>1, <2>2, OwedStep DEF Grows, Holding, HandingBack, AfterPost
<1>2. CASE Locate(p)
  <2>1. UNCHANGED claims /\ pc[p] = "locate" /\ excuses \subseteq excuses' BY <1>2, SettledBy DEF Locate
  <2>2. \/ owed' = owed /\ pc'[p] \in {"sync", "claim"}
        \/ Settled(k)' /\ pc'[p] = "idle"
    BY <1>2, SettledBy DEF Locate, Finish, Rest, Goto, Kinds, github, Excuses
  <2> QED BY <1>0, <2>1, <2>2, OwedStep DEF Grows, Holding, HandingBack, AfterPost
<1>3. CASE Claim(p)
  <2>1. message' = message /\ pc[p] = "claim" /\ excuses' = excuses BY <1>3 DEF Claim, book
  <2>2. CASE Unclaimed(k)
    <3>1. owed' = owed /\ claimed' = claimed \cup {k} /\ pc'[p] = "post" /\ Key(p)' = k
      BY <1>3, <2>2 DEF Claim, Goto, Kinds, github, local, Key
    <3>2. Saying(k)' BY <3>1 DEF Saying, Holding
    <3> QED BY <1>0, <2>1, <3>1, <3>2, OwedKept DEF Grows, OwedInv, AfterPost
  <2>3. CASE ~Unclaimed(k)
    <3>1. claimed' = claimed /\ pc'[p] \in {"read_message", "idle"} /\ k \in claimed
      BY <1>3, <2>3 DEF Claim, Goto, Kinds, Finish, Rest, Unclaimed
    <3> QED BY <1>0, <2>1, <3>1, OwedStep DEF Grows, Holding, HandingBack, AfterPost, claims
  <2> QED BY <2>2, <2>3
<1>4. CASE Post(p)
  <2>1. posted'[k] # <<>> /\ pc[p] = "post" /\ UNCHANGED <<claims, owed, excuses>>
    BY <1>0, <1>4, Landed DEF Post, github, book, Works
  <2>2. Settled(k)' BY <2>1 DEF Settled
  <2> QED BY <1>0, <2>1, <2>2, OwedKept DEF Grows, OwedInv, claims
<1>5. CASE PostGone(p)
  <2>1. UNCHANGED <<claims, owed, excuses>> /\ pc'[p] \in HandingBack /\ Key(p)' = k
    BY <1>5 DEF PostGone, Goto, Kinds, HandingBack, github, book, local, Key
  <2>2. Saying(k)' BY <2>1 DEF Saying, Holding
  <2> QED BY <1>0, <2>1, <2>2, OwedKept DEF Grows, OwedInv, claims, HandingBack, AfterPost
<1>6. CASE HandBack(p)
  <2>1. /\ claimed' = claimed \ {k} /\ message' = [message EXCEPT ![k] = 0]
        /\ excuses \subseteq excuses' BY <1>6, SettledBy DEF HandBack, Release
  <2>2. /\ pc'[p] \in {"forget", "idle"}
        /\ owed' = owed \/ Settled(k)'
    BY <1>6, SettledBy DEF HandBack, OnwardFrom, Finish, Raise, Rest, Goto, Kinds, github, Excuses
  <2>3. \A j \in Keys : message'[j] # 0 => posted'[j] # <<>> BY <1>0, <2>1 DEF OwedInv
  <2> QED BY <1>0, <2>1, <2>2, <2>3, OwedKept DEF Grows, OwedInv, AfterPost
<1>7. CASE ForgetThread(p)
  <2>1. UNCHANGED <<claims, owed, excuses>> /\ pc[p] = "forget" /\ pc'[p] = "sync"
    BY <1>7 DEF ForgetThread, Goto, Kinds, github, book
  <2> QED BY <1>0, <2>1, OwedStep DEF Grows, Holding, HandingBack, AfterPost
<1>8. CASE Remember(p)
  <2>1. /\ UNCHANGED <<claimed, owed, excuses>> /\ pc[p] = "remember"
        /\ message' = [message EXCEPT ![k] = message'[k]]
    BY <1>8 DEF Remember, github, book, OwedInv
  <2>2. posted'[k] # <<>> BY <1>0, <2>1 DEF OwedInv, WorkInv, AfterPost
  <2>3. Settled(k)' /\ DOMAIN message' = Keys BY <2>1, <2>2 DEF Settled, OwedInv
  <2>4. \A j \in Keys : message'[j] # 0 => posted'[j] # <<>> BY <1>0, <2>1, <2>2 DEF OwedInv
  <2> QED BY <1>0, <2>1, <2>2, <2>3, <2>4, OwedKept DEF Grows, OwedInv
<1>9. CASE ReadMessage(p)
  <2>1. UNCHANGED claims /\ pc[p] = "read_message" /\ excuses \subseteq excuses'
    BY <1>9, SettledBy DEF ReadMessage
  <2>2. CASE message[k] # 0
    <3>1. posted'[k] # <<>> BY <1>0, <2>2 DEF OwedInv
    <3>2. Settled(k)' BY <3>1 DEF Settled
    <3> QED BY <1>0, <2>1, <3>1, <3>2, OwedStep DEF Grows, Holding, HandingBack
  <2>3. CASE message[k] = 0
    <3>1. Finish(p) /\ pc'[p] = "idle" BY <1>9, <2>3 DEF ReadMessage, Finish, Rest, Goto, Kinds
    <3>2. Settled(k) \/ Promised(k) BY <1>0 DEF OwedInv, WorkInv, Works
    <3>3. Promised(k) => Promised(k)' BY <2>1, <3>1 DEF Promised, Finish, Rest, Goto, Kinds, Nobody
    <3>4. Settled(k)' \/ Promised(k)' BY <1>0, <2>1, <3>2, <3>3, SettledStays DEF Grows
    <3> QED BY <1>0, <2>1, <3>1, <3>4, OwedStep DEF Grows, Holding, HandingBack, AfterPost
  <2> QED BY <2>2, <2>3
<1>10. CASE Revise(p) \/ ReviseGone(p) \/ Again(p) \/ ShutAgain(p)
  <2>1. UNCHANGED claims /\ pc[p] \in AfterPost /\ excuses \subseteq excuses'
    BY <1>10, SettledBy DEF Revise, ReviseGone, Again, ShutAgain, AfterPost, book
  <2>2. posted'[k] # <<>> BY <1>0, <2>1 DEF OwedInv, WorkInv, AfterPost
  <2>3. Settled(k)' BY <2>2 DEF Settled
  <2> QED BY <1>0, <2>1, <2>2, <2>3, OwedStep DEF Grows, Holding, HandingBack, AfterPost
<1> QED BY <1>1, <1>2, <1>3, <1>4, <1>5, <1>6, <1>7, <1>8, <1>9, <1>10 DEF Say

LEMMA OwedTrouble ==
  ASSUME Kinds, OwedInv, NEW p \in Workers, Trouble(p), ~Takes(p) PROVE OwedInv'
<1> PICK k \in Keys : Key(p) = k BY WorksTrouble DEF Works, Kinds, Deliverable, Key
<1>0. Works(p) /\ \A j \in Keys : posted[j] # <<>> => posted'[j] # <<>> BY WorksTrouble, PostedStays DEF Works
<1>1. CASE Busy(p) \/ LockRefused(p)
  <2>1. /\ UNCHANGED <<claims, owed>> /\ excuses \subseteq excuses'
        /\ pc[p] \in {"sync", "set_lock"} /\ pc'[p] \in {"idle", "look"}
    BY <1>1, SettledBy DEF Busy, LockRefused, Synced, Raise, Rest, Goto, Kinds, github, book
  <2> QED BY <1>0, <2>1, OwedStep DEF Grows, Holding, HandingBack, AfterPost
<1>2. CASE ClaimLost(p)
  <2>1. /\ Settled(k)' /\ excuses \subseteq excuses'
        /\ claimed' = claimed \cup {k} /\ message' = message /\ pc'[p] = "idle"
    BY <1>2, SettledBy DEF ClaimLost, Raise, Rest, Goto, Kinds, Excuses
  <2> QED BY <1>0, <2>1, OwedKept DEF Grows, OwedInv, AfterPost
<1>3. CASE PostLost(p) \/ PostRefused(p)
  <2>1. UNCHANGED <<claims, owed>> /\ pc'[p] \in HandingBack /\ Key(p)' = k
    BY <1>3 DEF PostLost, PostRefused, Goto, Kinds, HandingBack, github, local, Key
  <2>2. excuses \subseteq excuses' BY <1>3, SettledBy DEF PostLost, PostRefused
  <2>3. Saying(k)' BY <2>1 DEF Saying, Holding
  <2> QED BY <1>0, <2>1, <2>2, <2>3, OwedKept DEF Grows, OwedInv, claims, HandingBack, AfterPost
<1>4. CASE HandBackFails(p)
  <2>1. Settled(k)' /\ excuses \subseteq excuses' /\ UNCHANGED claims
    BY <1>4, SettledBy DEF HandBackFails, Excuses
  <2>2. pc'[p] \in {"forget", "idle"} BY <1>4 DEF HandBackFails, OnwardFrom, Finish, Raise, Rest, Goto, Kinds
  <2> QED BY <1>0, <2>1, <2>2, OwedKept DEF Grows, OwedInv, claims, AfterPost
<1>5. CASE ReviseFails(p) \/ ShutAgainRefused(p)
  <2>1. UNCHANGED claims /\ pc[p] \in AfterPost /\ excuses \subseteq excuses'
    BY <1>5, SettledBy DEF ReviseFails, ShutAgainRefused, AfterPost
  <2>2. posted'[k] # <<>> BY <1>0, <2>1 DEF OwedInv, WorkInv, AfterPost
  <2>3. Settled(k)' BY <2>2 DEF Settled
  <2> QED BY <1>0, <2>1, <2>2, <2>3, OwedStep DEF Grows, Holding, HandingBack, AfterPost
<1>6. CASE Abort(p)
  <2>1. UNCHANGED <<claims, owed>> /\ pc'[p] = "idle" /\ excuses \subseteq excuses'
    BY <1>6, SettledBy DEF Abort, Raise, Rest, Goto, Kinds, github
  <2>2. CASE pc[p] \in Holding
    <3>1. Cost(p) = {"stuck"} BY <2>2 DEF Cost, Holding, HandingBack
    <3>2. Settled(k)' BY <1>6, <3>1, SettledBy DEF Abort, Excuses
    <3> QED BY <1>0, <2>1, <3>2, OwedKept DEF Grows, OwedInv, claims, AfterPost
  <2>3. CASE pc[p] \notin Holding BY <1>0, <2>1, <2>3, OwedStep DEF Grows, AfterPost
  <2> QED BY <2>2, <2>3
<1> QED BY <1>1, <1>2, <1>3, <1>4, <1>5, <1>6 DEF Trouble, Takes

\* Taking up a delivery that is owed, or one another worker has too.
LEMMA OwedTaken ==
  ASSUME Kinds, OwedInv, NEW p \in Workers, Takes(p) PROVE OwedInv'
<1>1. PICK d \in owed : /\ pc[p] = "idle" /\ job' = [job EXCEPT ![p] = d]
                        /\ pc' = [pc EXCEPT ![p] = pc'[p]] /\ pc'[p] \in {"sync", "locate"}
                        /\ UNCHANGED <<version, owed, claimed, message, posted>>
                        /\ excuses \subseteq excuses'
                        /\ (\A q \in Workers : job[q] # d) \/ Overlap(d[1])'
  <2>1. PICK d \in Deliveries : Deliver(p, d) \/ DeliverAgain(p, d) BY DEF Takes
  <2>2. /\ d \in owed /\ pc[p] = "idle" /\ job' = [job EXCEPT ![p] = d]
        /\ pc' = [pc EXCEPT ![p] = pc'[p]] /\ pc'[p] \in {"sync", "locate"}
        /\ UNCHANGED <<version, owed, claimed, message, posted>>
    BY <2>1 DEF Deliver, DeliverAgain, Begin, Goto, Kinds, github, claims, discord
  <2>3. /\ excuses \subseteq excuses'
        /\ (\A q \in Workers : job[q] # d) \/ Overlap(d[1])'
    BY <2>1 DEF Deliver, DeliverAgain, Excuse, Overlap, book
  <2> QED BY <2>2, <2>3
<1>3. Grows BY <1>1 DEF Grows
<1>4. \A q \in Workers \ {p} : pc'[q] = pc[q] /\ job'[q] = job[q] /\ Key(q)' = Key(q) BY <1>1 DEF Kinds, Key
<1>5. pc'[p] \notin {"idle", "read_message"} \cup AfterPost /\ job'[p] = d /\ Key(p)' = d[1]
  BY <1>1 DEF Kinds, Key, AfterPost
<1>6. WorkInv'
  <2>1. \A e \in owed' : version'[e[1]] # 0 BY <1>1 DEF OwedInv, WorkInv
  <2>2. \A q \in Workers : pc'[q] = "idle" => job'[q] = Nobody BY <1>4, <1>5 DEF OwedInv, WorkInv
  <2>3. ASSUME NEW q \in Workers, pc'[q] # "idle"
        PROVE  /\ version'[Key(q)'] # 0
               /\ job'[q] \in owed' \/ Overlap(Key(q))'
               /\ \A r \in Workers : r # q /\ job'[r] = job'[q] => Overlap(Key(q))'
               /\ pc'[q] \in AfterPost => posted'[Key(q)'] # <<>>
    <3>1. CASE q = p BY <1>1, <1>4, <1>5, <3>1 DEF OwedInv, WorkInv, Overlap
    <3>2. CASE q # p
      <4>1. /\ version'[Key(q)'] # 0
            /\ pc'[q] \in AfterPost => posted'[Key(q)'] # <<>>
        BY <1>1, <1>4, <2>3, <3>2 DEF OwedInv, WorkInv
      <4>2. Overlap(Key(q)) => Overlap(Key(q))' BY <1>1, <1>4, <3>2 DEF Overlap
      <4>3. job'[q] \in owed' \/ Overlap(Key(q))' BY <1>1, <1>4, <2>3, <3>2, <4>2 DEF OwedInv, WorkInv
      <4>4. ASSUME NEW r \in Workers, r # q, job'[r] = job'[q] PROVE Overlap(Key(q))'
        <5>1. CASE r = p BY <1>1, <1>4, <1>5, <3>2, <4>4, <5>1 DEF Overlap, Key
        <5>2. CASE r # p BY <1>4, <2>3, <3>2, <4>2, <4>4, <5>2 DEF OwedInv, WorkInv
        <5> QED BY <5>1, <5>2
      <4> QED BY <4>1, <4>3, <4>4
    <3> QED BY <3>1, <3>2
  <2> QED BY <2>1, <2>2, <2>3 DEF WorkInv
<1>7. ASSUME NEW k \in claimed' PROVE Settled(k)' \/ Saying(k)'
  <2>1. k \in Keys /\ (Settled(k) \/ Saying(k)) BY <1>1 DEF OwedInv
  <2>2. Saying(k) => Saying(k)' BY <1>1, <1>4 DEF Saying, Holding, HandingBack
  <2> QED BY <1>3, <2>1, <2>2, SettledStays
<1>8. ASSUME NEW k \in Keys, version'[k] # 0 PROVE Settled(k)' \/ Promised(k)'
  <2>1. Settled(k) \/ Promised(k) BY <1>1, <1>8 DEF OwedInv
  <2>2. Promised(k) => Promised(k)' BY <1>1, <1>4, <1>5 DEF Promised
  <2> QED BY <1>3, <2>1, <2>2, SettledStays
<1> QED BY <1>1, <1>6, <1>7, <1>8 DEF OwedInv

\* What no worker does.
LEMMA OwedOutside ==
  ASSUME Kinds, OwedInv, Grows, UNCHANGED <<claimed, message, pc, job>>,
         owed \subseteq owed',
         \A d \in owed' : version'[d[1]] # 0,
         \A k \in Keys : version[k] # 0 => version'[k] # 0,
         \A k \in Keys : version'[k] # 0 => version[k] # 0 \/ Promised(k)'
  PROVE  OwedInv'
<1>1. WorkInv'
  <2>1. \A p \in Workers : Key(p)' = Key(p) /\ (pc[p] # "idle" => Key(p) \in Keys)
    BY DEF Key, Kinds, Deliverable
  <2>2. \A p \in Workers : Overlap(Key(p)) => Overlap(Key(p))' BY <2>1 DEF Overlap, Grows
  <2> QED BY <2>1, <2>2 DEF OwedInv, WorkInv, Grows
<1>2. ASSUME NEW k \in claimed' PROVE Settled(k)' \/ Saying(k)'
  <2>1. k \in Keys /\ (Settled(k) \/ Saying(k)) BY DEF OwedInv
  <2>2. Saying(k) => Saying(k)' BY DEF Saying, Key
  <2> QED BY <2>1, <2>2, SettledStays
<1>3. ASSUME NEW k \in Keys, version'[k] # 0 PROVE Settled(k)' \/ Promised(k)'
  <2>1. Settled(k) \/ Promised(k) \/ Promised(k)' BY <1>3 DEF OwedInv
  <2>2. Promised(k) => Promised(k)' BY DEF Promised
  <2> QED BY <2>1, <2>2, SettledStays
<1>4. \A k \in Keys : message'[k] # 0 => posted'[k] # <<>> BY DEF OwedInv, Grows
<1> QED BY <1>1, <1>2, <1>3, <1>4 DEF OwedInv

LEMMA OwedNext == ASSUME Kinds, OwedInv, [Next]_vars PROVE OwedInv'
<1>1. ASSUME NEW k \in Keys, Arrive(k) PROVE OwedInv'
  <2>1. /\ UNCHANGED <<claimed, message, pc, job>> /\ Grows
        /\ version' = [version EXCEPT ![k] = @ + 1]
        /\ owed' = owed \cup {<<k, version[k] + 1>>}
    BY <1>1 DEF Arrive, Grows, claims, local, discord, book
  <2>2. version[k] \in Nat /\ version'[k] = version[k] + 1 BY <2>1 DEF Kinds
  <2>3. \A j \in Keys : j # k => version'[j] = version[j] BY <2>1 DEF Kinds
  <2>4. \A d \in owed' : version'[d[1]] # 0 BY <2>1, <2>2, <2>3 DEF OwedInv, WorkInv, Kinds, Deliverable
  <2>5. version[k] = 0 => Promised(k)'
    <3> DEFINE d == <<k, version[k] + 1>>
    <3> SUFFICES ASSUME version[k] = 0 PROVE Promised(k)' OBVIOUS
    <3>1. \A q \in Workers : pc[q] # "idle" => job[q] # <<k, 1>> BY DEF OwedInv, WorkInv, Key
    <3>2. \A q \in Workers : job'[q] = <<k, 1>> => pc'[q] # "read_message" BY <2>1, <3>1
    <3>3. <<k, 1>> \in owed' BY <2>1
    <3> QED BY <3>2, <3>3 DEF Promised
  <2> QED BY <2>1, <2>2, <2>3, <2>4, <2>5, OwedOutside
<1>2. ASSUME UNCHANGED <<version, owed, claimed, message, pc, job, excuses>>,
             \A k \in Keys : posted[k] # <<>> => posted'[k] # <<>>
      PROVE  OwedInv' BY <1>2, OwedOutside DEF Grows, OwedInv, WorkInv
<1>3. CASE Environment
  <2>1. ASSUME NEW k \in Keys, NEW i \in DOMAIN posted[k], DeleteMessage(k, i) PROVE OwedInv'
    <3>1. ASSUME NEW j \in Keys, posted[j] # <<>> PROVE posted'[j] # <<>>
      <4>1. Len(posted[j]) # 0 BY <3>1 DEF Kinds
      <4>2. Len(posted'[j]) # 0 BY <2>1, <4>1, Deleted
      <4> QED BY <4>2
    <3> QED BY <1>2, <2>1, <3>1 DEF DeleteMessage, github, claims, local
  <2>2. ASSUME NEW t \in Threads, Delete(t) \/ Report(t) PROVE OwedInv'
    BY <1>2, <2>2 DEF Delete, Report, github, claims, local, book, discord
  <2>3. CASE Toggle BY <1>2, <2>3 DEF Toggle, github, claims, local, discord
  <2> QED BY <1>1, <1>3, <2>1, <2>2, <2>3 DEF Environment
<1>4. CASE UNCHANGED vars BY <1>2, <1>4 DEF vars, github, claims, discord, local, book
<1> QED BY <1>3, <1>4, OwedSync, OwedSay, OwedTrouble, OwedTaken DEF Next, Takes

----
\* What is shown.  One worker moves at a time: it goes on with what it has
\* in hand, or leaves it.

Moods == {"shut", "open", "unknown"}

Shapes ==
    /\ Kinds
    /\ picked \in [Workers -> Nat] /\ message \in [Keys -> Nat] /\ claimed \subseteq Keys
    /\ shut \in [Threads -> BOOLEAN] /\ note \in Moods /\ stored \in Nat

\* A worker does something with the delivery it has.
Does(p) == Sync(p) \/ Say(p) \/ (Trouble(p) /\ ~Takes(p))

Alone(p) ==
    /\ pc[p] # "idle" /\ version' = version
    /\ \A q \in Workers \ {p} : /\ pc'[q] = pc[q] /\ job'[q] = job[q] /\ Key(q)' = Key(q)
                                /\ thread'[q] = thread[q] /\ picked'[q] = picked[q]
    /\ \/ /\ pc'[p] # "idle" /\ job'[p] = job[p] /\ Key(p)' = Key(p) /\ owed' = owed
       \/ /\ pc'[p] = "idle" /\ job'[p] = Nobody /\ thread'[p] = NULL
          /\ owed' \in {owed, owed \ {job[p]}}

\* Only where a message is read or has been posted is one picked.
Picks(p) ==
    /\ picked' \in [Workers -> Nat]
    /\ \A q \in Workers \ {p} : picked'[q] = picked[q]

LEMMA PicksLeaving ==
  ASSUME Shapes, NEW p \in Workers, Finish(p) \/ Raise(p)
  PROVE  Picks(p) BY DEF Shapes, Picks, Finish, Raise, Rest

LEMMA PicksSynced ==
  ASSUME Shapes, NEW p \in Workers, NEW t, NEW open, Synced(p, t, open) PROVE Picks(p)
<1>1. CASE IsLine(p) BY <1>1 DEF Shapes, Picks, Synced
<1>2. CASE ~IsLine(p) BY <1>2, PicksLeaving DEF Synced
<1> QED BY <1>1, <1>2

LEMMA PicksOne ==
  ASSUME Shapes, NEW p \in Workers, Does(p) PROVE Picks(p)
<1>1. CASE UNCHANGED picked BY <1>1 DEF Shapes, Picks
<1>2. CASE Finish(p) \/ Raise(p) BY <1>2, PicksLeaving
<1>3. ASSUME Sync(p) PROVE Picks(p)
  <2>1. CASE Record(p) \/ Write(p) \/ SetLock(p) BY <1>1, <1>2, <2>1 DEF Record, Write, SetLock, local
  <2>2. CASE TurnAway(p) \/ NoteLock(p) BY <2>2, PicksSynced DEF TurnAway, NoteLock
  <2>3. ASSUME NEW t \in Threads, Open(p, t) PROVE Picks(p) BY <1>1, <2>3, PicksSynced DEF Open
  <2> QED BY <1>3, <2>1, <2>2, <2>3 DEF Sync
<1>4. ASSUME Say(p) PROVE Picks(p)
  <2>1. CASE Look(p) \/ Locate(p) \/ Claim(p) BY <1>1, <1>2, <2>1 DEF Look, Locate, Claim, local
  <2>2. CASE Post(p)
    <3>1. Len(posted[Key(p)]) \in Nat BY <2>2 DEF Post, Shapes, Kinds, Deliverable, Key
    <3> QED BY <2>2, <3>1 DEF Post, Shapes, Picks
  <2>3. CASE PostGone(p) \/ HandBack(p) \/ ForgetThread(p) \/ Remember(p)
    BY <1>1, <1>2, <2>3 DEF PostGone, HandBack, OnwardFrom, ForgetThread, Remember, local
  <2>4. CASE ReadMessage(p)
    <3>1. Key(p) \in Keys BY <2>4 DEF ReadMessage, Shapes, Kinds, Deliverable, Key
    <3> QED BY <1>2, <2>4, <3>1 DEF ReadMessage, Shapes, Picks
  <2>5. CASE Revise(p) \/ ReviseGone(p) \/ Again(p) \/ ShutAgain(p)
    BY <1>1, <1>2, <2>5 DEF Revise, ReviseGone, Again, ShutAgain, local
  <2> QED BY <1>4, <2>1, <2>2, <2>3, <2>4, <2>5 DEF Say
<1>5. ASSUME Trouble(p), ~Takes(p) PROVE Picks(p)
  <2>1. CASE Busy(p) \/ ClaimLost(p) \/ PostLost(p) \/ PostRefused(p)
    BY <1>1, <1>2, <2>1 DEF Busy, ClaimLost, PostLost, PostRefused, local
  <2>2. CASE LockRefused(p) BY <2>2, PicksSynced DEF LockRefused
  <2>3. CASE HandBackFails(p) \/ ReviseFails(p) \/ ShutAgainRefused(p) \/ Abort(p)
    BY <1>1, <1>2, <2>3 DEF HandBackFails, OnwardFrom, ReviseFails, ShutAgainRefused, Abort, local
  <2> QED BY <1>5, <2>1, <2>2, <2>3 DEF Trouble, Takes
<1> QED BY <1>3, <1>4, <1>5 DEF Does

LEMMA DoesAlone ==
  ASSUME Shapes, NEW p \in Workers, Does(p) PROVE Alone(p) /\ Key(p) \in Keys /\ job[p] \in Deliverable
<1>1. Works(p) BY WorksSync, WorksSay, WorksTrouble DEF Does, Shapes
<1>2. /\ pc[p] # "idle" /\ version' = version /\ job[p] \in Deliverable
      /\ \A q \in Workers \ {p} : /\ pc'[q] = pc[q] /\ job'[q] = job[q]
                                  /\ thread'[q] = thread[q]
      /\ \/ pc'[p] # "idle" /\ job'[p] = job[p] /\ owed' = owed
         \/ /\ pc'[p] = "idle" /\ job'[p] = Nobody /\ thread'[p] = NULL
            /\ owed' \in {owed, owed \ {job[p]}}
  BY <1>1 DEF Works, GoesOn, Leaves, Rest, Goto, Shapes, Kinds
<1>3. \A q \in Workers \ {p} : picked'[q] = picked[q] BY PicksOne DEF Picks
<1> QED BY <1>2, <1>3 DEF Alone, Key, Deliverable

----
\* Messages stay where they were put, known as they were, in the thread
\* they were put in or deleted; only an edit changes what one shows.

Stays(k) ==
    \A i \in DOMAIN posted[k] :
        /\ i \in DOMAIN posted'[k]
        /\ posted'[k][i].heard = posted[k][i].heard
        /\ posted'[k][i].thread \in {posted[k][i].thread, NULL}

Unrevised(k) == \A i \in DOMAIN posted[k] : posted'[k][i].version = posted[k][i].version

\* What a worker put there, if it put anything.
Added(k, p) ==
    \A i \in DOMAIN posted'[k] :
        \/ i \in DOMAIN posted[k]
        \/ /\ i = Len(posted[k]) + 1 /\ Key(p) = k
           /\ posted'[k][i].version = job[p][2] /\ posted'[k][i].thread = thread[p]

LEMMA Puts ==
  ASSUME Shapes, NEW p \in Workers, NEW heard \in BOOLEAN, pc[p] # "idle", Land(p, heard)
  PROVE  /\ \A k \in Keys : Stays(k) /\ Unrevised(k) /\ Added(k, p)
         /\ DOMAIN posted'[Key(p)] = DOMAIN posted[Key(p)] \cup {Len(posted[Key(p)]) + 1}
         /\ posted'[Key(p)][Len(posted[Key(p)]) + 1] =
               [version |-> job[p][2], thread |-> thread[p], heard |-> heard]
<1> DEFINE new  == [version |-> job[p][2], thread |-> thread[p], heard |-> heard]
           old  == posted[Key(p)]
           said == Append(old, new)
<1>1. Key(p) \in Keys /\ job[p][2] \in Nat BY DEF Shapes, Kinds, Deliverable, Key
<1>2. new \in Messages BY <1>1 DEF Shapes, Kinds, Messages
<1>3. old \in Seq(Messages) BY <1>1 DEF Shapes, Kinds
<1>4. /\ DOMAIN said = DOMAIN old \cup {Len(old) + 1} /\ said[Len(old) + 1] = new
      /\ \A i \in DOMAIN old : said[i] = old[i] BY <1>2, <1>3
<1>5. posted' = [posted EXCEPT ![Key(p)] = said] BY DEF Land
<1>6. posted'[Key(p)] = said /\ \A k \in Keys \ {Key(p)} : posted'[k] = posted[k]
  BY <1>1, <1>5 DEF Shapes, Kinds
<1> HIDE DEF said
<1>7. \A k \in Keys : Stays(k) /\ Unrevised(k) /\ Added(k, p)
  <2>1. ASSUME NEW k \in Keys, k # Key(p) PROVE Stays(k) /\ Unrevised(k) /\ Added(k, p)
    BY <1>6, <2>1 DEF Stays, Unrevised, Added
  <2>2. Stays(Key(p)) /\ Unrevised(Key(p)) /\ Added(Key(p), p) BY <1>4, <1>6 DEF Stays, Unrevised, Added
  <2> QED BY <2>1, <2>2
<1> QED BY <1>4, <1>6, <1>7

\* A message that is rewritten in place, or deleted.
LEMMA Changes ==
  ASSUME Shapes, NEW k \in Keys, NEW i \in DOMAIN posted[k], NEW m,
         posted' = [posted EXCEPT ![k] = [posted[k] EXCEPT ![i] = m]]
  PROVE  /\ DOMAIN posted'[k] = DOMAIN posted[k] /\ posted'[k][i] = m
         /\ \A j \in DOMAIN posted[k] \ {i} : posted'[k][j] = posted[k][j]
         /\ \A l \in Keys \ {k} : posted'[l] = posted[l]
<1>1. posted[k] \in Seq(Messages) BY DEF Shapes, Kinds
<1>2. posted'[k] = [posted[k] EXCEPT ![i] = m] /\ \A l \in Keys \ {k} : posted'[l] = posted[l]
  BY DEF Shapes, Kinds
<1> QED BY <1>1, <1>2

LEMMA ShowsEdit ==
  ASSUME Shapes, NEW p \in Workers, Revise(p), StillThere(p),
         picked[p] \in DOMAIN posted[Key(p)]
  PROVE  /\ DOMAIN posted'[Key(p)] = DOMAIN posted[Key(p)]
         /\ posted'[Key(p)][picked[p]] = [posted[Key(p)][picked[p]] EXCEPT !.version = job[p][2]]
         /\ \A j \in DOMAIN posted[Key(p)] \ {picked[p]} :
               posted'[Key(p)][j] = posted[Key(p)][j]
         /\ \A l \in Keys \ {Key(p)} : posted'[l] = posted[l]
<1> DEFINE new == [posted[Key(p)][picked[p]] EXCEPT !.version = job[p][2]]
<1>1. Key(p) \in Keys BY DEF Revise, Shapes, Kinds, Deliverable, Key
<1>2. posted' = [posted EXCEPT ![Key(p)] = [posted[Key(p)] EXCEPT ![picked[p]] = new]] BY DEF Revise
<1> HIDE DEF new
<1>3. /\ DOMAIN posted'[Key(p)] = DOMAIN posted[Key(p)] /\ posted'[Key(p)][picked[p]] = new
      /\ \A j \in DOMAIN posted[Key(p)] \ {picked[p]} : posted'[Key(p)][j] = posted[Key(p)][j]
      /\ \A l \in Keys \ {Key(p)} : posted'[l] = posted[l]
  BY <1>1, <1>2, Changes
<1> QED BY <1>3 DEF new

LEMMA ShowsDeletion ==
  ASSUME Shapes, NEW k \in Keys, NEW i \in DOMAIN posted[k], DeleteMessage(k, i)
  PROVE  /\ \A l \in Keys : Stays(l) /\ Unrevised(l) /\ DOMAIN posted'[l] = DOMAIN posted[l]
<1> DEFINE new == [posted[k][i] EXCEPT !.thread = NULL]
<1>1. posted[k][i] \in Messages BY DEF Shapes, Kinds
<1>2. /\ new.heard = posted[k][i].heard /\ new.version = posted[k][i].version
      /\ new.thread = NULL BY <1>1 DEF Messages
<1>3. posted' = [posted EXCEPT ![k] = [posted[k] EXCEPT ![i] = new]] BY DEF DeleteMessage
<1> HIDE DEF new
<1>4. /\ DOMAIN posted'[k] = DOMAIN posted[k] /\ posted'[k][i] = new
      /\ \A j \in DOMAIN posted[k] \ {i} : posted'[k][j] = posted[k][j]
      /\ \A l \in Keys \ {k} : posted'[l] = posted[l] BY <1>3, Changes
<1> QED BY <1>2, <1>4 DEF Stays, Unrevised

\* Who is sure of a message rewrites one that is there.
MessagesInv == \A p \in Workers : pc[p] = "revise" => picked[p] \in DOMAIN posted[Key(p)]

LEMMA StaysDoing ==
  ASSUME Shapes, MessagesInv, NEW p \in Workers, Does(p)
  PROVE  /\ \A k \in Keys : Stays(k) /\ Added(k, p)
         /\ \A k \in Keys : Unrevised(k) \/ (Revise(p) /\ StillThere(p) /\ Key(p) = k)
<1>1. Post(p) \/ PostLost(p) \/ Revise(p) \/ posted' = posted
  BY WorksSync, WorksSay, WorksTrouble DEF Does, Shapes
<1>2. CASE posted' = posted BY <1>2 DEF Stays, Added, Unrevised
<1>3. ASSUME NEW heard \in BOOLEAN, pc[p] # "idle", Land(p, heard)
      PROVE  \A k \in Keys : Stays(k) /\ Unrevised(k) /\ Added(k, p)
  BY <1>3, Puts
<1>4. CASE Post(p) \/ PostLost(p) BY <1>2, <1>3, <1>4 DEF Post, PostLost
<1>5. ASSUME Revise(p), StillThere(p)
      PROVE  /\ \A k \in Keys : Stays(k) /\ Added(k, p)
             /\ \A k \in Keys \ {Key(p)} : Unrevised(k)
  <2>1. Key(p) \in Keys /\ picked[p] \in DOMAIN posted[Key(p)]
    BY <1>5 DEF Revise, MessagesInv, Shapes, Kinds, Deliverable, Key
  <2> DEFINE old == posted[Key(p)][picked[p]]
             new == [old EXCEPT !.version = job[p][2]]
  <2>2. old \in Messages BY <2>1 DEF Shapes, Kinds
  <2>3. new.heard = old.heard /\ new.thread = old.thread BY <2>2 DEF Messages
  <2>4. /\ DOMAIN posted'[Key(p)] = DOMAIN posted[Key(p)] /\ posted'[Key(p)][picked[p]] = new
        /\ \A j \in DOMAIN posted[Key(p)] \ {picked[p]} : posted'[Key(p)][j] = posted[Key(p)][j]
        /\ \A l \in Keys \ {Key(p)} : posted'[l] = posted[l]
    BY <1>5, <2>1, ShowsEdit
  <2> HIDE DEF new, old
  <2>5. Stays(Key(p)) /\ Added(Key(p), p) BY <2>3, <2>4 DEF Stays, Added, old
  <2>6. \A k \in Keys \ {Key(p)} : Stays(k) /\ Unrevised(k) /\ Added(k, p) BY <2>4 DEF Stays, Unrevised, Added
  <2> QED BY <2>5, <2>6
<1>6. CASE Revise(p) /\ ~StillThere(p)
  <2>1. posted' = posted BY <1>6 DEF Revise
  <2> QED BY <1>2, <2>1
<1> QED BY <1>1, <1>2, <1>3, <1>4, <1>5, <1>6

\* Taking up a delivery that is owed, or one another worker has too.
TakesIt(p, d) ==
    /\ d \in owed /\ d \in Deliverable /\ pc[p] = "idle"
    /\ job'[p] = d /\ Key(p)' = d[1]
    /\ pc'[p] = IF d[1] \in Flips THEN "sync" ELSE "locate"
    /\ \A q \in Workers \ {p} : pc'[q] = pc[q] /\ job'[q] = job[q] /\ Key(q)' = Key(q)
    /\ UNCHANGED <<github, row, claims, lock, discord, thread, picked>>
    /\ excuses \subseteq excuses'
    /\ (\A q \in Workers : job[q] # d) \/ Overlap(d[1])'

LEMMA TakesSo ==
  ASSUME Shapes, NEW p \in Workers, Takes(p) PROVE \E d \in owed : TakesIt(p, d)
<1>1. PICK d \in Deliveries : Deliver(p, d) \/ DeliverAgain(p, d) BY DEF Takes
<1>2. /\ d \in owed /\ pc[p] = "idle" /\ job' = [job EXCEPT ![p] = d]
      /\ pc' = [pc EXCEPT ![p] = IF d[1] \in Flips THEN "sync" ELSE "locate"]
      /\ UNCHANGED <<github, row, claims, lock, discord, thread, picked>>
  BY <1>1 DEF Deliver, DeliverAgain, Begin, Goto
<1>3. /\ excuses \subseteq excuses'
      /\ (\A q \in Workers : job[q] # d) \/ Overlap(d[1])'
  BY <1>1 DEF Deliver, DeliverAgain, Excuse, Overlap, book
<1> QED BY <1>2, <1>3 DEF TakesIt, Key, Shapes, Kinds

LEMMA CarriedIsANumber ==
  ASSUME Shapes, NEW p \in Workers, pc[p] # "idle" PROVE Carried(p) \in Nat
<1>1. CASE IsLine(p) BY <1>1, NotesAssumption DEF Carried, Key, IsLine, Flips
<1>2. CASE ~IsLine(p)
  <2>1. IsFiniteSet(Flips) BY FS_Interval, NotesAssumption DEF Flips
  <2>2. IsFiniteSet({n \in Flips : version[n] = 1}) BY <2>1, FS_Subset
  <2> QED BY <1>2, <2>2, FS_CardinalityType DEF Carried
<1> QED BY <1>1, <1>2

Shaped ==
    /\ message' \in [Keys -> Nat] /\ claimed' \subseteq Keys
    /\ shut' \in [Threads -> BOOLEAN] /\ note' \in Moods /\ stored' \in Nat

LEMMA ShapedSync == ASSUME Shapes, NEW p \in Workers, Sync(p) PROVE Shaped
<1> USE DEF Shapes, Shaped, Moods, row, claims, discord
<1>1. CASE Record(p)
  <2>1. Carried(p) \in Nat BY <1>1, CarriedIsANumber DEF Record
  <2> QED BY <1>1, <2>1 DEF Record
<1>2. CASE TurnAway(p) \/ Write(p) \/ (\E t \in Threads : Open(p, t)) BY <1>2 DEF TurnAway, Write, Open
<1>3. CASE SetLock(p) \/ NoteLock(p) BY <1>3 DEF SetLock, NoteLock
<1> QED BY <1>1, <1>2, <1>3 DEF Sync

LEMMA ShapedSay == ASSUME Shapes, NEW p \in Workers, Say(p) PROVE Shaped
<1> USE DEF Shapes, Shaped, Moods, row, claims, discord
<1>0. Key(p) \in Keys BY DoesAlone DEF Does
<1>1. CASE Look(p) \/ Locate(p) \/ Claim(p) BY <1>0, <1>1 DEF Look, Locate, Claim
<1>2. CASE Post(p) \/ PostGone(p) \/ ForgetThread(p)
  BY <1>2 DEF Post, Land, Wake, PostGone, ForgetThread, Forget
<1>3. CASE HandBack(p) \/ Remember(p) BY <1>3 DEF HandBack, Release, Remember
<1>4. CASE ReadMessage(p) \/ Revise(p) \/ ReviseGone(p) BY <1>4 DEF ReadMessage, Revise, Wake, ReviseGone
<1>5. CASE Again(p) \/ ShutAgain(p) BY <1>5 DEF Again, ShutAgain
<1> QED BY <1>1, <1>2, <1>3, <1>4, <1>5 DEF Say

LEMMA ShapedTrouble == ASSUME Shapes, NEW p \in Workers, Trouble(p), ~Takes(p) PROVE Shaped
<1> USE DEF Shapes, Shaped, Moods, row, claims, discord
<1>0. Key(p) \in Keys BY DoesAlone DEF Does
<1>1. CASE Busy(p) \/ LockRefused(p) \/ ClaimLost(p) BY <1>0, <1>1 DEF Busy, LockRefused, ClaimLost
<1>2. CASE PostLost(p) \/ PostRefused(p) BY <1>2 DEF PostLost, Land, Wake, PostRefused
<1>3. CASE HandBackFails(p) \/ ReviseFails(p) BY <1>3 DEF HandBackFails, ReviseFails, Wake
<1>4. CASE ShutAgainRefused(p) \/ Abort(p) BY <1>4 DEF ShutAgainRefused, Abort
<1> QED BY <1>1, <1>2, <1>3, <1>4 DEF Trouble, Takes

LEMMA ShapesNext == ASSUME Shapes, [Next]_vars PROVE Shapes'
<1>1. Kinds' BY KindsNext DEF Shapes
<1>2. ASSUME NEW p \in Workers, Does(p) PROVE Shapes'
  <2>1. Shaped BY <1>2, ShapedSync, ShapedSay, ShapedTrouble DEF Does
  <2>2. Picks(p) BY <1>2, PicksOne
  <2> QED BY <1>1, <2>1, <2>2 DEF Shaped, Picks, Shapes
<1>3. ASSUME NEW p \in Workers, Takes(p) PROVE Shapes'
  <2>1. UNCHANGED <<row, claims, discord, picked>> BY <1>3, TakesSo DEF TakesIt
  <2> QED BY <1>1, <2>1 DEF Shapes, row, claims, discord
<1>4. CASE Environment
  BY <1>1, <1>4 DEF Environment, Arrive, DeleteMessage, Delete, Report, Forget, Toggle, Shapes, Moods, row,
    claims, discord, local
<1>5. CASE UNCHANGED vars BY <1>1, <1>5 DEF Shapes, vars, row, claims, discord, local
<1> QED BY <1>2, <1>3, <1>4, <1>5 DEF Next, Does, Takes

----
\* The thread of the row.  A worker's thread is the row's, or is gone; and
\* what was posted stands in it, or is gone too.

\* Every thread a worker read or wrote to is the row's, or is gone.
InTheRowsThread ==
    /\ \A p \in Workers : thread[p] \in live => thread[p] = pointer
    /\ \A k \in Keys : \A i \in DOMAIN posted[k] :
          /\ posted[k][i].thread \in used \cup {NULL}
          /\ posted[k][i].thread \in live => posted[k][i].thread = pointer

\* The row keeps the thread that is there, and none is there but the row's; or
\* a new one is opened and attached.
Steady == live' \subseteq live /\ used' = used /\ pointer' \in {pointer, NULL}
                               /\ (pointer \in live => pointer' = pointer)
Opens  == \E p \in Workers, t \in Threads : Open(p, t)

Reads(p) == thread'[p] \in {thread[p], pointer, pointer', NULL}

LEMMA SteadySync ==
  ASSUME Shapes, PointerInv, NEW p \in Workers, Sync(p) PROVE Reads(p) /\ (Steady \/ Opens)
<1> USE DEF Shapes, Kinds, Reads, Steady, row, discord, local
<1>0. ASSUME NEW t, NEW open, Synced(p, t, open) PROVE thread'[p] \in {t, NULL}
  BY <1>0 DEF Synced, Raise, Rest
<1>1. CASE Record(p) \/ Write(p) BY <1>1 DEF Record, Write
<1>2. CASE TurnAway(p) \/ NoteLock(p) BY <1>0, <1>2 DEF TurnAway, NoteLock
<1>3. CASE SetLock(p) BY <1>3 DEF SetLock, Raise, Rest
<1>4. ASSUME NEW t \in Threads, Open(p, t) PROVE Reads(p) /\ (Steady \/ Opens) BY <1>0, <1>4 DEF Open, Opens
<1> QED BY <1>1, <1>2, <1>3, <1>4 DEF Sync

LEMMA SteadySay ==
  ASSUME Shapes, PointerInv, NEW p \in Workers, Say(p) PROVE Reads(p) /\ Steady
<1> USE DEF Shapes, Kinds, Reads, Steady, Finish, Raise, Rest, row, discord, local
<1>1. CASE Look(p) \/ Locate(p) \/ Claim(p) BY <1>1 DEF Look, Locate, Claim
<1>2. CASE Post(p) \/ PostGone(p) \/ HandBack(p) BY <1>2 DEF Post, PostGone, HandBack, OnwardFrom
<1>3. CASE ForgetThread(p) BY <1>3 DEF ForgetThread, Forget, Names, PointerInv
<1>4. CASE Remember(p) \/ ReadMessage(p) \/ Revise(p) \/ ReviseGone(p)
  BY <1>4 DEF Remember, ReadMessage, Revise, ReviseGone
<1>5. CASE Again(p) \/ ShutAgain(p) BY <1>5 DEF Again, ShutAgain
<1> QED BY <1>1, <1>2, <1>3, <1>4, <1>5 DEF Say

LEMMA SteadyTrouble ==
  ASSUME Shapes, PointerInv, NEW p \in Workers, Trouble(p), ~Takes(p) PROVE Reads(p) /\ Steady
<1> USE DEF Shapes, Kinds, Reads, Steady, Finish, Raise, Rest, row, discord, local
<1>1. CASE Busy(p) \/ LockRefused(p) \/ ClaimLost(p) BY <1>1 DEF Busy, LockRefused, Synced, ClaimLost
<1>2. CASE PostLost(p) \/ PostRefused(p) BY <1>2 DEF PostLost, PostRefused
<1>3. CASE HandBackFails(p) \/ ReviseFails(p) \/ ShutAgainRefused(p) \/ Abort(p)
  BY <1>3 DEF HandBackFails, OnwardFrom, ReviseFails, ShutAgainRefused, Abort
<1> QED BY <1>1, <1>2, <1>3 DEF Trouble, Takes

LEMMA SteadyDoes ==
  ASSUME Shapes, PointerInv, NEW p \in Workers, Does(p) PROVE Reads(p) /\ (Steady \/ Opens)
BY SteadySync, SteadySay, SteadyTrouble DEF Does

LEMMA OpensSo ==
  ASSUME Shapes, PointerInv, Opens
  PROVE  /\ pointer \notin live /\ pointer' \in Threads \ used /\ used' = used \cup {pointer'}
         /\ live' = live \cup {pointer'} /\ note' = "unknown"
BY NotesAssumption DEF Opens, Open, PointerInv, Locked

LEMMA SteadyOutside ==
  ASSUME Shapes, PointerInv, Environment \/ (\E p \in Workers : Takes(p)) \/ UNCHANGED vars
  PROVE  Steady /\ thread' = thread
<1>1. CASE Environment
  BY <1>1 DEF Environment, Arrive, DeleteMessage, Delete, Report, Forget, Names, Toggle, Steady, row, discord,
    local
<1>2. ASSUME NEW p \in Workers, Takes(p) PROVE Steady /\ thread' = thread
  BY <1>2, TakesSo DEF TakesIt, Steady, row, discord
<1>3. CASE UNCHANGED vars BY <1>3 DEF vars, Steady, row, discord, local
<1> QED BY <1>1, <1>2, <1>3

\* A thread that is the row's or gone is so after the step.
LEMMA RowsOrGone ==
  ASSUME Shapes, PointerInv, Steady \/ Opens, NEW t \in used \cup {NULL},
         t \in live => t = pointer
  PROVE  t \in used' \cup {NULL} /\ (t \in live' => t = pointer')
<1>0. NULL \notin live /\ NULL \notin used BY NotesAssumption DEF PointerInv
<1>1. CASE Steady BY <1>0, <1>1 DEF Steady
<1>2. CASE Opens BY <1>0, <1>2, OpensSo
<1> QED BY <1>1, <1>2

LEMMA RowsThreadNext ==
  ASSUME Shapes, PointerInv, MessagesInv, InTheRowsThread, [Next]_vars PROVE InTheRowsThread'
<1>1. ASSUME NEW p \in Workers, Does(p) PROVE InTheRowsThread'
  <2>1. Reads(p) /\ (Steady \/ Opens) BY <1>1, SteadyDoes
  <2>2. \A q \in Workers : thread[q] \in used \cup {NULL} /\ (thread[q] \in live => thread[q] = pointer)
    BY DEF PointerInv, InTheRowsThread
  <2>3. NULL \notin live' /\ pointer' \in used' \cup {NULL}
    BY <1>1, PointerNext, NotesAssumption DEF Shapes, PointerInv, Next, Does, Takes
  <2>4. ASSUME NEW q \in Workers, thread'[q] \in live' PROVE thread'[q] = pointer'
    <3>1. CASE thread'[q] = thread[q] BY <2>1, <2>2, <2>4, <3>1, RowsOrGone
    <3>2. CASE thread'[q] # thread[q]
      <4>1. thread'[q] \in {pointer, pointer', NULL} BY <1>1, <2>1, <3>2, DoesAlone DEF Alone, Reads
      <4>2. pointer \in live' => pointer = pointer' BY <2>1, RowsOrGone DEF PointerInv
      <4> QED BY <2>3, <2>4, <4>1, <4>2
    <3> QED BY <3>1, <3>2
  <2>5. ASSUME NEW k \in Keys, NEW i \in DOMAIN posted'[k]
        PROVE  /\ posted'[k][i].thread \in used' \cup {NULL}
               /\ posted'[k][i].thread \in live' => posted'[k][i].thread = pointer'
    <3>1. Stays(k) /\ Added(k, p) BY <1>1, StaysDoing
    <3>2. CASE i \in DOMAIN posted[k]
      <4>1. posted[k][i].thread \in used \cup {NULL}
            /\ (posted[k][i].thread \in live => posted[k][i].thread = pointer)
        BY <3>2 DEF InTheRowsThread
      <4>2. posted[k][i].thread \in used' \cup {NULL}
            /\ (posted[k][i].thread \in live' => posted[k][i].thread = pointer')
        BY <2>1, <4>1, RowsOrGone
      <4>3. posted'[k][i].thread \in {posted[k][i].thread, NULL} BY <3>1, <3>2 DEF Stays
      <4> QED BY <2>3, <4>2, <4>3
    <3>3. CASE i \notin DOMAIN posted[k]
      <4>1. posted'[k][i].thread = thread[p] BY <3>1, <3>3 DEF Added
      <4> QED BY <2>1, <2>2, <4>1, RowsOrGone
    <3> QED BY <3>2, <3>3
  <2> QED BY <2>4, <2>5 DEF InTheRowsThread
<1>2. ASSUME Steady, thread' = thread, \A k \in Keys : Stays(k) /\ DOMAIN posted'[k] = DOMAIN posted[k]
      PROVE  InTheRowsThread'
  <2>1. NULL \notin live' /\ NULL \notin live BY <1>2, NotesAssumption DEF PointerInv, Steady
  <2>2. \A q \in Workers : thread'[q] \in live' => thread'[q] = pointer'
    BY <1>2, RowsOrGone DEF PointerInv, InTheRowsThread
  <2>3. ASSUME NEW k \in Keys, NEW i \in DOMAIN posted'[k]
        PROVE  /\ posted'[k][i].thread \in used' \cup {NULL}
               /\ posted'[k][i].thread \in live' => posted'[k][i].thread = pointer'
    <3>1. posted[k][i].thread \in used \cup {NULL}
          /\ (posted[k][i].thread \in live => posted[k][i].thread = pointer)
      BY <1>2, <2>3 DEF InTheRowsThread
    <3>2. posted[k][i].thread \in used' \cup {NULL}
          /\ (posted[k][i].thread \in live' => posted[k][i].thread = pointer')
      BY <1>2, <3>1, RowsOrGone
    <3>3. posted'[k][i].thread \in {posted[k][i].thread, NULL} BY <1>2, <2>3 DEF Stays
    <3> QED BY <2>1, <3>2, <3>3
  <2> QED BY <2>2, <2>3 DEF InTheRowsThread
<1>3. ASSUME Environment \/ (\E p \in Workers : Takes(p)) \/ UNCHANGED vars PROVE InTheRowsThread'
  <2>1. Steady /\ thread' = thread BY <1>3, SteadyOutside
  <2>2. posted' = posted \/ (\E k \in Keys, i \in Nat : i \in DOMAIN posted[k] /\ DeleteMessage(k, i))
    <3>1. CASE Environment BY <3>1 DEF Environment, Arrive, Delete, Report, Toggle, Shapes, Kinds, discord
    <3>2. ASSUME NEW p \in Workers, Takes(p) PROVE posted' = posted BY <3>2, TakesSo DEF TakesIt, discord
    <3>3. CASE UNCHANGED vars BY <3>3 DEF vars, discord
    <3> QED BY <1>3, <3>1, <3>2, <3>3
  <2>3. \A k \in Keys : Stays(k) /\ DOMAIN posted'[k] = DOMAIN posted[k]
    <3>1. CASE posted' = posted BY <3>1 DEF Stays
    <3>2. ASSUME NEW k \in Keys, NEW i \in DOMAIN posted[k], DeleteMessage(k, i)
          PROVE  \A l \in Keys : Stays(l) /\ DOMAIN posted'[l] = DOMAIN posted[l]
      BY <3>2, ShowsDeletion
    <3> QED BY <2>2, <3>1, <3>2
  <2> QED BY <1>2, <2>1, <2>3
<1> QED BY <1>1, <1>3 DEF Next, Does, Takes

----
\* Nothing is in hand or said that GitHub has not sent.

SentInv ==
    /\ \A d \in owed : d[2] <= version[d[1]]
    /\ \A p \in Workers : pc[p] # "idle" => job[p][2] <= version[Key(p)]
    /\ \A k \in Keys : \A i \in DOMAIN posted[k] : posted[k][i].version \in 1 .. version[k]

\* What does not start or say anything, whatever arrives beside it.
LEMMA SentOutside ==
  ASSUME Shapes, SentInv, UNCHANGED <<pc, job>>,
         \A k \in Keys : version'[k] \in Nat /\ version[k] <= version'[k],
         \A d \in owed' : d \in owed \/ d[2] <= version'[d[1]],
         \A k \in Keys : Unrevised(k) /\ DOMAIN posted'[k] = DOMAIN posted[k]
  PROVE  SentInv'
<1>1. \A d \in owed' : d[2] <= version'[d[1]] BY DEF Shapes, Kinds, Deliverable, SentInv
<1>2. ASSUME NEW p \in Workers, pc'[p] # "idle" PROVE job'[p][2] <= version'[Key(p)']
  <2>1. job[p] \in Deliverable /\ Key(p)' = Key(p) /\ job[p][2] <= version[Key(p)]
    BY <1>2 DEF Shapes, Kinds, SentInv, Key
  <2>2. job[p][2] \in Nat /\ Key(p) \in Keys /\ version[Key(p)] \in Nat
    BY <2>1 DEF Deliverable, Key, Shapes, Kinds
  <2>3. version'[Key(p)] \in Nat /\ version[Key(p)] <= version'[Key(p)] BY <2>2
  <2> QED BY <2>1, <2>2, <2>3
<1>3. ASSUME NEW k \in Keys, NEW i \in DOMAIN posted'[k] PROVE posted'[k][i].version \in 1 .. version'[k]
  <2>1. posted'[k][i].version = posted[k][i].version /\ posted[k][i].version \in 1 .. version[k]
    BY <1>3 DEF Unrevised, SentInv
  <2>2. version[k] \in Nat BY DEF Shapes, Kinds
  <2> QED BY <2>1, <2>2
<1> QED BY <1>1, <1>2, <1>3 DEF SentInv

LEMMA SentDoes ==
  ASSUME Shapes, MessagesInv, SentInv, NEW p \in Workers, Does(p) PROVE SentInv'
<1>1. Alone(p) /\ Key(p) \in Keys /\ job[p] \in Deliverable BY DoesAlone
<1>2. job[p][2] \in Nat \ {0} /\ job[p][2] <= version[Key(p)] /\ version[Key(p)] \in Nat
  BY <1>1 DEF Alone, SentInv, Shapes, Kinds, Deliverable
<1>3. job[p][2] \in 1 .. version[Key(p)] BY <1>2
<1>4. \A d \in owed' : d[2] <= version'[d[1]] BY <1>1 DEF Alone, SentInv
<1>5. \A q \in Workers : pc'[q] # "idle" => job'[q][2] <= version'[Key(q)'] BY <1>1, <1>2 DEF Alone, SentInv
<1>6. ASSUME NEW k \in Keys, NEW i \in DOMAIN posted'[k] PROVE posted'[k][i].version \in 1 .. version'[k]
  <2>1. Stays(k) /\ Added(k, p) /\ version' = version BY <1>1, StaysDoing DEF Alone
  <2>2. CASE i \notin DOMAIN posted[k] BY <1>3, <2>1, <2>2 DEF Added
  <2>3. CASE i \in DOMAIN posted[k] /\ Unrevised(k) BY <2>1, <2>3 DEF Unrevised, SentInv
  <2>4. CASE i \in DOMAIN posted[k] /\ ~Unrevised(k)
    <3>1. Revise(p) /\ StillThere(p) /\ Key(p) = k /\ picked[p] \in DOMAIN posted[k]
      BY <2>4, StaysDoing DEF MessagesInv, Revise
    <3>2. posted[k][picked[p]] \in Messages BY <3>1 DEF Shapes, Kinds
    <3>3. [posted[k][picked[p]] EXCEPT !.version = job[p][2]].version = job[p][2] BY <3>2 DEF Messages
    <3>4. /\ posted'[k][picked[p]] = [posted[k][picked[p]] EXCEPT !.version = job[p][2]]
          /\ \A j \in DOMAIN posted[k] \ {picked[p]} : posted'[k][j] = posted[k][j]
      BY <3>1, ShowsEdit
    <3>5. CASE i = picked[p] BY <1>3, <2>1, <3>1, <3>3, <3>4, <3>5
    <3>6. CASE i # picked[p] BY <2>1, <2>4, <3>4, <3>6 DEF SentInv
    <3> QED BY <3>5, <3>6
  <2> QED BY <2>2, <2>3, <2>4
<1> QED BY <1>4, <1>5, <1>6 DEF SentInv

LEMMA SentNext == ASSUME Shapes, MessagesInv, SentInv, [Next]_vars PROVE SentInv'
<1>0. ASSUME posted' = posted PROVE \A k \in Keys : Unrevised(k) /\ DOMAIN posted'[k] = DOMAIN posted[k]
  BY <1>0 DEF Unrevised
<1>1. ASSUME NEW k \in Keys, Arrive(k) PROVE SentInv'
  <2>1. /\ version' = [version EXCEPT ![k] = @ + 1] /\ owed' = owed \cup {<<k, version[k] + 1>>}
        /\ UNCHANGED <<pc, job, posted>> BY <1>1 DEF Arrive, discord, local
  <2>2. \A j \in Keys : version'[j] \in Nat /\ version[j] <= version'[j] BY <2>1 DEF Shapes, Kinds
  <2>3. \A d \in owed' : d \in owed \/ d[2] <= version'[d[1]] BY <2>1 DEF Shapes, Kinds
  <2> QED BY <1>0, <2>1, <2>2, <2>3, SentOutside
<1>2. ASSUME UNCHANGED <<pc, job, version, owed>>,
             \A k \in Keys : Unrevised(k) /\ DOMAIN posted'[k] = DOMAIN posted[k]
      PROVE  SentInv' BY <1>2, SentOutside DEF Shapes, Kinds
<1>3. ASSUME NEW k \in Keys, NEW i \in DOMAIN posted[k], DeleteMessage(k, i) PROVE SentInv'
  BY <1>2, <1>3, ShowsDeletion DEF DeleteMessage, github, local
<1>4. ASSUME NEW t \in Threads, Delete(t) \/ Report(t) PROVE SentInv'
  BY <1>0, <1>2, <1>4 DEF Delete, Report, github, local, discord
<1>5. CASE Toggle \/ UNCHANGED vars BY <1>0, <1>2, <1>5 DEF Toggle, vars, github, local, discord
<1>6. ASSUME NEW p \in Workers, Takes(p) PROVE SentInv'
  <2>1. PICK d \in owed : TakesIt(p, d) BY <1>6, TakesSo
  <2>2. \A q \in Workers : pc'[q] # "idle" => job'[q][2] <= version[Key(q)'] BY <2>1 DEF TakesIt, SentInv
  <2> QED BY <2>1, <2>2 DEF TakesIt, SentInv, github, discord
<1> QED BY <1>1, <1>3, <1>4, <1>5, <1>6, SentDoes DEF Next, Environment, Does, Takes

----
\* What is remembered.  Whoever goes on after a message is there knows
\* that it is; and the row remembers only what is known to have been said.

Remembered(k) == message[k] \in DOMAIN posted[k] /\ Known(posted[k])

SaidOf(p) ==
    /\ pc[p] \in AfterPost => Known(posted[Key(p)])
    /\ pc[p] \in {"read_message", "revise"} => IsEdit(p)
    /\ pc[p] \in {"again", "shut_again"} /\ ~IsLine(p) => message[Key(p)] # 0
    /\ pc[p] = "revise" => picked[p] = message[Key(p)] /\ message[Key(p)] # 0
    /\ pc[p] = "remember" =>
          /\ message[Key(p)] = 0 /\ ~IsLine(p)
          /\ picked[p] \in DOMAIN posted[Key(p)]
          /\ posted[Key(p)][picked[p]].version = job[p][2]

SaidInv ==
    /\ \A k \in Keys : message[k] # 0 => Remembered(k)
    /\ \A p \in Workers : SaidOf(p)
    /\ \A p, q \in Workers :
          pc[p] = "remember" /\ pc[q] = "remember" /\ Key(p) = Key(q) => p = q

LEMMA SaidMessages == ASSUME Shapes, SaidInv PROVE MessagesInv
BY DEF SaidInv, SaidOf, MessagesInv, Remembered, Shapes, Kinds, Deliverable, Key

\* How a worker comes to the places after a message.
Comes(p) ==
    /\ pc'[p] = "remember" => Post(p) /\ ~IsLine(p)
    /\ pc'[p] = "again" => \/ Post(p) /\ IsLine(p)
                           \/ Remember(p)
                           \/ Revise(p) /\ StillThere(p)
    /\ pc'[p] = "shut_again" => Again(p) /\ note = "shut"
    /\ pc'[p] = "read_message" => Claim(p) /\ IsEdit(p)
    /\ pc'[p] = "revise" => ReadMessage(p) /\ message[Key(p)] # 0 /\ picked'[p] = message[Key(p)]

LEMMA ComesSync == ASSUME Shapes, NEW p \in Workers, Sync(p) PROVE Comes(p)
<1> USE DEF Shapes, Kinds, Comes, Goto
<1>0. ASSUME NEW t, NEW open, Synced(p, t, open) PROVE pc'[p] \in {"look", "idle"}
  BY <1>0 DEF Synced, Raise, Rest
<1>1. CASE Record(p) \/ Write(p) BY <1>1 DEF Record, Write
<1>2. CASE TurnAway(p) \/ NoteLock(p) BY <1>0, <1>2 DEF TurnAway, NoteLock
<1>3. CASE SetLock(p) BY <1>3 DEF SetLock, Raise, Rest
<1>4. ASSUME NEW t \in Threads, Open(p, t) PROVE Comes(p) BY <1>0, <1>4 DEF Open
<1> QED BY <1>1, <1>2, <1>3, <1>4 DEF Sync

LEMMA ComesSay == ASSUME Shapes, NEW p \in Workers, Say(p) PROVE Comes(p)
<1> USE DEF Shapes, Kinds, Comes, Goto, Finish, Raise, Rest
<1>1. CASE Look(p) \/ Locate(p) BY <1>1 DEF Look, Locate
<1>2. CASE Claim(p) BY <1>2 DEF Claim
<1>3. CASE Post(p) BY <1>3 DEF Post
<1>4. CASE PostGone(p) \/ HandBack(p) \/ ForgetThread(p)
  BY <1>4 DEF PostGone, HandBack, OnwardFrom, ForgetThread
<1>5. CASE Remember(p) BY <1>5 DEF Remember
<1>6. CASE ReadMessage(p) BY <1>6 DEF ReadMessage
<1>7. CASE Revise(p) \/ ReviseGone(p) BY <1>7 DEF Revise, ReviseGone
<1>8. CASE Again(p) \/ ShutAgain(p) BY <1>8 DEF Again, ShutAgain, RowSaysShut
<1> QED BY <1>1, <1>2, <1>3, <1>4, <1>5, <1>6, <1>7, <1>8 DEF Say

LEMMA ComesTrouble == ASSUME Shapes, NEW p \in Workers, Trouble(p), ~Takes(p) PROVE Comes(p)
<1> USE DEF Shapes, Kinds, Comes, Goto, Finish, Raise, Rest
<1>1. CASE Busy(p) \/ LockRefused(p) \/ ClaimLost(p) BY <1>1 DEF Busy, LockRefused, Synced, ClaimLost
<1>2. CASE PostLost(p) \/ PostRefused(p) BY <1>2 DEF PostLost, PostRefused
<1>3. CASE HandBackFails(p) \/ ReviseFails(p) \/ ShutAgainRefused(p) \/ Abort(p)
  BY <1>3 DEF HandBackFails, OnwardFrom, ReviseFails, ShutAgainRefused, Abort
<1> QED BY <1>1, <1>2, <1>3 DEF Trouble, Takes

LEMMA ComesSo == ASSUME Shapes, NEW p \in Workers, Does(p) PROVE Comes(p)
BY ComesSync, ComesSay, ComesTrouble DEF Does

\* What the row remembers is given up by a holder, or put there by who posted.
Recalls(p) ==
    \A k \in Keys : \/ message'[k] = message[k]
                    \/ k = Key(p) /\ pc[p] \in Holding /\ message'[k] = 0
                    \/ k = Key(p) /\ pc[p] = "remember" /\ k \in claimed /\ message'[k] = picked[p]

LEMMA RecallsSo == ASSUME Shapes, NEW p \in Workers, Does(p) PROVE Recalls(p)
<1>1. ASSUME message' = message PROVE Recalls(p) BY <1>1 DEF Recalls
<1>2. CASE Sync(p) BY <1>1, <1>2 DEF Sync, Record, TurnAway, Write, Open, SetLock, NoteLock, claims
<1>3. CASE HandBack(p) BY <1>3 DEF HandBack, Holding, Recalls, Shapes
<1>4. CASE Remember(p) BY <1>4 DEF Remember, Recalls, Shapes
<1>5. CASE Say(p) BY <1>1, <1>3, <1>4, <1>5
     DEF Say, Look, Locate, Claim, Post, PostGone, ForgetThread, ReadMessage, Revise, ReviseGone,
         Again, ShutAgain, claims
<1>6. CASE Trouble(p) /\ ~Takes(p) BY <1>1, <1>6
     DEF Trouble, Takes, Busy, LockRefused, ClaimLost, PostLost, PostRefused, HandBackFails,
         ReviseFails, ShutAgainRefused, Abort, claims
<1> QED BY <1>2, <1>5, <1>6 DEF Does

LEMMA KnownStays == ASSUME NEW k, Stays(k), Known(posted[k]) PROVE Known(posted'[k])
BY DEF Stays, Known

\* A holder knows of no message, and remembers none.
LEMMA HoldersRememberNone ==
  ASSUME Shapes, HolderInv, SaidInv, NEW p \in Workers, pc[p] \in Holding
  PROVE  message[Key(p)] = 0 /\ ~Known(posted[Key(p)]) /\ Key(p) \in claimed
BY DEF HolderInv, SaidInv, Remembered, Shapes, Kinds, Deliverable, Key, Holding, HandingBack

\* What the others go by is not disturbed.
LEMMA SaidOfOthers ==
  ASSUME Shapes, HolderInv, SaidInv, NEW p \in Workers, Does(p), NEW q \in Workers, q # p PROVE SaidOf(q)'
<1>1. Alone(p) /\ Recalls(p) /\ Key(p) \in Keys BY DoesAlone, RecallsSo
<1>2. /\ pc'[q] = pc[q] /\ job'[q] = job[q] /\ Key(q)' = Key(q) /\ picked'[q] = picked[q]
      /\ IsLine(q)' = IsLine(q) /\ IsEdit(q)' = IsEdit(q)
  BY <1>1 DEF Alone, IsLine, IsEdit
<1>3. SUFFICES ASSUME pc[q] # "idle" PROVE SaidOf(q)' BY <1>2 DEF SaidOf, AfterPost
<1>4. Key(q) \in Keys BY <1>3 DEF Shapes, Kinds, Deliverable, Key
<1>5. Stays(Key(q)) /\ (Unrevised(Key(q)) \/ (Revise(p) /\ Key(p) = Key(q))) BY <1>4, StaysDoing, SaidMessages
<1>6. pc[q] \in AfterPost => Known(posted[Key(q)]) /\ Known(posted'[Key(q)])
  BY <1>5, KnownStays DEF SaidInv, SaidOf
<1>7. pc[p] \in Holding /\ Key(p) = Key(q) => pc[q] \notin AfterPost BY <1>6, HoldersRememberNone
<1>8. pc[p] = "remember" => picked[p] # 0 /\ message[Key(p)] = 0
  <2>1. pc[p] = "remember" => picked[p] \in DOMAIN posted[Key(p)] /\ message[Key(p)] = 0
    BY DEF SaidInv, SaidOf
  <2>2. posted[Key(p)] \in Seq(Messages) BY <1>1 DEF Shapes, Kinds
  <2> QED BY <2>1, <2>2
<1>9. pc[q] \in {"again", "shut_again"} /\ ~IsLine(q) => message'[Key(q)] # 0
  BY <1>1, <1>4, <1>7, <1>8 DEF SaidInv, SaidOf, Recalls, AfterPost
<1>10. pc[q] = "revise" => picked[q] = message'[Key(q)] /\ message'[Key(q)] # 0
  BY <1>1, <1>4, <1>7, <1>8 DEF SaidInv, SaidOf, Recalls, AfterPost
<1>11. ASSUME pc[q] = "remember"
       PROVE  /\ message'[Key(q)] = 0 /\ picked[q] \in DOMAIN posted'[Key(q)]
              /\ posted'[Key(q)][picked[q]].version = job[q][2]
  <2>1. /\ message[Key(q)] = 0 /\ picked[q] \in DOMAIN posted[Key(q)]
        /\ posted[Key(q)][picked[q]].version = job[q][2]
    BY <1>11 DEF SaidInv, SaidOf
  <2>2. message'[Key(q)] = 0 BY <1>1, <1>4, <1>11, <2>1 DEF Recalls, SaidInv
  <2>3. Unrevised(Key(q)) BY <1>5, <2>1 DEF SaidInv, SaidOf, Revise
  <2> QED BY <1>5, <2>1, <2>2, <2>3 DEF Stays, Unrevised
<1>12. pc[q] \in {"read_message", "revise"} => IsEdit(q) BY DEF SaidInv, SaidOf
<1>13. pc[q] = "remember" => ~IsLine(q) BY DEF SaidInv, SaidOf
<1> QED BY <1>2, <1>6, <1>9, <1>10, <1>11, <1>12, <1>13 DEF SaidOf

LEMMA SaidOfOwn ==
  ASSUME Shapes, HolderInv, SaidInv, NEW p \in Workers, Does(p) PROVE SaidOf(p)'
<1>1. Alone(p) /\ Recalls(p) /\ Comes(p) /\ Key(p) \in Keys BY DoesAlone, RecallsSo, ComesSo
<1>2. SUFFICES ASSUME pc'[p] # "idle" PROVE SaidOf(p)' BY DEF SaidOf, AfterPost
<1>3. /\ job'[p] = job[p] /\ Key(p)' = Key(p) /\ IsLine(p)' = IsLine(p) /\ IsEdit(p)' = IsEdit(p)
  BY <1>1, <1>2 DEF Alone, IsLine, IsEdit
<1>4. Stays(Key(p)) /\ posted[Key(p)] \in Seq(Messages) BY <1>1, StaysDoing, SaidMessages DEF Shapes, Kinds
<1>5. Known(posted[Key(p)]) => Known(posted'[Key(p)]) BY <1>4, KnownStays
<1>6. ASSUME Post(p)
      PROVE  /\ Known(posted'[Key(p)]) /\ picked'[p] \in DOMAIN posted'[Key(p)]
             /\ posted'[Key(p)][picked'[p]].version = job[p][2]
             /\ message'[Key(p)] = 0
  <2> DEFINE i == Len(posted[Key(p)]) + 1
  <2>1. Land(p, TRUE) /\ pc[p] = "post" /\ picked' = [picked EXCEPT ![p] = i] /\ message' = message
    BY <1>6 DEF Post, claims
  <2>2. /\ i \in DOMAIN posted'[Key(p)]
        /\ posted'[Key(p)][i] = [version |-> job[p][2], thread |-> thread[p], heard |-> TRUE]
    BY <2>1, Puts
  <2>3. picked'[p] = i BY <2>1 DEF Shapes
  <2>4. message[Key(p)] = 0 BY <2>1, HoldersRememberNone DEF Holding
  <2> HIDE DEF i
  <2> QED BY <2>1, <2>2, <2>3, <2>4 DEF Known
<1>7. ASSUME Remember(p) PROVE message'[Key(p)] # 0 /\ Known(posted[Key(p)])
  <2>1. /\ pc[p] = "remember" /\ message' = [message EXCEPT ![Key(p)] =
                                               IF Key(p) \in claimed THEN picked[p] ELSE @]
    BY <1>7 DEF Remember
  <2>2. picked[p] \in DOMAIN posted[Key(p)] /\ Known(posted[Key(p)]) BY <2>1 DEF SaidInv, SaidOf, AfterPost
  <2>3. Key(p) \in claimed /\ picked[p] # 0 BY <1>1, <1>4, <2>2 DEF HolderInv
  <2> QED BY <1>1, <2>1, <2>2, <2>3 DEF Shapes
<1>8. ASSUME Revise(p) \/ Again(p)
      PROVE  /\ Known(posted[Key(p)]) /\ message'[Key(p)] = message[Key(p)]
             /\ ~IsLine(p) => message[Key(p)] # 0
  BY <1>8 DEF Revise, Again, SaidInv, SaidOf, AfterPost, claims
<1>9. ASSUME ReadMessage(p), message[Key(p)] # 0
      PROVE  Known(posted[Key(p)]) /\ message'[Key(p)] = message[Key(p)] /\ IsEdit(p)
  BY <1>1, <1>9 DEF ReadMessage, SaidInv, SaidOf, Remembered, claims
<1>10. pc'[p] \in AfterPost => Known(posted'[Key(p)])
  BY <1>1, <1>5, <1>6, <1>7, <1>8, <1>9 DEF Comes, AfterPost
<1>11. pc'[p] \in {"again", "shut_again"} /\ ~IsLine(p) => message'[Key(p)] # 0 BY <1>1, <1>7, <1>8 DEF Comes
<1>12. pc'[p] = "revise" => picked'[p] = message'[Key(p)] /\ message'[Key(p)] # 0 BY <1>1, <1>9 DEF Comes
<1>13. pc'[p] \in {"read_message", "revise"} => IsEdit(p) BY <1>1, <1>9 DEF Comes
<1>14. pc'[p] = "remember" =>
          /\ message'[Key(p)] = 0 /\ ~IsLine(p)
          /\ picked'[p] \in DOMAIN posted'[Key(p)]
          /\ posted'[Key(p)][picked'[p]].version = job[p][2]
  BY <1>1, <1>6 DEF Comes
<1> QED BY <1>3, <1>10, <1>11, <1>12, <1>13, <1>14 DEF SaidOf

LEMMA SaidDoes ==
  ASSUME Shapes, HolderInv, SaidInv, NEW p \in Workers, Does(p) PROVE SaidInv'
<1>1. Alone(p) /\ Recalls(p) /\ Comes(p) /\ Key(p) \in Keys BY DoesAlone, RecallsSo, ComesSo
<1>2. \A q \in Workers : SaidOf(q)' BY SaidOfOthers, SaidOfOwn
<1>3. ASSUME NEW k \in Keys, message'[k] # 0 PROVE Remembered(k)'
  <2>1. Stays(k) BY StaysDoing, SaidMessages
  <2>2. message'[k] \in DOMAIN posted[k] /\ Known(posted[k])
    <3>1. CASE message'[k] = message[k] BY <1>3, <3>1 DEF SaidInv, Remembered
    <3>2. CASE k = Key(p) /\ pc[p] = "remember" /\ message'[k] = picked[p]
      BY <3>2 DEF SaidInv, SaidOf, AfterPost
    <3> QED BY <1>1, <1>3, <3>1, <3>2 DEF Recalls
  <2> QED BY <2>1, <2>2, KnownStays DEF Remembered, Stays
<1>4. ASSUME NEW a \in Workers, NEW b \in Workers, a # b,
             pc'[a] = "remember", pc'[b] = "remember", Key(a)' = Key(b)'
      PROVE  FALSE
  <2>1. ASSUME NEW q \in Workers, q # p, pc'[p] = "remember", pc'[q] = "remember", Key(p)' = Key(q)'
        PROVE  FALSE
    <3>1. Post(p) /\ Key(p)' = Key(p) /\ pc[q] = "remember" /\ Key(q)' = Key(q) BY <1>1, <2>1 DEF Comes, Alone
    <3>2. pc[p] \in Holding BY <3>1 DEF Post, Holding
    <3>3. Known(posted[Key(q)]) BY <3>1 DEF SaidInv, SaidOf, AfterPost
    <3> QED BY <2>1, <3>1, <3>2, <3>3, HoldersRememberNone
  <2>2. CASE a # p /\ b # p BY <1>1, <1>4, <2>2 DEF Alone, SaidInv
  <2> QED BY <1>4, <2>1, <2>2
<1> QED BY <1>2, <1>3, <1>4 DEF SaidInv

\* What no worker does to what it has in hand.
LEMMA SaidOutside ==
  ASSUME Shapes, SaidInv, message' = message, \A k \in Keys : Stays(k) /\ Unrevised(k),
         \A p \in Workers :
            \/ pc'[p] \in {"sync", "locate"}
            \/ pc'[p] = pc[p] /\ job'[p] = job[p] /\ picked'[p] = picked[p]
  PROVE  SaidInv'
<1>1. ASSUME NEW p \in Workers, pc'[p] \notin {"sync", "locate", "idle"}
      PROVE  /\ pc'[p] = pc[p] /\ job'[p] = job[p] /\ picked'[p] = picked[p]
             /\ Key(p)' = Key(p) /\ Key(p) \in Keys
             /\ IsLine(p)' = IsLine(p) /\ IsEdit(p)' = IsEdit(p)
  BY <1>1 DEF Shapes, Kinds, Deliverable, Key, IsLine, IsEdit
<1>2. ASSUME NEW p \in Workers PROVE SaidOf(p)'
  <2>1. CASE pc'[p] \in {"sync", "locate", "idle"} BY <2>1 DEF SaidOf, AfterPost
  <2>2. CASE pc'[p] \notin {"sync", "locate", "idle"}
    <3>1. Stays(Key(p)) /\ Unrevised(Key(p)) /\ SaidOf(p) BY <1>1, <2>2 DEF SaidInv
    <3>2. Known(posted[Key(p)]) => Known(posted'[Key(p)]) BY <3>1, KnownStays
    <3> QED BY <1>1, <2>2, <3>1, <3>2 DEF SaidOf, Stays, Unrevised
  <2> QED BY <2>1, <2>2
<1>3. ASSUME NEW k \in Keys, message'[k] # 0 PROVE Remembered(k)'
  BY <1>3, KnownStays DEF SaidInv, Remembered, Stays
<1>4. \A p, q \in Workers :
          pc'[p] = "remember" /\ pc'[q] = "remember" /\ Key(p)' = Key(q)' => p = q
  BY <1>1 DEF SaidInv
<1> QED BY <1>2, <1>3, <1>4 DEF SaidInv

LEMMA SaidNext == ASSUME Shapes, HolderInv, SaidInv, [Next]_vars PROVE SaidInv'
<1>0. ASSUME posted' = posted PROVE \A k \in Keys : Stays(k) /\ Unrevised(k) BY <1>0 DEF Unrevised, Stays
<1>1. CASE UNCHANGED vars BY <1>0, <1>1, SaidOutside DEF vars, claims, discord, local
<1>2. CASE (\E k \in Keys : Arrive(k)) \/ (\E t \in Threads : Delete(t) \/ Report(t)) \/ Toggle
  BY <1>0, <1>2, SaidOutside DEF Arrive, Delete, Report, Toggle, claims, discord, local
<1>3. ASSUME NEW k \in Keys, NEW i \in DOMAIN posted[k], DeleteMessage(k, i) PROVE SaidInv'
  BY <1>3, ShowsDeletion, SaidOutside DEF DeleteMessage, claims, local
<1>4. ASSUME NEW p \in Workers, Takes(p) PROVE SaidInv'
  BY <1>0, <1>4, TakesSo, SaidOutside DEF TakesIt, claims, discord
<1> QED BY <1>1, <1>2, <1>3, <1>4, SaidDoes DEF Next, Environment, Does, Takes

----
\* The newest version.  A note that is claimed and remembers no message is
\* in the hands of who posts it; and while its newest version is not what
\* is shown, the delivery of that version is owed and not yet written.

\* Lost, or left unsaid, for a reason that is accepted.
Forgone(k) == Excused(k, {"stuck", "moved", "quiet", "refused", "overlap", "forgot", "early"})

WithClaim == Holding \cup {"remember"}
AfterWrite == {"again", "shut_again"}

ClaimAnswered(k) ==
    k \in claimed /\ message[k] = 0 => \E h \in Workers : Key(h) = k /\ pc[h] \in WithClaim

\* A worker has written what the delivery brought.
Written(d) == \E p \in Workers : job[p] = d /\ pc[p] \in AfterWrite

NewestComing(k) ==
    version[k] \in 1 .. 2 =>
        \/ ShowsNewest(k)
        \/ <<k, version[k]>> \in owed /\ ~Written(<<k, version[k]>>)

Newest(k) == ClaimAnswered(k) /\ NewestComing(k)

NewestInv == \A k \in Remarks : ~Forgone(k) => Newest(k)

LEMMA ExcusesGrow ==
  ASSUME [Next]_vars PROVE excuses \subseteq excuses'
<1>1. ASSUME NEW reasons, NEW k, Excuse(reasons, k) PROVE excuses \subseteq excuses' BY <1>1 DEF Excuse
<1>2. CASE Environment \/ UNCHANGED vars
  BY <1>2 DEF Environment, Arrive, DeleteMessage, Delete, Report, Toggle, vars, book
<1>3. ASSUME NEW p \in Workers, Sync(p) PROVE excuses \subseteq excuses'
  BY <1>1, <1>3 DEF Sync, Record, TurnAway, Write, Open, SetLock, NoteLock, book
<1>4. ASSUME NEW p \in Workers, Say(p) PROVE excuses \subseteq excuses'
  BY <1>1, <1>4 DEF Say, Look, Locate, Claim, Post, PostGone, HandBack, ForgetThread, Remember, ReadMessage,
    Revise, ReviseGone, Again, ShutAgain, book
<1>5. ASSUME NEW p \in Workers, Trouble(p) PROVE excuses \subseteq excuses'
  BY <1>1, <1>5 DEF Trouble, Busy, LockRefused, ClaimLost, PostLost, PostRefused, HandBackFails, ReviseFails,
    ShutAgainRefused, Abort, DeliverAgain, book
<1>6. ASSUME NEW p \in Workers, NEW d \in Deliveries, Deliver(p, d) PROVE excuses \subseteq excuses'
  BY <1>6 DEF Deliver, book
<1> QED BY <1>2, <1>3, <1>4, <1>5, <1>6 DEF Next

LEMMA DoesNext == ASSUME NEW p \in Workers, Does(p) PROVE Next BY DEF Does, Next

\* A claim is made and given back by who has the note.
LEMMA ClaimsOwn ==
  ASSUME NEW p \in Workers, Does(p), NEW k, k # Key(p) PROVE k \in claimed' <=> k \in claimed
<1>1. CASE Sync(p) BY <1>1 DEF Sync, Record, TurnAway, Write, Open, SetLock, NoteLock, claims
<1>2. CASE Say(p)
  BY <1>2 DEF Say, Look, Locate, Claim, Post, PostGone, HandBack, Release, ForgetThread, Remember,
    ReadMessage, Revise, ReviseGone, Again, ShutAgain, claims
<1>3. CASE Trouble(p) /\ ~Takes(p)
  BY <1>3 DEF Trouble, Takes, Busy, LockRefused, ClaimLost, PostLost, PostRefused, HandBackFails, ReviseFails,
    ShutAgainRefused, Abort, claims
<1> QED BY <1>1, <1>2, <1>3 DEF Does

LEMMA ShowsKept ==
  ASSUME Shapes, PointerInv, InTheRowsThread, Steady \/ Opens, NEW k \in Keys, ShowsNewest(k),
         Stays(k), Unrevised(k), message'[k] = message[k], version'[k] = version[k]
  PROVE  ShowsNewest(k)'
<1> DEFINE m == posted[k][message[k]]
           n == posted'[k][message[k]]
<1>1. message[k] \in DOMAIN posted[k] /\ message[k] \in DOMAIN posted'[k] BY DEF ShowsNewest, Stays
<1>2. n.version = m.version /\ n.thread \in {m.thread, NULL} BY <1>1 DEF Stays, Unrevised
<1>3. m.thread \in used \cup {NULL} /\ (m.thread \in live => m.version = version[k])
  BY <1>1 DEF InTheRowsThread, ShowsNewest
<1>4. NULL \notin live' /\ (m.thread \in live' => m.thread \in live)
  <2>1. CASE Steady BY <2>1, NotesAssumption DEF Steady, PointerInv
  <2>2. CASE Opens BY <1>3, <2>2, OpensSo, NotesAssumption DEF PointerInv
  <2> QED BY <2>1, <2>2
<1>5. n.thread \in live' => n.version = version'[k] BY <1>2, <1>3, <1>4
<1> QED BY <1>1, <1>5 DEF ShowsNewest

\* Who has another note in hand leaves this one alone.
LEMMA NewestOthers ==
  ASSUME Shapes, PointerInv, SaidInv, InTheRowsThread, NEW p \in Workers, Does(p),
         NEW k \in Keys, Key(p) # k, Newest(k)
  PROVE  Newest(k)'
<1>1. Alone(p) /\ Recalls(p) /\ Stays(k) /\ Unrevised(k) /\ (Steady \/ Opens)
      /\ (k \in claimed' <=> k \in claimed)
  BY DoesAlone, RecallsSo, StaysDoing, SaidMessages, SteadyDoes, ClaimsOwn
<1>2. message'[k] = message[k] /\ version' = version BY <1>1 DEF Recalls, Alone
<1>3. ClaimAnswered(k)'
  <2> SUFFICES ASSUME k \in claimed, message[k] = 0
               PROVE  \E h \in Workers : Key(h)' = k /\ pc'[h] \in WithClaim
    BY <1>1, <1>2 DEF ClaimAnswered
  <2>1. PICK h \in Workers : Key(h) = k /\ pc[h] \in WithClaim BY DEF Newest, ClaimAnswered
  <2> QED BY <1>1, <2>1 DEF Alone
<1>4. NewestComing(k)'
  <2> SUFFICES ASSUME version[k] \in 1 .. 2, ~ShowsNewest(k)'
               PROVE  <<k, version[k]>> \in owed' /\ ~Written(<<k, version[k]>>)'
    BY <1>2 DEF NewestComing
  <2>1. <<k, version[k]>> \in owed /\ ~Written(<<k, version[k]>>)
    BY <1>1, <1>2, ShowsKept DEF Newest, NewestComing
  <2>2. job[p] # <<k, version[k]>> /\ job'[p] \in {job[p], Nobody} /\ Nobody # <<k, version[k]>>
    <3>1. <<k, version[k]>>[1] = k /\ Nobody[1] = NULL /\ k # NULL BY NotesAssumption DEF Nobody
    <3> QED BY <1>1, <3>1 DEF Key, Alone
  <2> QED BY <1>1, <2>1, <2>2 DEF Written, Alone
<1> QED BY <1>3, <1>4 DEF Newest

\* What who has it in hand must see to.
LEMMA NewestGoes ==
  ASSUME Shapes, NEW p \in Workers, Does(p), NEW k \in Keys, Key(p) = k, Newest(k),
         k \in claimed' /\ message'[k] = 0 =>
            \/ pc'[p] \in WithClaim
            \/ k \in claimed /\ message[k] = 0 /\ pc[p] \notin WithClaim,
         ShowsNewest(k) => ShowsNewest(k)',
         version[k] \in 1 .. 2 =>
            \/ ShowsNewest(k)'
            \/ job[p] # <<k, version[k]>>
            \/ owed' = owed /\ pc'[p] \notin AfterWrite
            \/ pc[p] \in AfterWrite
  PROVE  Newest(k)'
<1>1. Alone(p) /\ version' = version BY DoesAlone DEF Alone
<1>2. ClaimAnswered(k)'
  <2> SUFFICES ASSUME k \in claimed', message'[k] = 0
               PROVE  \E h \in Workers : Key(h)' = k /\ pc'[h] \in WithClaim
    BY DEF ClaimAnswered
  <2>1. CASE pc'[p] \in WithClaim BY <1>1, <2>1 DEF Alone, WithClaim, Holding, HandingBack
  <2>2. CASE k \in claimed /\ message[k] = 0 /\ pc[p] \notin WithClaim
    <3>1. PICK h \in Workers : Key(h) = k /\ pc[h] \in WithClaim BY <2>2 DEF Newest, ClaimAnswered
    <3> QED BY <1>1, <2>2, <3>1 DEF Alone
  <2> QED BY <2>1, <2>2
<1>3. NewestComing(k)'
  <2> SUFFICES ASSUME version[k] \in 1 .. 2, ~ShowsNewest(k)', NEW d, d = <<k, version[k]>>
               PROVE  d \in owed' /\ ~\E q \in Workers : job'[q] = d /\ pc'[q] \in AfterWrite
    BY <1>1 DEF NewestComing, Written
  <2>1. d \in owed /\ ~(\E q \in Workers : job[q] = d /\ pc[q] \in AfterWrite) /\ Nobody # d
    <3>1. d[1] = k /\ Nobody[1] = NULL /\ k # NULL BY NotesAssumption DEF Nobody
    <3> QED BY <3>1 DEF Newest, NewestComing, Written
  <2>2. job[p] # d \/ (owed' = owed /\ pc'[p] \notin AfterWrite) BY <2>1
  <2>3. \A q \in Workers \ {p} : job'[q] = job[q] /\ pc'[q] = pc[q] BY <1>1 DEF Alone
  <2>4. d \in owed' /\ (job'[p] = d => pc'[p] \notin AfterWrite) BY <1>1, <2>1, <2>2 DEF Alone
  <2> QED BY <2>1, <2>3, <2>4
<1> QED BY <1>2, <1>3 DEF Newest

LEMMA ForgoneBy ==
  ASSUME NEW k, NEW reasons, Excuse(reasons, k),
         reasons \cap {"stuck", "moved", "quiet", "refused", "overlap", "forgot", "early"} # {}
  PROVE  Forgone(k)' BY DEF Excuse, Forgone, Excused

\* What stands for one note at every step of who has it.
LEMMA OwnNote ==
  ASSUME Shapes, PointerInv, SaidInv, InTheRowsThread, NEW p \in Workers, Does(p),
         NEW k \in Remarks, Key(p) = k
  PROVE  /\ k \in Keys /\ ~IsLine(p) /\ pc[p] # "idle"
         /\ (posted' = posted \/ Unrevised(k)) /\ message'[k] = message[k] =>
              (ShowsNewest(k) => ShowsNewest(k)')
         /\ ShowsNewest(k) => message[k] # 0
<1>1. k \in Keys /\ ~IsLine(p) BY NotesAssumption DEF Keys, IsLine, Key, Flips
<1>2. Alone(p) /\ Stays(k) /\ (Steady \/ Opens) BY <1>1, DoesAlone, StaysDoing, SaidMessages, SteadyDoes
<1>3. posted' = posted => Unrevised(k) BY DEF Unrevised
<1>4. posted[k] \in Seq(Messages) BY <1>1 DEF Shapes, Kinds
<1>5. ShowsNewest(k) => message[k] # 0 BY <1>4 DEF ShowsNewest
<1>6. Unrevised(k) /\ message'[k] = message[k] =>
        (ShowsNewest(k) => ShowsNewest(k)') BY <1>1, <1>2, ShowsKept DEF Alone
<1> QED BY <1>1, <1>2, <1>3, <1>5, <1>6 DEF Alone

\* Beside who claims, writes and remembers it, the steps that leave the note as it was.
LEMMA NewestQuiet ==
  ASSUME Shapes, PointerInv, SaidInv, InTheRowsThread, NEW p \in Workers, Does(p),
         NEW k \in Remarks, Key(p) = k, Newest(k), UNCHANGED <<claims, posted>>,
         pc'[p] \in WithClaim \/ pc[p] \notin WithClaim,
         (owed' = owed /\ pc'[p] \notin AfterWrite) \/ pc[p] \in AfterWrite
  PROVE  Newest(k)' BY OwnNote, NewestGoes DEF claims

LEMMA NewestSync ==
  ASSUME Shapes, PointerInv, SaidInv, InTheRowsThread, NEW p \in Workers, Sync(p),
         NEW k \in Remarks, Key(p) = k, Newest(k)
  PROVE  Newest(k)'
<1> USE DEF Shapes, Kinds, WithClaim, AfterWrite, Holding, HandingBack
<1>0. Does(p) BY DEF Does
<1>1. UNCHANGED <<claims, posted>> BY DEF Sync, Record, TurnAway, Write, Open, SetLock, NoteLock, discord
<1>2. pc[p] \in {"sync"} \cup Locked BY DEF Sync, Record, TurnAway, Write, Open, SetLock, NoteLock, Locked
<1>3. owed' = owed BY DEF Sync, Record, TurnAway, Write, Open, SetLock, NoteLock, Synced, Raise, github
<1>4. pc'[p] \notin AfterWrite BY <1>0, <1>2, ComesSo DEF Comes, Post, Remember, Revise, Again, Locked
<1> QED BY <1>0, <1>1, <1>2, <1>3, <1>4, NewestQuiet DEF Locked

\* The creation that finds the note claimed: it has been said, or is being said.
LEMMA ClaimedBefore ==
  ASSUME Shapes, OwedInv, SentInv, SaidInv, NEW p \in Workers, NEW k \in Keys, Key(p) = k,
         Newest(k), ~Forgone(k), k \in claimed, pc[p] = "claim", ~IsEdit(p),
         version[k] \in 1 .. 2, job[p] = <<k, version[k]>>
  PROVE  ShowsNewest(k)
<1>1. version[k] = 1 /\ job[p] = <<k, 1>> BY DEF IsEdit
<1>2. message[k] # 0
  <2> SUFFICES ASSUME message[k] = 0 PROVE FALSE OBVIOUS
  <2>1. PICK h \in Workers : Key(h) = k /\ pc[h] \in WithClaim BY DEF Newest, ClaimAnswered
  <2>2. pc[h] # "idle" /\ h # p BY <2>1 DEF WithClaim, Holding, HandingBack
  <2>3. job[h] \in Deliverable /\ job[h][2] <= 1 BY <1>1, <2>1, <2>2 DEF SentInv, Shapes, Kinds
  <2>4. job[h] = <<k, 1>> BY <2>1, <2>3 DEF Deliverable, Key
  <2>5. Overlap(k) BY <1>1, <2>2, <2>4 DEF OwedInv, WorkInv
  <2> QED BY <2>5 DEF Overlap, Forgone, Excused
<1>3. message[k] \in DOMAIN posted[k] BY <1>2 DEF SaidInv, Remembered
<1>4. posted[k][message[k]].version \in 1 .. 1 BY <1>1, <1>3 DEF SentInv
<1> QED BY <1>1, <1>3, <1>4 DEF ShowsNewest

\* An edit that was written shows the newest; one whose message is gone shows nothing.
LEMMA RevisedShows ==
  ASSUME Shapes, PointerInv, SentInv, SaidInv, InTheRowsThread, NEW p \in Workers, Revise(p),
         NEW k \in Keys, Key(p) = k, version[k] \in 1 .. 2
  PROVE  ShowsNewest(k)'
<1> DEFINE m == posted[k][picked[p]]
<1>1. Does(p) /\ pc[p] = "revise" /\ thread[p] \in live BY DEF Does, Say, Revise
<1>2. Alone(p) /\ k \in Keys /\ job[p] \in Deliverable /\ version'[k] = version[k]
  BY <1>1, DoesAlone DEF Alone
<1>3. /\ picked[p] = message[k] /\ message[k] # 0 /\ IsEdit(p)
      /\ picked[p] \in DOMAIN posted[k] /\ message'[k] = message[k] /\ live' = live
  BY <1>1, <1>2 DEF SaidInv, SaidOf, Remembered, Revise, claims
<1>4. m \in Messages BY <1>2, <1>3 DEF Shapes, Kinds
<1>5. CASE StillThere(p)
  <2>1. job[p][2] = version[k]
    <3>1. job[p][2] > 1 /\ job[p][2] <= version[k] /\ job[p][2] \in Nat
      BY <1>1, <1>2, <1>3 DEF IsEdit, SentInv, Deliverable
    <3> QED BY <3>1
  <2>2. /\ DOMAIN posted'[k] = DOMAIN posted[k]
        /\ posted'[k][picked[p]] = [m EXCEPT !.version = job[p][2]]
    BY <1>3, <1>5, ShowsEdit
  <2>3. [m EXCEPT !.version = job[p][2]].version = job[p][2] BY <1>4 DEF Messages
  <2> QED BY <1>2, <1>3, <2>1, <2>2, <2>3 DEF ShowsNewest
<1>6. CASE ~StillThere(p)
  <2>1. posted' = posted BY <1>6 DEF Revise
  <2>2. thread[p] = pointer /\ (m.thread \in live => m.thread = pointer)
    BY <1>1, <1>2, <1>3 DEF InTheRowsThread
  <2>3. m.thread \notin live BY <1>1, <1>6, <2>2 DEF StillThere
  <2> QED BY <1>2, <1>3, <2>1, <2>3 DEF ShowsNewest
<1> QED BY <1>5, <1>6

LEMMA NewestSay ==
  ASSUME Shapes, PointerInv, HolderInv, OwedInv, SentInv, SaidInv, InTheRowsThread,
         NEW p \in Workers, Say(p), NEW k \in Remarks, Key(p) = k, Newest(k), ~Forgone(k)'
  PROVE  Newest(k)'
<1> USE DEF Shapes, Kinds, Goto, WithClaim, AfterWrite, Holding, HandingBack, discord, github
<1>0. Does(p) BY DEF Does
<1>a. /\ k \in Keys /\ ~IsLine(p) /\ pc[p] # "idle"
      /\ (posted' = posted \/ Unrevised(k)) /\ message'[k] = message[k] =>
           (ShowsNewest(k) => ShowsNewest(k)')
      /\ ShowsNewest(k) => message[k] # 0 BY <1>0, OwnNote
<1>b. ~Forgone(k) BY <1>0, DoesNext, ExcusesGrow DEF Forgone, Excused
<1>1. CASE Look(p) \/ Locate(p)
  <2>1. UNCHANGED <<claims, posted>> /\ pc[p] \in {"look", "locate"} BY <1>1 DEF Look, Locate
  <2>2. owed' = owed /\ pc'[p] \in {"claim", "sync"} BY <1>1, ForgoneBy DEF Look, Locate
  <2> QED BY <1>0, <2>1, <2>2, NewestQuiet
<1>2. CASE Claim(p)
  <2>1. message' = message /\ posted' = posted /\ pc[p] = "claim" BY <1>2 DEF Claim
  <2>2. CASE k \notin claimed
    <3>1. pc'[p] = "post" /\ owed' = owed BY <1>2, <2>2 DEF Claim, Unclaimed
    <3> QED BY <1>0, <1>a, <2>1, <3>1, NewestGoes
  <2>3. CASE k \in claimed /\ IsEdit(p)
    <3>1. pc'[p] = "read_message" /\ owed' = owed /\ claimed' = claimed BY <1>2, <2>3 DEF Claim, Unclaimed
    <3> QED BY <1>0, <2>1, <3>1, NewestQuiet DEF claims
  <2>4. CASE k \in claimed /\ ~IsEdit(p)
    <3>1. pc'[p] = "idle" /\ claimed' = claimed BY <1>2, <2>4 DEF Claim, Unclaimed, Finish, Rest
    <3>2. version[k] \in 1 .. 2 /\ job[p] = <<k, version[k]>> => ShowsNewest(k)
      BY <1>a, <1>b, <2>1, <2>4, ClaimedBefore
    <3>3. ShowsNewest(k) => ShowsNewest(k)' BY <1>a, <2>1
    <3> QED BY <1>0, <1>a, <2>1, <3>1, <3>2, <3>3, NewestGoes
  <2> QED BY <2>2, <2>3, <2>4
<1>3. CASE Post(p)
  <2>1. pc'[p] = "remember" /\ owed' = owed /\ message' = message BY <1>3, <1>a DEF Post, claims
  <2>2. Unrevised(k) BY <1>3, <1>a, Puts DEF Post
  <2> QED BY <1>0, <1>a, <2>1, <2>2, NewestGoes
<1>4. CASE PostGone(p) BY <1>0, <1>4, NewestQuiet DEF PostGone
<1>5. CASE HandBack(p)
  <2>1. claimed' = claimed \ {k} /\ posted' = posted /\ pc[p] \in Holding BY <1>5 DEF HandBack, Release
  <2>2. message[k] = 0 BY <2>1, HoldersRememberNone
  <2>3. owed' = owed /\ pc'[p] \in {"forget", "idle"} BY <1>5, ForgoneBy DEF HandBack, OnwardFrom, Raise, Rest
  <2> QED BY <1>0, <1>a, <2>1, <2>2, <2>3, NewestGoes
<1>6. CASE ForgetThread(p) BY <1>0, <1>6, NewestQuiet DEF ForgetThread
<1>7. CASE Remember(p)
  <2>1. /\ pc[p] = "remember" /\ posted' = posted /\ owed' = owed
        /\ message'[k] = IF k \in claimed THEN picked[p] ELSE message[k]
    BY <1>7, <1>a DEF Remember
  <2>2. /\ message[k] = 0 /\ picked[p] \in DOMAIN posted[k] /\ Known(posted[k])
        /\ posted[k][picked[p]].version = job[p][2]
    BY <2>1 DEF SaidInv, SaidOf, AfterPost
  <2>3. k \in claimed /\ message'[k] = picked[p] /\ picked[p] # 0 BY <1>a, <2>1, <2>2 DEF HolderInv
  <2>4. job[p] = <<k, version[k]>> => ShowsNewest(k)'
    <3>1. version'[k] = version[k] BY <1>7 DEF Remember
    <3> QED BY <2>1, <2>2, <2>3, <3>1 DEF ShowsNewest
  <2> QED BY <1>0, <1>a, <2>2, <2>3, <2>4, NewestGoes
<1>8. CASE ReadMessage(p)
  <2>1. owed' = owed /\ pc'[p] = "revise" BY <1>8, ForgoneBy DEF ReadMessage
  <2>2. UNCHANGED <<claims, posted>> /\ pc[p] = "read_message" BY <1>8 DEF ReadMessage
  <2> QED BY <1>0, <2>1, <2>2, NewestQuiet
<1>9. CASE Revise(p)
  <2>1. version[k] \in 1 .. 2 => ShowsNewest(k)' BY <1>9, <1>a, RevisedShows
  <2>2. UNCHANGED claims /\ pc[p] = "revise" BY <1>9 DEF Revise
  <2>3. version'[k] = version[k] BY <1>0, DoesAlone DEF Alone
  <2>4. message[k] # 0 /\ message'[k] = message[k] BY <2>2 DEF SaidInv, SaidOf, claims
  <2>5. ClaimAnswered(k)' /\ NewestComing(k)' BY <2>1, <2>3, <2>4 DEF ClaimAnswered, NewestComing
  <2> QED BY <2>5 DEF Newest
<1>10. CASE ReviseGone(p) BY <1>0, <1>10, NewestQuiet DEF ReviseGone, Raise, Rest
<1>11. CASE Again(p) \/ ShutAgain(p) BY <1>0, <1>11, NewestQuiet DEF Again, ShutAgain
<1> QED BY <1>1, <1>2, <1>3, <1>4, <1>5, <1>6, <1>7, <1>8, <1>9, <1>10, <1>11 DEF Say

LEMMA NewestTrouble ==
  ASSUME Shapes, PointerInv, HolderInv, OwedInv, SentInv, SaidInv, InTheRowsThread,
         NEW p \in Workers, Trouble(p), ~Takes(p), NEW k \in Remarks, Key(p) = k, Newest(k),
         ~Forgone(k)'
  PROVE  Newest(k)'
<1> USE DEF Shapes, Kinds, Goto, Raise, Rest, WithClaim, AfterWrite, Holding, HandingBack, discord, github
<1>0. Does(p) BY DEF Does
<1>a. k \in Keys /\ ~IsLine(p) BY <1>0, OwnNote
<1>1. CASE Busy(p) \/ LockRefused(p)
  <2>1. UNCHANGED <<claims, posted>> /\ pc[p] \in {"sync", "set_lock"} /\ owed' = owed /\ pc'[p] = "idle"
    BY <1>1, <1>a DEF Busy, LockRefused, Synced
  <2> QED BY <1>0, <2>1, NewestQuiet
<1>2. CASE ClaimLost(p) \/ HandBackFails(p) BY <1>2, ForgoneBy DEF ClaimLost, HandBackFails
<1>3. CASE PostLost(p)
  <2>1. pc'[p] = "back_failed" /\ owed' = owed /\ message' = message BY <1>3 DEF PostLost, claims
  <2>2. posted' = posted \/ Unrevised(k) BY <1>3, <1>a, Puts DEF PostLost
  <2> QED BY <1>0, <2>1, <2>2, OwnNote, NewestGoes
<1>4. CASE PostRefused(p) BY <1>0, <1>4, NewestQuiet DEF PostRefused
<1>5. CASE ReviseFails(p)
  <2>1. UNCHANGED <<claims, posted>> /\ pc[p] = "revise" /\ owed' = owed /\ pc'[p] = "idle"
    BY <1>5, ForgoneBy DEF ReviseFails
  <2> QED BY <1>0, <2>1, NewestQuiet
<1>6. CASE ShutAgainRefused(p) BY <1>0, <1>6, NewestQuiet DEF ShutAgainRefused
<1>7. CASE Abort(p)
  <2>1. pc[p] \notin Holding \cup {"remember"} BY <1>7, ForgoneBy DEF Abort, Cost
  <2>2. UNCHANGED <<claims, posted>> /\ owed' = owed /\ pc'[p] = "idle" BY <1>7 DEF Abort
  <2> QED BY <1>0, <2>1, <2>2, NewestQuiet
<1> QED BY <1>1, <1>2, <1>3, <1>4, <1>5, <1>6, <1>7 DEF Trouble, Takes

\* What no worker does, and a delivery taken up.
LEMMA NewestOutside ==
  ASSUME Shapes, PointerInv, InTheRowsThread, Steady, NEW k \in Keys, Newest(k), UNCHANGED claims,
         \A j \in Keys : Stays(j) /\ Unrevised(j),
         \A q \in Workers : \/ pc'[q] = pc[q] /\ job'[q] = job[q]
                            \/ pc[q] = "idle" /\ pc'[q] \notin AfterWrite,
         owed \subseteq owed',
         \/ version'[k] = version[k]
         \/ /\ <<k, version'[k]>> \in owed'
            /\ \A q \in Workers : pc[q] # "idle" => job[q] # <<k, version'[k]>>
  PROVE  Newest(k)'
<1>1. ClaimAnswered(k)'
  <2> SUFFICES ASSUME k \in claimed, message[k] = 0
               PROVE  \E h \in Workers : Key(h)' = k /\ pc'[h] \in WithClaim
    BY DEF ClaimAnswered, claims
  <2>1. PICK h \in Workers : Key(h) = k /\ pc[h] \in WithClaim BY DEF Newest, ClaimAnswered
  <2>2. pc'[h] = pc[h] /\ Key(h)' = Key(h) BY <2>1 DEF Key, WithClaim, Holding, HandingBack
  <2> QED BY <2>1, <2>2
<1>2. NewestComing(k)'
  <2> SUFFICES ASSUME version'[k] \in 1 .. 2, ~ShowsNewest(k)', NEW d, d = <<k, version'[k]>>
               PROVE  d \in owed' /\ ~\E q \in Workers : job'[q] = d /\ pc'[q] \in AfterWrite
    BY DEF NewestComing, Written
  <2>1. CASE version'[k] = version[k]
    <3>1. d \in owed /\ ~\E q \in Workers : job[q] = d /\ pc[q] \in AfterWrite
      BY <2>1, ShowsKept DEF Newest, NewestComing, Written, claims
    <3> QED BY <3>1
  <2>2. CASE version'[k] # version[k] BY <2>2 DEF AfterWrite
  <2> QED BY <2>1, <2>2
<1> QED BY <1>1, <1>2 DEF Newest

LEMMA NewestNext ==
  ASSUME Shapes, PointerInv, HolderInv, OwedInv, SentInv, SaidInv, InTheRowsThread, NewestInv,
         [Next]_vars
  PROVE  NewestInv'
<1> SUFFICES ASSUME NEW k \in Remarks, ~Forgone(k)' PROVE Newest(k)' BY DEF NewestInv
<1>1. k \in Keys /\ Newest(k) BY ExcusesGrow DEF NewestInv, Forgone, Excused, Keys
<1>2. ASSUME NEW p \in Workers, Does(p) PROVE Newest(k)'
  <2>1. CASE Key(p) = k BY <1>1, <1>2, <2>1, NewestSync, NewestSay, NewestTrouble DEF Does
  <2>2. CASE Key(p) # k BY <1>1, <1>2, <2>2, NewestOthers
  <2> QED BY <2>1, <2>2
<1>0. ASSUME posted' = posted PROVE \A j \in Keys : Stays(j) /\ Unrevised(j) BY <1>0 DEF Stays, Unrevised
<1>3. CASE UNCHANGED vars
  <2>1. UNCHANGED <<claims, posted, pc, job, owed, version>> BY <1>3 DEF vars, discord, local, github
  <2> QED BY <1>0, <1>1, <1>3, <2>1, SteadyOutside, NewestOutside
<1>4. CASE (\E t \in Threads : Delete(t) \/ Report(t)) \/ Toggle
  <2>1. UNCHANGED <<claims, posted, pc, job, owed, version>>
    BY <1>4 DEF Delete, Report, Toggle, discord, local, github
  <2>2. Steady BY <1>4, SteadyOutside DEF Environment
  <2> QED BY <1>0, <1>1, <2>1, <2>2, NewestOutside
<1>5. ASSUME NEW j \in Keys, NEW i \in DOMAIN posted[j], DeleteMessage(j, i) PROVE Newest(k)'
  <2>1. UNCHANGED <<claims, pc, job, owed, version>> BY <1>5 DEF DeleteMessage, local, github
  <2>2. Steady BY <1>5, SteadyOutside DEF Environment
  <2> QED BY <1>1, <1>5, <2>1, <2>2, ShowsDeletion, NewestOutside
<1>6. ASSUME NEW j \in Keys, Arrive(j) PROVE Newest(k)'
  <2>1. UNCHANGED <<claims, pc, job, posted>> BY <1>6 DEF Arrive, discord, local
  <2>2. Steady BY <1>6, SteadyOutside DEF Environment
  <2>3. /\ version' = [version EXCEPT ![j] = @ + 1]
        /\ owed' = owed \cup {<<j, version[j] + 1>>} BY <1>6 DEF Arrive
  <2>4. \/ version'[k] = version[k]
        \/ /\ <<k, version'[k]>> \in owed'
           /\ \A q \in Workers : pc[q] # "idle" => job[q] # <<k, version'[k]>>
    <3>1. CASE k # j BY <2>3, <3>1
    <3>2. CASE k = j
      <4>1. version'[k] = version[k] + 1 /\ version[k] \in Nat BY <1>1, <2>3, <3>2 DEF Shapes, Kinds
      <4>2. ASSUME NEW q \in Workers, pc[q] # "idle", job[q] = <<k, version'[k]>> PROVE FALSE
        <5>1. Key(q) = k /\ job[q][2] = version'[k] /\ job[q][2] <= version[Key(q)] BY <4>2 DEF Key, SentInv
        <5> QED BY <4>1, <5>1
      <4> QED BY <2>3, <3>2, <4>1, <4>2
    <3> QED BY <3>1, <3>2
  <2> QED BY <1>0, <1>1, <2>1, <2>2, <2>3, <2>4, NewestOutside
<1>7. ASSUME NEW p \in Workers, Takes(p) PROVE Newest(k)'
  <2>1. Steady BY <1>7, SteadyOutside
  <2>2. PICK d \in owed : TakesIt(p, d) BY <1>7, TakesSo
  <2>3. /\ UNCHANGED <<claims, posted, owed, version>>
        /\ \A q \in Workers : \/ pc'[q] = pc[q] /\ job'[q] = job[q]
                              \/ pc[q] = "idle" /\ pc'[q] \notin AfterWrite
    BY <2>2 DEF TakesIt, AfterWrite, discord, github
  <2> QED BY <1>0, <1>1, <2>1, <2>3, NewestOutside
<1> QED BY <1>2, <1>3, <1>4, <1>5, <1>6, <1>7 DEF Next, Environment, Does, Takes

----
\* The issue's own syncs.  What has been sent of the issue's state is in
\* the row, or the sync of its delivery is to come; and what a sync goes
\* by stays as it read it, for it has the item's lock.

\* Where a line is once its sync is over.
PastSync == {"look", "claim", "again", "shut_again"} \cup Holding
ToSync(n) == <<n, 1>> \in owed /\ \A p \in Workers : job[p] = <<n, 1>> => pc[p] \notin PastSync

\* The closings and reopenings sent are the first ones, each of them once.
FlipsInv == \E c \in 0 .. MaxFlips : \A n \in Flips : version[n] = IF n <= c THEN 1 ELSE 0

StoredInv == \A n \in Flips : version[n] # 0 => ToSync(n) \/ stored >= n

LineAt(p) ==
    /\ pc[p] \in (Locked \cup PastSync \cup {"sync"}) \ {"back_gone"}
    /\ pc[p] # "sync" => stored >= Key(p)
    /\ pc[p] = "write" /\ thread[p] # NULL => stored = Key(p)
    /\ pc[p] = "set_lock" /\ note = "shut" => stored = Key(p)
    /\ pc[p] = "note_lock" /\ ~Closed(stored) => stored = Key(p)
    /\ pc[p] = "turned_away" => stored > Key(p)

SyncAt(p) ==
    /\ pc[p] \in Locked => pointer \in {thread[p], NULL}
    /\ pc[p] = "set_lock" => Closed(stored)
    /\ pc[p] = "turned_away" /\ pointer # NULL => ~Closed(stored) \/ note = "shut"

SyncInv ==
    /\ FlipsInv /\ StoredInv
    /\ \A p \in Workers : pc[p] # "idle" /\ IsLine(p) => LineAt(p)
    /\ \A p \in Workers : SyncAt(p)
    /\ lock # NULL => lock \in Workers /\ pc[lock] \in Locked

LEMMA FlipsAreKeys == \A n \in Flips : n \in Keys /\ n \in Nat /\ n # 0
BY NotesAssumption DEF Flips, Keys

\* A line goes with one delivery.
LEMMA LineJob ==
  ASSUME Shapes, SentInv, FlipsInv, NEW p \in Workers, pc[p] # "idle", IsLine(p)
  PROVE  job[p] = <<Key(p), 1>> /\ ~IsEdit(p) /\ Key(p) \in Flips
<1>1. job[p] \in Deliverable /\ Key(p) \in Flips BY DEF Shapes, Kinds, IsLine, Key
<1>2. version[Key(p)] \in {0, 1} BY <1>1 DEF FlipsInv
<1>3. job[p][2] = 1
  <2>1. job[p][2] \in Nat \ {0} /\ job[p][2] <= version[Key(p)] BY <1>1 DEF Deliverable, SentInv
  <2> QED BY <1>2, <2>1
<1> QED BY <1>1, <1>3 DEF Deliverable, Key, IsEdit

\* Who writes the row's version, and who its lock.
LEMMA StoredSo ==
  ASSUME Shapes, NEW p \in Workers, Does(p)
  PROVE  /\ stored' >= stored
         /\ stored' = stored \/ (Record(p) /\ stored' = Carried(p))
<1>1. stored' = stored \/ (Record(p) /\ stored' = Carried(p) /\ ~(Carried(p) < stored))
  <2>1. CASE Record(p) BY <2>1 DEF Record
  <2>2. CASE Sync(p) /\ ~Record(p) BY <2>2 DEF Sync, TurnAway, Write, Open, SetLock, NoteLock, row
  <2>3. CASE Say(p)
    BY <2>3 DEF Say, Look, Locate, Claim, Post, PostGone, HandBack, ForgetThread, Remember, ReadMessage,
      Revise, ReviseGone, Again, ShutAgain, row
  <2>4. CASE Trouble(p) /\ ~Takes(p)
    BY <2>4 DEF Trouble, Takes, Busy, LockRefused, ClaimLost, PostLost, PostRefused, HandBackFails,
      ReviseFails, ShutAgainRefused, Abort, row
  <2> QED BY <2>1, <2>2, <2>3, <2>4 DEF Does
<1>2. Record(p) => Carried(p) \in Nat BY CarriedIsANumber DEF Record
<1> QED BY <1>1, <1>2 DEF Shapes

LEMMA NoteSo ==
  ASSUME Shapes, NEW p \in Workers, Does(p)
  PROVE  \/ note' = note /\ pointer' = pointer
         \/ NoteLock(p) /\ pointer' = pointer
         \/ note' = "unknown" /\ pointer' = NULL /\ ForgetThread(p)
         \/ \E t \in Threads : Open(p, t)
<1>1. CASE Sync(p) BY <1>1 DEF Sync, Record, TurnAway, Write, SetLock, NoteLock, row
<1>2. CASE ForgetThread(p) BY <1>2 DEF ForgetThread, Forget
<1>3. CASE Say(p) /\ ~ForgetThread(p)
  BY <1>3 DEF Say, Look, Locate, Claim, Post, PostGone, HandBack, Remember, ReadMessage, Revise, ReviseGone,
    Again, ShutAgain, row
<1>4. CASE Trouble(p) /\ ~Takes(p)
  BY <1>4 DEF Trouble, Takes, Busy, LockRefused, ClaimLost, PostLost, PostRefused, HandBackFails, ReviseFails,
    ShutAgainRefused, Abort, row
<1> QED BY <1>1, <1>2, <1>3, <1>4 DEF Does

\* The item's lock is taken to record, kept to the end of the sync, and let go.
LEMMA LockSo ==
  ASSUME Shapes, PointerInv, NEW p \in Workers, Does(p)
  PROVE  \/ Record(p) /\ lock = NULL /\ lock' = p /\ pc'[p] \in {"write", "set_lock", "turned_away"}
         \/ pc[p] \in Locked /\ lock = p /\ lock' = p /\ pc'[p] \in {"set_lock", "note_lock"}
         \/ pc[p] \in Locked /\ lock = p /\ lock' = NULL /\ pc'[p] \in {"look", "idle"}
         \/ pc[p] \notin Locked /\ pc'[p] \notin Locked /\ lock' = IF lock = p THEN lock' ELSE lock
<1> USE DEF Shapes, Kinds, Goto, Finish, Raise, Rest, ReleaseLock, Locked, PointerInv
<1>0. ASSUME NEW t, NEW open, Synced(p, t, open)
      PROVE  lock' = (IF lock = p THEN NULL ELSE lock) /\ pc'[p] \in {"look", "idle"}
  BY <1>0 DEF Synced
<1>1. CASE Record(p) BY <1>1 DEF Record
<1>2. CASE TurnAway(p) \/ NoteLock(p) BY <1>0, <1>2 DEF TurnAway, NoteLock
<1>3. CASE Write(p) BY <1>3 DEF Write
<1>4. ASSUME NEW t \in Threads, Open(p, t)
      PROVE  /\ pc[p] \in Locked /\ lock = p
             /\ \/ lock' = p /\ pc'[p] = "set_lock"
                \/ lock' = NULL /\ pc'[p] \in {"look", "idle"}
  BY <1>0, <1>4 DEF Open
<1>5. CASE SetLock(p) BY <1>5 DEF SetLock
<1>6. CASE Say(p)
  <2>1. pc[p] \notin Locked
    BY <1>6 DEF Say, Look, Locate, Claim, Post, PostGone, HandBack, HandingBack, ForgetThread, Remember,
      ReadMessage, Revise, ReviseGone, Again, ShutAgain
  <2>2. lock' = lock \/ lock = p
    BY <1>6 DEF Say, Look, Locate, Claim, Post, PostGone, HandBack, OnwardFrom, ForgetThread, Remember,
      ReadMessage, Revise, ReviseGone, Again, ShutAgain
  <2>3. pc'[p] \notin Locked
    <3>1. CASE Finish(p) \/ Raise(p) BY <3>1
    <3>2. CASE ~Finish(p) /\ ~Raise(p) BY <1>6, <3>2
         DEF Say, Look, Locate, Claim, Post, PostGone, HandBack, OnwardFrom, ForgetThread,
             Remember, ReadMessage, Revise, ReviseGone, Again, ShutAgain
    <3> QED BY <3>1, <3>2
  <2> QED BY <2>1, <2>2, <2>3
<1>7. CASE LockRefused(p) BY <1>0, <1>7 DEF LockRefused
<1>8. CASE Busy(p) \/ ClaimLost(p) \/ HandBackFails(p) \/ Abort(p)
  BY <1>8 DEF Busy, ClaimLost, HandBackFails, OnwardFrom, HandingBack, Abort
<1>9. CASE PostLost(p) \/ PostRefused(p) \/ ReviseFails(p) \/ ShutAgainRefused(p)
  BY <1>9 DEF PostLost, PostRefused, ReviseFails, ShutAgainRefused
<1> QED BY <1>1, <1>2, <1>3, <1>4, <1>5, <1>6, <1>7, <1>8, <1>9 DEF Does, Sync, Trouble, Takes

\* Who comes to the end of a sync.
LEMMA PassesSo ==
  ASSUME Shapes, NEW p \in Workers, Does(p), pc[p] \in Locked \cup {"sync"}
  PROVE  /\ owed' = owed
         /\ pc'[p] \in PastSync =>
               TurnAway(p) \/ NoteLock(p) \/ LockRefused(p) \/ (\E t \in Threads : Open(p, t))
<1> USE DEF Shapes, Kinds, Goto, Raise, Rest, Locked, PastSync, Holding, HandingBack, github
<1>0. ASSUME NEW t, NEW open, Synced(p, t, open) PROVE owed' = owed BY <1>0 DEF Synced
<1>1. CASE Record(p) \/ Write(p) \/ SetLock(p) BY <1>1 DEF Record, Write, SetLock
<1>2. CASE TurnAway(p) \/ NoteLock(p) \/ LockRefused(p) BY <1>0, <1>2 DEF TurnAway, NoteLock, LockRefused
<1>3. ASSUME NEW t \in Threads, Open(p, t) PROVE owed' = owed BY <1>0, <1>3 DEF Open
<1>4. CASE Say(p)
  BY <1>4 DEF Say, Look, Locate, Claim, Post, PostGone, HandBack, ForgetThread, Remember, ReadMessage, Revise,
    ReviseGone, Again, ShutAgain
<1>5. CASE Busy(p) \/ Abort(p) BY <1>5 DEF Busy, Abort
<1>6. CASE ClaimLost(p) \/ PostLost(p) \/ PostRefused(p) \/ HandBackFails(p) \/ ReviseFails(p)
           \/ ShutAgainRefused(p)
  BY <1>6 DEF ClaimLost, PostLost, PostRefused, HandBackFails, ReviseFails, ShutAgainRefused
<1> QED BY <1>1, <1>2, <1>3, <1>4, <1>5, <1>6 DEF Does, Sync, Trouble, Takes

\* The sync of a delivery is to come until it is over, or the delivery dropped.
LEMMA ToSyncStays ==
  ASSUME Shapes, SentInv, SyncInv, NEW p \in Workers, Does(p), NEW n \in Flips, ToSync(n)
  PROVE  \/ ToSync(n)'
         \/ /\ job[p] = <<n, 1>> /\ pc[p] \in Locked /\ pc'[p] \in PastSync
            /\ TurnAway(p) \/ NoteLock(p) \/ LockRefused(p) \/ (\E t \in Threads : Open(p, t))
<1>1. Alone(p) BY DoesAlone
<1>2. \A q \in Workers \ {p} : job'[q] = <<n, 1>> => pc'[q] \notin PastSync BY <1>1 DEF Alone, ToSync
<1>3. <<n, 1>> # Nobody
  <2>1. Nobody[2] = 0 /\ <<n, 1>>[2] = 1 BY DEF Nobody
  <2> QED BY <2>1
<1>4. CASE job[p] # <<n, 1>>
  <2>1. <<n, 1>> \in owed' /\ job'[p] # <<n, 1>> BY <1>1, <1>3, <1>4 DEF Alone, ToSync
  <2> QED BY <1>2, <2>1 DEF ToSync
<1>5. CASE job[p] = <<n, 1>>
  <2>1. pc[p] # "idle" /\ IsLine(p) /\ pc[p] \notin PastSync BY <1>1, <1>5 DEF Alone, IsLine, ToSync
  <2>2. pc[p] \in Locked \cup {"sync"} BY <2>1 DEF SyncInv, LineAt
  <2>3. owed' = owed BY <2>2, PassesSo
  <2>4. CASE pc'[p] \notin PastSync BY <1>2, <2>3, <2>4 DEF ToSync
  <2>5. CASE pc'[p] \in PastSync
    <3>1. TurnAway(p) \/ NoteLock(p) \/ LockRefused(p) \/ (\E t \in Threads : Open(p, t))
      BY <2>2, <2>5, PassesSo
    <3>2. pc[p] \in Locked BY <3>1 DEF TurnAway, NoteLock, LockRefused, Open, Locked
    <3> QED BY <1>5, <2>5, <3>1, <3>2
  <2> QED BY <2>4, <2>5
<1> QED BY <1>4, <1>5

LEMMA StoredDoes ==
  ASSUME Shapes, SentInv, SyncInv, NEW p \in Workers, Does(p) PROVE StoredInv'
<1> SUFFICES ASSUME NEW n \in Flips, version[n] # 0, ~ToSync(n)' PROVE stored' >= n
  BY DoesAlone DEF StoredInv, Alone
<1>1. stored' >= stored /\ stored \in Nat /\ stored' \in Nat /\ n \in Nat
  BY StoredSo, DoesNext, ShapesNext, FlipsAreKeys DEF Shapes
<1>2. CASE stored >= n BY <1>1, <1>2
<1>3. CASE ToSync(n)
  <2>1. job[p] = <<n, 1>> /\ pc[p] \in Locked BY <1>3, ToSyncStays
  <2>2. LineAt(p) /\ Key(p) = n BY <2>1 DEF SyncInv, IsLine, Key, Locked
  <2>3. stored >= n BY <2>1, <2>2 DEF LineAt, Locked
  <2> QED BY <1>2, <2>3
<1> QED BY <1>2, <1>3 DEF SyncInv, StoredInv

\* The others' syncs: nobody changes the row's version or its lock beside a sync.
LEMMA LinesOthers ==
  ASSUME Shapes, PointerInv, SyncInv, NEW p \in Workers, Does(p), NEW q \in Workers, q # p,
         pc[q] # "idle", IsLine(q)
  PROVE  LineAt(q)'
<1>1. /\ pc'[q] = pc[q] /\ Key(q)' = Key(q) /\ thread'[q] = thread[q] /\ LineAt(q)
      /\ Key(q) \in Nat
  BY DoesAlone, FlipsAreKeys DEF Alone, SyncInv, IsLine, Key
<1>2. stored' >= stored /\ stored \in Nat /\ stored' \in Nat BY StoredSo, DoesNext, ShapesNext DEF Shapes
<1>3. pc[q] \in Locked => lock = q BY DEF PointerInv
<1>4. pc[q] \in Locked => stored' = stored /\ (note' = note \/ note' = "unknown")
  <2> SUFFICES ASSUME lock = q PROVE stored' = stored /\ (note' = note \/ note' = "unknown") BY <1>3
  <2>1. q # NULL BY NotesAssumption
  <2>2. ~Record(p) BY <2>1 DEF Record
  <2>3. ~NoteLock(p) BY DEF NoteLock, PointerInv, Locked
  <2>4. \A t \in Threads : ~Open(p, t) BY DEF Open, PointerInv, Locked
  <2> QED BY <2>2, <2>3, <2>4, StoredSo, NoteSo
<1>5. pc[q] # "sync" => stored' >= Key(q) BY <1>1, <1>2 DEF LineAt
<1>6. pc[q] = "turned_away" => stored' > Key(q) BY <1>1, <1>2 DEF LineAt
<1> QED BY <1>1, <1>4, <1>5, <1>6 DEF LineAt, Locked

\* A line's own step, to the end of its sync and past it.
LEMMA LineOwn ==
  ASSUME Shapes, PointerInv, SentInv, SyncInv, NEW p \in Workers, Does(p), IsLine(p),
         pc'[p] # "idle"
  PROVE  LineAt(p)'
<1> DEFINE k == Key(p)
<1>1. /\ pc[p] # "idle" /\ Key(p)' = Key(p) /\ LineAt(p) /\ ~IsEdit(p) /\ Key(p) \in Nat
      /\ job[p] = <<Key(p), 1>>
  BY DoesAlone, LineJob, FlipsAreKeys DEF Alone, SyncInv, IsLine
<1>2. stored' >= stored /\ stored \in Nat /\ stored' \in Nat /\ (stored' = stored \/ Record(p))
  BY StoredSo, DoesNext, ShapesNext DEF Shapes
<1> USE DEF Shapes, Kinds, Goto, Finish, Raise, Rest, Locked, PastSync, Holding, HandingBack
<1>3. CASE Record(p)
  <2>1. Carried(p) = Key(p) /\ thread'[p] = pointer BY <1>3 DEF Carried, Record
  <2>2. stored' = IF Key(p) < stored THEN stored ELSE Key(p) BY <1>3, <2>1 DEF Record
  <2>3. pc'[p] = IF (~(Key(p) < stored) \/ pointer = NULL) THEN "write"
                 ELSE IF Closed(stored) /\ note # "shut" THEN "set_lock" ELSE "turned_away"
    BY <1>3, <2>1 DEF Record
  <2>4. note' = note BY <1>3 DEF Record
  <2>5. stored' >= Key(p) /\ (~(Key(p) < stored) => stored' = Key(p)) BY <1>1, <1>2, <2>2
  <2>6. pc'[p] = "turned_away" => stored' > Key(p) BY <1>1, <1>2, <2>2, <2>3
  <2> QED BY <1>1, <2>1, <2>3, <2>4, <2>5, <2>6 DEF LineAt
<1>4. ASSUME pc'[p] = "look", pc[p] \in Locked PROVE LineAt(p)' BY <1>1, <1>2, <1>4 DEF LineAt
<1>5. CASE TurnAway(p) \/ NoteLock(p) \/ LockRefused(p)
  BY <1>4, <1>5 DEF TurnAway, NoteLock, LockRefused, Synced
<1>6. CASE Write(p)
  <2>1. thread[p] # NULL /\ stored' = stored /\ pc[p] = "write"
    BY <1>6, NotesAssumption DEF Write, PointerInv, row
  <2>2. stored' = Key(p) /\ pc'[p] \in {"set_lock", "note_lock"} BY <1>1, <1>6, <2>1 DEF LineAt, Write
  <2> QED BY <1>1, <2>2 DEF LineAt
<1>7. ASSUME NEW t \in Threads, Open(p, t) PROVE LineAt(p)'
  <2>1. CASE Closed(stored)
    <3>1. pc[p] = "write" /\ pc'[p] = "set_lock" /\ note' = "unknown" /\ stored' = stored
      BY <1>7, <2>1 DEF Open
    <3> QED BY <1>1, <3>1 DEF LineAt
  <2>2. CASE ~Closed(stored) BY <1>4, <1>7, <2>2 DEF Open, Synced
  <2> QED BY <2>1, <2>2
<1>8. CASE SetLock(p)
  <2>1. pc[p] = "set_lock" /\ pc'[p] = "note_lock" /\ stored' = stored /\ Closed(stored)
    BY <1>8 DEF SetLock, SyncInv, SyncAt, row
  <2> QED BY <1>1, <2>1 DEF LineAt
<1>9. ASSUME ~Record(p), stored' >= Key(p),
             pc'[p] \in (PastSync \cup {"sync"}) \ {"back_gone"}
      PROVE  LineAt(p)' BY <1>1, <1>9 DEF LineAt
<1>10. CASE Say(p)
  <2>1. pc[p] \in PastSync \ {"back_gone"} /\ stored' = stored
    BY <1>1, <1>2, <1>10 DEF LineAt, Say, Look, Locate, Claim, Post, PostGone, HandBack, ForgetThread,
      Remember, ReadMessage, Revise, ReviseGone, Again, ShutAgain, row
  <2>2. pc'[p] \in (PastSync \cup {"sync"}) \ {"back_gone"}
    <3>1. CASE Look(p) \/ Claim(p) BY <1>1, <3>1 DEF Look, Claim
    <3>2. CASE Post(p) \/ PostGone(p) BY <3>2 DEF Post, PostGone
    <3>3. CASE HandBack(p) BY <2>1, <3>3 DEF HandBack, OnwardFrom
    <3>4. CASE Again(p) \/ ShutAgain(p) BY <3>4 DEF Again, ShutAgain
    <3> QED BY <1>10, <2>1, <3>1, <3>2, <3>3, <3>4 DEF Say, Locate, ForgetThread, Remember, ReadMessage,
      Revise, ReviseGone
  <2> QED BY <1>1, <1>9, <2>1, <2>2 DEF LineAt, Record
<1>11. CASE Trouble(p) /\ ~Takes(p) /\ ~LockRefused(p)
  <2>1. PostLost(p) \/ PostRefused(p) BY <1>1, <1>11
       DEF LineAt, Trouble, Takes, Busy, ClaimLost, HandBackFails, OnwardFrom, ReviseFails,
           ShutAgainRefused, Abort
  <2>2. pc[p] = "post" /\ pc'[p] \in {"back_failed", "back_refused"} /\ stored' = stored
    BY <2>1 DEF PostLost, PostRefused, row
  <2> QED BY <1>1, <1>9, <2>2 DEF LineAt, Record
<1> QED BY <1>3, <1>5, <1>6, <1>7, <1>8, <1>10, <1>11 DEF Does, Sync, Trouble

LEMMA SyncAtKept ==
  ASSUME Shapes, PointerInv, SyncInv, NEW p \in Workers, Does(p), NEW q \in Workers PROVE SyncAt(q)'
<1> USE DEF Shapes, Kinds, Goto, Locked
<1>1. CASE q # p
  <2>1. pc'[q] = pc[q] /\ thread'[q] = thread[q] /\ SyncAt(q) BY <1>1, DoesAlone DEF Alone, SyncInv
  <2>2. SUFFICES ASSUME pc[q] \in Locked PROVE SyncAt(q)' BY <2>1 DEF SyncAt
  <2>3. lock = q /\ q # NULL BY <2>2, NotesAssumption DEF PointerInv
  <2>4. ~Record(p) /\ ~NoteLock(p) /\ \A t \in Threads : ~Open(p, t)
    BY <1>1, <2>3 DEF Record, NoteLock, Open, PointerInv
  <2>5. (note' = note /\ pointer' = pointer) \/ pointer' = NULL BY <2>4, StoredSo, NoteSo
  <2>6. stored' = stored BY <2>4, StoredSo
  <2> QED BY <2>1, <2>5, <2>6 DEF SyncAt
<1>2. CASE q = p
  <2>1. SUFFICES ASSUME pc'[p] \in Locked PROVE SyncAt(p)' BY <1>2 DEF SyncAt
  <2>2. CASE Record(p)
    <3>1. /\ thread'[p] = pointer /\ pointer' = pointer /\ note' = note
          /\ pc'[p] # "note_lock"
          /\ pc'[p] \in {"set_lock", "turned_away"} => stored' = stored
          /\ pc'[p] = "set_lock" => Closed(stored)
          /\ pc'[p] = "turned_away" => ~Closed(stored) \/ note = "shut"
      BY <2>2 DEF Record
    <3> QED BY <1>2, <3>1 DEF SyncAt
  <2>3. CASE Write(p) \/ SetLock(p)
    <3>1. /\ thread'[p] = thread[p] /\ pointer' = pointer /\ note' = note /\ stored' = stored
          /\ pc[p] \in Locked /\ pc'[p] \in {"set_lock", "note_lock"}
          /\ pc'[p] = "set_lock" => Closed(stored)
      BY <2>1, <2>3 DEF Write, SetLock, Raise, Rest, local, row
    <3> QED BY <1>2, <3>1 DEF SyncAt, SyncInv
  <2>4. ASSUME NEW t \in Threads, Open(p, t) PROVE SyncAt(p)'
    <3>1. Closed(stored) BY <2>1, <2>4 DEF Open, Synced, Raise, Rest
    <3>2. thread'[p] = t /\ pointer' = t /\ pc'[p] = "set_lock" /\ stored' = stored BY <2>4, <3>1 DEF Open
    <3> QED BY <1>2, <3>1, <3>2 DEF SyncAt
  <2>5. pc'[p] \notin {"look", "idle"} BY <2>1
  <2>6. CASE TurnAway(p) \/ NoteLock(p) \/ LockRefused(p)
    BY <2>5, <2>6 DEF TurnAway, NoteLock, LockRefused, Synced, Raise, Rest
  <2>7. CASE Say(p) \/ (Trouble(p) /\ ~Takes(p) /\ ~LockRefused(p))
    <3>1. pc'[p] \notin Locked
      <4>1. CASE Finish(p) \/ Raise(p) BY <4>1 DEF Finish, Raise, Rest
      <4>2. CASE ~Finish(p) /\ ~Raise(p) BY <2>7, <4>2
           DEF Say, Look, Locate, Claim, Post, PostGone, HandBack, OnwardFrom, ForgetThread,
               Remember, ReadMessage, Revise, ReviseGone, Again, ShutAgain, Trouble, Takes, Busy,
               ClaimLost, PostLost, PostRefused, HandBackFails, ReviseFails, ShutAgainRefused, Abort
      <4> QED BY <4>1, <4>2
    <3> QED BY <2>1, <3>1
  <2> QED BY <2>2, <2>3, <2>4, <2>6, <2>7 DEF Does, Sync
<1> QED BY <1>1, <1>2

LEMMA SyncDoes ==
  ASSUME Shapes, PointerInv, SentInv, SyncInv, NEW p \in Workers, Does(p) PROVE SyncInv'
<1>1. Alone(p) BY DoesAlone
<1>2. FlipsInv' BY <1>1 DEF SyncInv, FlipsInv, Alone
<1>3. ASSUME NEW q \in Workers, pc'[q] # "idle", IsLine(q)' PROVE LineAt(q)'
  <2>1. pc[q] # "idle" /\ IsLine(q) BY <1>1, <1>3 DEF Alone, IsLine
  <2> QED BY <1>3, <2>1, LinesOthers, LineOwn
<1>4. lock' # NULL => lock' \in Workers /\ pc'[lock'] \in Locked
  <2>0. p # NULL BY NotesAssumption
  <2>1. CASE pc[p] \in Locked \/ Record(p)
    <3>1. lock' = NULL \/ (lock' = p /\ pc'[p] \in Locked) BY <2>1, LockSo DEF Locked, Record
    <3> QED BY <3>1
  <2>2. CASE pc[p] \notin Locked /\ ~Record(p)
    <3>1. lock # p BY <2>0, <2>2 DEF SyncInv
    <3>2. lock' = lock BY <2>2, <3>1, LockSo
    <3> QED BY <1>1, <3>1, <3>2 DEF SyncInv, Alone
  <2> QED BY <2>1, <2>2
<1> QED BY <1>2, <1>3, <1>4, StoredDoes, SyncAtKept DEF SyncInv

\* What a step does that leaves every sync where it is.
LEMMA SyncOutside ==
  ASSUME Shapes, SyncInv, FlipsInv', UNCHANGED <<stored, lock>>,
         UNCHANGED <<note, pointer>> \/ (pointer' = NULL /\ note' = "unknown"),
         owed \subseteq owed',
         \A n \in Flips : version'[n] # 0 => version[n] # 0 \/ ToSync(n)',
         \A q \in Workers : \/ pc'[q] = pc[q] /\ job'[q] = job[q] /\ thread'[q] = thread[q]
                            \/ pc[q] = "idle" /\ pc'[q] = "locate" /\ ~IsLine(q)'
                            \/ pc[q] = "idle" /\ pc'[q] = "sync"
  PROVE  SyncInv'
<1>1. ASSUME NEW n \in Flips, ToSync(n) PROVE ToSync(n)' BY <1>1 DEF ToSync, PastSync, Holding, HandingBack
<1>2. StoredInv' BY <1>1 DEF SyncInv, StoredInv
<1>3. ASSUME NEW q \in Workers, pc'[q] # "idle", IsLine(q)' PROVE LineAt(q)'
  <2>1. CASE pc'[q] = "sync" BY <2>1 DEF LineAt
  <2>2. CASE pc'[q] # "sync"
    <3>1. /\ pc'[q] = pc[q] /\ thread'[q] = thread[q] /\ Key(q)' = Key(q) /\ LineAt(q)
      BY <1>3, <2>2 DEF SyncInv, IsLine, Key
    <3> QED BY <3>1 DEF LineAt
  <2> QED BY <2>1, <2>2
<1>4. ASSUME NEW q \in Workers PROVE SyncAt(q)'
  <2>1. SyncAt(q) BY DEF SyncInv
  <2>2. (pc'[q] = pc[q] /\ thread'[q] = thread[q]) \/ pc'[q] \in {"sync", "locate"} OBVIOUS
  <2> QED BY <2>1, <2>2 DEF SyncAt, Locked
<1>5. lock' # NULL => lock' \in Workers /\ pc'[lock'] \in Locked BY DEF SyncInv, Locked
<1> QED BY <1>2, <1>3, <1>4, <1>5 DEF SyncInv

LEMMA FlipsArrive ==
  ASSUME Shapes, FlipsInv, NEW k \in Keys, Arrive(k) PROVE FlipsInv'
<1>1. version' = [version EXCEPT ![k] = @ + 1] /\ version[k] \in Nat BY DEF Arrive, Shapes, Kinds
<1>2. CASE k \notin Flips BY <1>1, <1>2 DEF FlipsInv
<1>3. CASE k \in Flips
  <2>1. version[k] = 0 /\ \A n \in Flips : n < k => version[n] = 1 BY <1>3, NotesAssumption DEF Arrive, Flips
  <2>2. PICK c \in 0 .. MaxFlips : \A n \in Flips : version[n] = IF n <= c THEN 1 ELSE 0 BY DEF FlipsInv
  <2>3. k \in 1 .. MaxFlips /\ \A n \in Flips : n \in 1 .. MaxFlips BY <1>3 DEF Flips
  <2>4. c < k BY <1>3, <2>1, <2>2, <2>3
  <2>5. \A n \in Flips : version'[n] = IF n <= k THEN 1 ELSE 0
    <3> SUFFICES ASSUME NEW n \in Flips PROVE version'[n] = IF n <= k THEN 1 ELSE 0 OBVIOUS
    <3>1. n \in Keys /\ n \in Nat /\ k \in Nat BY <1>3, FlipsAreKeys
    <3>2. CASE n = k BY <1>1, <2>1, <3>1, <3>2 DEF Shapes, Kinds
    <3>3. CASE n # k
      <4>1. version'[n] = version[n] BY <1>1, <3>1, <3>3 DEF Shapes, Kinds
      <4>2. CASE n < k BY <2>1, <3>1, <4>1, <4>2
      <4>3. CASE ~(n < k) BY <2>2, <2>4, <3>1, <3>3, <4>1, <4>3
      <4> QED BY <4>2, <4>3
    <3> QED BY <3>2, <3>3
  <2>6. k \in 0 .. MaxFlips BY <2>3, NotesAssumption
  <2> QED BY <2>5, <2>6 DEF FlipsInv
<1> QED BY <1>2, <1>3

LEMMA SyncNext ==
  ASSUME Shapes, PointerInv, SentInv, SyncInv, [Next]_vars PROVE SyncInv'
<1>0. ASSUME version' = version PROVE FlipsInv' BY <1>0 DEF SyncInv, FlipsInv
<1>1. ASSUME UNCHANGED <<version, owed, stored, lock, pc, job, thread>>,
             UNCHANGED <<note, pointer>> \/ (pointer' = NULL /\ note' = "unknown")
      PROVE  SyncInv' BY <1>0, <1>1, SyncOutside
<1>2. CASE UNCHANGED vars BY <1>1, <1>2 DEF vars, row, local, github
<1>3. ASSUME NEW t \in Threads, Delete(t) \/ Report(t) PROVE SyncInv'
  BY <1>1, <1>3 DEF Delete, Report, Forget, Names, row, local, github
<1>4. ASSUME NEW k \in Keys, NEW i \in DOMAIN posted[k], DeleteMessage(k, i) PROVE SyncInv'
  BY <1>1, <1>4 DEF DeleteMessage, row, local, github
<1>5. CASE Toggle BY <1>1, <1>5 DEF Toggle, local, github
<1>6. ASSUME NEW k \in Keys, Arrive(k) PROVE SyncInv'
  <2>1. /\ UNCHANGED <<stored, lock, note, pointer, pc, job, thread>>
        /\ version' = [version EXCEPT ![k] = @ + 1] /\ owed' = owed \cup {<<k, version[k] + 1>>}
    BY <1>6 DEF Arrive, row, local
  <2>2. FlipsInv' BY <1>6, FlipsArrive DEF SyncInv
  <2>3. ASSUME NEW n \in Flips, version'[n] # 0, version[n] = 0 PROVE ToSync(n)'
    <3>1. n \in Keys /\ k = n BY <2>1, <2>3, FlipsAreKeys DEF Shapes, Kinds
    <3>2. <<n, 1>> \in owed' BY <2>1, <2>3, <3>1
    <3>3. ASSUME NEW q \in Workers, job'[q] = <<n, 1>>, pc'[q] \in PastSync PROVE FALSE
      <4>1. pc[q] # "idle" /\ job[q] = <<n, 1>> /\ Key(q) = n
        BY <2>1, <3>3 DEF Key, PastSync, Holding, HandingBack
      <4>2. job[q][2] <= version[Key(q)] /\ job[q][2] = 1 BY <4>1 DEF SentInv
      <4> QED BY <2>3, <4>1, <4>2
    <3> QED BY <3>2, <3>3 DEF ToSync
  <2> QED BY <2>1, <2>2, <2>3, SyncOutside
<1>7. ASSUME NEW p \in Workers, Takes(p) PROVE SyncInv'
  <2>1. PICK d \in owed : TakesIt(p, d) BY <1>7, TakesSo
  <2>2. UNCHANGED <<version, owed, stored, lock, note, pointer, thread>> BY <2>1 DEF TakesIt, github, row
  <2>3. \A q \in Workers : \/ pc'[q] = pc[q] /\ job'[q] = job[q] /\ thread'[q] = thread[q]
                           \/ pc[q] = "idle" /\ pc'[q] = "locate" /\ ~IsLine(q)'
                           \/ pc[q] = "idle" /\ pc'[q] = "sync"
    BY <2>1, <2>2 DEF TakesIt, IsLine
  <2> QED BY <1>0, <2>2, <2>3, SyncOutside
<1> QED BY <1>2, <1>3, <1>4, <1>5, <1>6, <1>7, SyncDoes DEF Next, Environment, Does, Takes

----
\* The lock.  While the row's thread is not shut as the row says, the sync
\* of the row's version is to come or stands before the step that settles
\* it, or somebody who woke the thread has yet to see to it.

Unmended == \A k \in Keys : ~Excused(k, {"unshut", "raced", "woken"}) /\ ~GivenUpHalfway(k)

\* Where who has woken the thread has yet to see to it.
ToSee == {"remember", "again", "shut_again"}

\* Handled again, the delivery wakes the thread and sees to it, or says why not.
Unsaid(k, d) ==
    k \in claimed => \/ \E h \in Workers : job[h] = d /\ pc[h] \in Holding
                     \/ message[k] # 0 /\ d[2] > 1
Unseen(k, d) ==
    \A q \in Workers : job[q] = d => /\ pc[q] \notin ToSee
                                     /\ pc[q] = "read_message" => message[k] # 0
WillWake(k, d) == d \in owed /\ d[1] = k /\ Unsaid(k, d) /\ Unseen(k, d)
Retry(k) == Excused(k, {"half"}) /\ \E d \in owed : WillWake(k, d)

\* Somebody stands before the step that shuts the thread again, or will.
Seeing(p) == pc[p] \in ToSee /\ thread[p] = pointer
Mending   == (\E p \in Workers : Seeing(p)) \/ \E k \in Keys : Retry(k)

\* While nothing is excused, what was halfway is not given up.
LEMMA StillOpen ==
  ASSUME [Next]_vars, Unmended', NEW k \in Keys
  PROVE  /\ ~Excused(k, {"unshut", "raced", "woken"})'
         /\ Excused(k, {"half"}) => Excused(k, {"half"})'
         /\ Excused(k, {"half"})' => ~Overlap(k) /\ ~Overlap(k)' /\ ~Excused(k, Excuses)'
<1>1. excuses \subseteq excuses' BY ExcusesGrow
<1>2. ~Excused(k, {"unshut", "raced", "woken"})' BY DEF Unmended
<1>3. Excused(k, {"half"}) => Excused(k, {"half"})' BY <1>1 DEF Excused
<1>4. Excused(k, {"half"})' => ~Excused(k, Excuses)' BY DEF Unmended, GivenUpHalfway, Excuses
<1>5. Overlap(k) \/ Overlap(k)' => Excused(k, Excuses)' BY <1>1 DEF Overlap, Excused, Excuses
<1> QED BY <1>2, <1>3, <1>4, <1>5

\* So a step gives no excuse that would end it.
LEMMA NoExcuse ==
  ASSUME Unmended', NEW k \in Keys, NEW reasons, Excuse(reasons, k)
  PROVE  /\ reasons \cap {"unshut", "raced", "woken"} = {}
         /\ Excused(k, {"half"})' => reasons \cap Excuses = {}
<1>1. reasons \cap {"unshut", "raced", "woken"} = {} BY DEF Unmended, Excuse, Excused
<1>2. Excused(k, {"half"})' => ~Excused(k, Excuses)' BY DEF Unmended, GivenUpHalfway, Excuses
<1>3. reasons \cap Excuses # {} => Excused(k, Excuses)' BY DEF Excuse, Excused
<1> QED BY <1>1, <1>2, <1>3

\* Who has a delivery alone.
LEMMA HasAlone ==
  ASSUME Shapes, OwedInv, NEW p \in Workers, pc[p] # "idle", ~Overlap(Key(p))
  PROVE  job[p] \in owed /\ \A q \in Workers : job[q] = job[p] => q = p
BY DEF OwedInv, WorkInv

LEMMA RetryOthers ==
  ASSUME Shapes, NEW p \in Workers, Does(p), NEW k \in Keys, Key(p) # k, NEW d, WillWake(k, d)
  PROVE  WillWake(k, d)'
<1>1. Alone(p) /\ Recalls(p) /\ (k \in claimed' <=> k \in claimed) BY DoesAlone, RecallsSo, ClaimsOwn
<1>2. message'[k] = message[k] BY <1>1 DEF Recalls
<1>3. d[1] = k /\ job[p] # d /\ Nobody # d BY NotesAssumption DEF WillWake, Key, Nobody
<1>4. d \in owed' /\ job'[p] # d BY <1>1, <1>3 DEF Alone, WillWake
<1>5. \A q \in Workers \ {p} : job'[q] = job[q] /\ pc'[q] = pc[q] BY <1>1 DEF Alone
<1>6. Unsaid(k, d)' BY <1>1, <1>2, <1>3, <1>5 DEF WillWake, Unsaid
<1>7. Unseen(k, d)' BY <1>2, <1>4, <1>5 DEF WillWake, Unseen
<1> QED BY <1>3, <1>4, <1>6, <1>7 DEF WillWake

\* What who has the note must see to, when the claim and the message stay.
LEMMA RetryGoes ==
  ASSUME Shapes, NEW p \in Workers, Does(p), NEW k \in Keys, Key(p) = k, NEW d, WillWake(k, d),
         UNCHANGED claims,
         pc'[p] \in Holding \/ pc[p] \notin Holding,
         job[p] = d => /\ owed' = owed
                       /\ pc'[p] \notin ToSee
                       /\ pc'[p] = "read_message" => message[k] # 0
  PROVE  WillWake(k, d)'
<1>1. Alone(p) BY DoesAlone
<1>2. Nobody # d /\ d[1] = k BY NotesAssumption DEF WillWake, Nobody
<1>3. d \in owed' /\ (job'[p] = d => job[p] = d) BY <1>1, <1>2 DEF Alone, WillWake
<1>4. \A q \in Workers \ {p} : job'[q] = job[q] /\ pc'[q] = pc[q] BY <1>1 DEF Alone
<1>5. Unsaid(k, d)'
  <2> SUFFICES ASSUME k \in claimed, ~(message[k] # 0 /\ d[2] > 1)
               PROVE  \E h \in Workers : job'[h] = d /\ pc'[h] \in Holding
    BY DEF Unsaid, claims
  <2>1. PICK h \in Workers : job[h] = d /\ pc[h] \in Holding BY DEF WillWake, Unsaid
  <2>2. CASE h = p
    <3>1. pc'[p] \in Holding BY <2>1, <2>2
    <3>2. job'[p] = job[p] BY <1>1, <3>1 DEF Alone, Holding, HandingBack
    <3> QED BY <2>1, <2>2, <3>1, <3>2
  <2>3. CASE h # p BY <1>4, <2>1, <2>3
  <2> QED BY <2>2, <2>3
<1>6. Unseen(k, d)'
  <2>1. message' = message BY DEF claims
  <2>2. ASSUME NEW q \in Workers, job'[q] = d
        PROVE  /\ pc'[q] \notin ToSee
               /\ pc'[q] = "read_message" => message'[k] # 0
    BY <1>3, <1>4, <2>1, <2>2 DEF WillWake, Unseen
  <2> QED BY <2>2 DEF Unseen
<1> QED BY <1>2, <1>3, <1>5, <1>6 DEF WillWake

\* Who has just woken the thread halfway, and means to do it again.
LEMMA RetryOwn ==
  ASSUME Shapes, OwedInv, NEW p \in Workers, Does(p), NEW k \in Keys, Key(p) = k, ~Overlap(k),
         Excused(k, {"half"})', owed' = owed,
         k \in claimed' => \/ pc'[p] \in Holding
                           \/ message'[k] # 0 /\ job[p][2] > 1,
         pc'[p] \in Holding \cup {"idle"}
  PROVE  Retry(k)'
<1>1. Alone(p) BY DoesAlone
<1>2. job[p] \in owed /\ \A q \in Workers : job[q] = job[p] => q = p BY <1>1, HasAlone DEF Alone
<1>3. SUFFICES ASSUME NEW d, d = job[p] PROVE d \in owed' /\ WillWake(k, d)' BY DEF Retry
<1>4. d \in owed' /\ d[1] = k /\ Nobody # d BY <1>2, <1>3, NotesAssumption DEF Key, Nobody
<1>5. \A q \in Workers : job'[q] = d => q = p /\ pc'[p] \in Holding BY <1>1, <1>2, <1>3, <1>4 DEF Alone
<1>6. pc'[p] \in Holding => job'[p] = d BY <1>1, <1>3 DEF Alone, Holding, HandingBack
<1>7. Unsaid(k, d)' BY <1>3, <1>6 DEF Unsaid
<1>8. Unseen(k, d)' BY <1>5 DEF Unseen, ToSee, Holding, HandingBack
<1> QED BY <1>4, <1>7, <1>8 DEF WillWake

LEMMA RetrySync ==
  ASSUME Shapes, [Next]_vars, Unmended', NEW p \in Workers, Sync(p), NEW k \in Keys, Key(p) = k,
         Retry(k)
  PROVE  Retry(k)'
<1> PICK d \in owed : WillWake(k, d) BY DEF Retry
<1>0. Does(p) BY DEF Does
<1>1. UNCHANGED claims BY DEF Sync, Record, TurnAway, Write, Open, SetLock, NoteLock
<1>2. pc[p] \in Locked \cup {"sync"} BY DEF Sync, Record, TurnAway, Write, Open, SetLock, NoteLock, Locked
<1>3. owed' = owed BY <1>0, <1>2, PassesSo
<1>4. pc'[p] \notin ToSee \cup {"read_message"}
  BY <1>0, <1>2, ComesSo DEF Comes, ToSee, Post, Remember, Revise, Again, Claim, Locked
<1>5. pc[p] \notin Holding BY <1>2 DEF Locked, Holding, HandingBack
<1>6. WillWake(k, d)' BY <1>0, <1>1, <1>3, <1>4, <1>5, RetryGoes
<1> QED BY <1>3, <1>6, StillOpen DEF Retry

LEMMA RetrySay ==
  ASSUME Shapes, PointerInv, HolderInv, OwedInv, SaidInv, InTheRowsThread, [Next]_vars, Unmended',
         NEW p \in Workers, Say(p), NEW k \in Keys, Key(p) = k, Retry(k)
  PROVE  Retry(k)' \/ Seeing(p)'
<1> USE DEF Shapes, Kinds, Goto, Holding, HandingBack, ToSee, discord, github, row
<1> PICK d \in owed : WillWake(k, d) BY DEF Retry
<1>0. Does(p) BY DEF Does
<1>a. Excused(k, {"half"})' /\ ~Overlap(k) BY StillOpen DEF Retry
<1>b. /\ Alone(p) /\ pc[p] # "idle" /\ job[p] \in owed
      /\ \A q \in Workers : job[q] = job[p] => q = p
  BY <1>0, <1>a, DoesAlone, HasAlone DEF Alone
<1>c. SUFFICES ASSUME ~Seeing(p)' PROVE WillWake(k, d)' \/ Retry(k)' BY <1>a DEF Retry, WillWake
<1>d. ASSUME NEW reasons, Excuse(reasons, k)
      PROVE  reasons \cap ({"unshut", "raced", "woken"} \cup Excuses) = {}
  BY <1>a, <1>d, NoExcuse
<1>1. CASE Look(p) \/ Locate(p)
  <2>1. UNCHANGED claims /\ pc[p] \in {"look", "locate"} BY <1>1 DEF Look, Locate
  <2>2. owed' = owed /\ pc'[p] \in {"claim", "sync"} BY <1>1, <1>d DEF Look, Locate, Excuses
  <2> QED BY <1>0, <2>1, <2>2, RetryGoes
<1>2. CASE Claim(p)
  <2>1. message' = message /\ pc[p] = "claim" BY <1>2 DEF Claim
  <2>2. job[p] = d /\ k \in claimed => message[k] # 0 /\ d[2] > 1 BY <1>b, <2>1 DEF WillWake, Unsaid
  <2>3. CASE k \notin claimed
    <3>1. owed' = owed /\ pc'[p] = "post" BY <1>2, <2>3 DEF Claim, Unclaimed
    <3> QED BY <1>0, <1>a, <3>1, RetryOwn
  <2>4. CASE k \in claimed /\ IsEdit(p)
    <3>1. owed' = owed /\ pc'[p] = "read_message" /\ claimed' = claimed BY <1>2, <2>4 DEF Claim, Unclaimed
    <3> QED BY <1>0, <2>1, <2>2, <2>4, <3>1, RetryGoes DEF claims
  <2>5. CASE k \in claimed /\ ~IsEdit(p)
    <3>1. pc'[p] = "idle" /\ claimed' = claimed /\ job[p] # d
      BY <1>2, <2>2, <2>5 DEF Claim, Unclaimed, Finish, Rest, IsEdit
    <3> QED BY <1>0, <2>1, <3>1, RetryGoes DEF claims
  <2> QED BY <2>3, <2>4, <2>5
<1>3. CASE Post(p)
  <2>1. thread[p] \in live /\ pc'[p] \in ToSee /\ pointer' = pointer /\ thread' = thread BY <1>3 DEF Post
  <2>2. Seeing(p)' BY <2>1 DEF Seeing, InTheRowsThread
  <2> QED BY <1>c, <2>2
<1>4. CASE PostGone(p) BY <1>0, <1>4, RetryGoes DEF PostGone
<1>5. CASE HandBack(p)
  <2>1. /\ claimed' = claimed \ {k} /\ message' = [message EXCEPT ![k] = 0] /\ pc[p] \in Holding
        /\ pc'[p] \in {"forget", "idle"} /\ owed' = owed
    BY <1>5, <1>d DEF HandBack, Release, OnwardFrom, Raise, Rest, Excuses
  <2>2. message[k] = 0 BY <2>1, HoldersRememberNone
  <2>3. Nobody # d /\ d[1] = k BY NotesAssumption DEF WillWake, Nobody
  <2>4. Unsaid(k, d)' BY <2>1 DEF Unsaid
  <2>5. ASSUME NEW q \in Workers, job'[q] = d PROVE pc'[q] \notin ToSee \cup {"read_message"}
    <3>1. CASE q = p BY <2>1, <3>1
    <3>2. CASE q # p BY <1>b, <2>2, <2>5, <3>2 DEF Alone, WillWake, Unseen
    <3> QED BY <3>1, <3>2
  <2>6. Unseen(k, d)' BY <2>5 DEF Unseen
  <2> QED BY <2>1, <2>3, <2>4, <2>6 DEF WillWake
<1>6. CASE ForgetThread(p) BY <1>0, <1>6, RetryGoes DEF ForgetThread
<1>7. CASE Remember(p)
  <2>1. pc[p] = "remember" BY <1>7 DEF Remember
  <2>2. message[k] = 0 /\ Known(posted[k]) BY <2>1 DEF SaidInv, SaidOf, AfterPost
  <2>3. k \in claimed /\ \A h \in Workers : pc[h] \in Holding => Key(h) # k BY <2>2 DEF HolderInv
  <2>4. PICK h \in Workers : job[h] = d /\ pc[h] \in Holding BY <2>2, <2>3 DEF WillWake, Unsaid
  <2> QED BY <2>3, <2>4 DEF WillWake, Key
<1>8. CASE ReadMessage(p)
  <2>1. UNCHANGED claims /\ pc[p] = "read_message" BY <1>8 DEF ReadMessage
  <2>2. CASE message[k] = 0
    <3>1. job[p] # d /\ pc'[p] = "idle" BY <1>8, <2>1, <2>2 DEF WillWake, Unseen, ReadMessage, Finish, Rest
    <3> QED BY <1>0, <2>1, <3>1, RetryGoes
  <2>3. CASE message[k] # 0
    <3>1. pc'[p] = "revise" /\ owed' = owed BY <1>8, <2>3 DEF ReadMessage
    <3> QED BY <1>0, <2>1, <3>1, RetryGoes
  <2> QED BY <2>2, <2>3
<1>9. CASE Revise(p)
  <2>1. StillThere(p) BY <1>9, <1>d DEF Revise
  <2>2. thread[p] \in live /\ pc'[p] \in ToSee /\ pointer' = pointer /\ thread' = thread
    BY <1>9, <2>1 DEF Revise, local
  <2>3. Seeing(p)' BY <2>2 DEF Seeing, InTheRowsThread
  <2> QED BY <1>c, <2>3
<1>10. CASE ReviseGone(p) BY <1>0, <1>10, RetryGoes DEF ReviseGone, Raise, Rest
<1>11. CASE Again(p) \/ ShutAgain(p)
  <2>1. UNCHANGED claims /\ pc[p] \in ToSee \ Holding BY <1>11 DEF Again, ShutAgain
  <2>2. job[p] # d BY <2>1 DEF WillWake, Unseen
  <2> QED BY <1>0, <2>1, <2>2, RetryGoes
<1> QED BY <1>1, <1>2, <1>3, <1>4, <1>5, <1>6, <1>7, <1>8, <1>9, <1>10, <1>11 DEF Say

LEMMA RetryTrouble ==
  ASSUME Shapes, SaidInv, [Next]_vars, Unmended', NEW p \in Workers, Trouble(p), ~Takes(p),
         NEW k \in Keys, Key(p) = k, Retry(k)
  PROVE  Retry(k)'
<1> USE DEF Shapes, Kinds, Goto, Raise, Rest, Holding, HandingBack, ToSee, discord, github, row
<1> PICK d \in owed : WillWake(k, d) BY DEF Retry
<1>0. Does(p) BY DEF Does
<1>a. Excused(k, {"half"})' BY StillOpen DEF Retry
<1>b. SUFFICES WillWake(k, d)' BY <1>a DEF Retry, WillWake
<1>c. ASSUME NEW reasons, Excuse(reasons, k)
      PROVE  reasons \cap ({"unshut", "raced", "woken"} \cup Excuses) = {}
  BY <1>a, <1>c, NoExcuse
<1>1. CASE Busy(p) BY <1>0, <1>1, RetryGoes DEF Busy
<1>2. CASE LockRefused(p) \/ ClaimLost(p) \/ HandBackFails(p) \/ ShutAgainRefused(p)
  BY <1>2, <1>c DEF LockRefused, ClaimLost, HandBackFails, ShutAgainRefused, Excuses
<1>3. CASE PostLost(p) \/ PostRefused(p)
  <2>1. UNCHANGED claims /\ owed' = owed /\ pc'[p] \in HandingBack BY <1>3 DEF PostLost, PostRefused
  <2> QED BY <1>0, <2>1, RetryGoes
<1>4. CASE ReviseFails(p)
  <2>1. UNCHANGED claims /\ pc[p] = "revise" BY <1>4 DEF ReviseFails
  <2>2. ~Excuse({"half", "refused"}, k)
    <3>1. "refused" \in {"half", "refused"} \cap ({"unshut", "raced", "woken"} \cup Excuses) BY DEF Excuses
    <3>2. ASSUME Excuse({"half", "refused"}, k) PROVE FALSE
      <4>1. {"half", "refused"} \cap ({"unshut", "raced", "woken"} \cup Excuses) = {} BY <1>c, <3>2
      <4> QED BY <3>1, <4>1
    <3> QED BY <3>2
  <2>3. owed' = owed /\ pc'[p] = "idle" BY <1>4, <2>2 DEF ReviseFails
  <2> QED BY <1>0, <2>1, <2>3, RetryGoes
<1>5. CASE Abort(p)
  <2>1. pc[p] \notin Holding BY <1>5, <1>c DEF Abort, Cost, Excuses
  <2>2. UNCHANGED claims /\ owed' = owed /\ pc'[p] = "idle" BY <1>5 DEF Abort
  <2> QED BY <1>0, <2>1, <2>2, RetryGoes
<1> QED BY <1>1, <1>2, <1>3, <1>4, <1>5 DEF Trouble, Takes

\* Who stands before the step that shuts the thread again takes it.
LEMMA SeeingKept ==
  ASSUME Shapes, Unmended', NEW p \in Workers, Does(p), pointer' = pointer,
         NEW q \in Workers, Seeing(q)
  PROVE  \/ Seeing(q)'
         \/ q = p /\ Again(p) /\ note # "shut"
         \/ q = p /\ ShutAgain(p)
<1> USE DEF Shapes, Kinds, ToSee, Seeing
<1>1. Alone(p) /\ Key(p) \in Keys BY DoesAlone
<1>2. CASE q # p BY <1>1, <1>2 DEF Alone
<1>3. CASE q = p
  <2>0. ASSUME NEW reasons, NEW k \in Keys, Key(p) = k, Excuse(reasons, k) PROVE "unshut" \notin reasons
    BY <2>0, NoExcuse
  <2>1. CASE Sync(p) BY <1>3, <2>1 DEF Sync, Record, TurnAway, Write, Open, SetLock, NoteLock
  <2>2. CASE Remember(p) \/ Again(p) BY <1>3, <2>2 DEF Remember, Again, RowSaysShut, Goto, local
  <2>3. CASE Say(p) /\ ~Remember(p) /\ ~Again(p)
    BY <1>3, <2>3 DEF Say, Look, Locate, Claim, Post, PostGone, HandBack, HandingBack, ForgetThread,
      ReadMessage, Revise, ReviseGone
  <2>4. CASE ShutAgainRefused(p) BY <1>1, <2>0, <2>4 DEF ShutAgainRefused
  <2>5. CASE Abort(p)
    <3>1. "unshut" \in Cost(p) BY <1>3 DEF Cost, Holding, HandingBack
    <3> QED BY <1>1, <2>0, <2>5, <3>1 DEF Abort
  <2>6. CASE Trouble(p) /\ ~Takes(p) /\ ~ShutAgainRefused(p) /\ ~Abort(p)
    BY <1>3, <2>6 DEF Trouble, Takes, Busy, LockRefused, ClaimLost, PostLost, PostRefused, HandBackFails,
      HandingBack, ReviseFails
  <2> QED BY <2>1, <2>2, <2>3, <2>4, <2>5, <2>6 DEF Does
<1> QED BY <1>2, <1>3

\* While the thread of the row is there, what is to be seen to stays so until the
\* row is asked and does not want it shut, or it is shut.
LEMMA MendingKept ==
  ASSUME Shapes, PointerInv, HolderInv, OwedInv, SaidInv, InTheRowsThread, [Next]_vars, Unmended',
         NEW p \in Workers, Does(p), pointer \in live, pointer' = pointer, Mending
  PROVE  \/ Mending'
         \/ Again(p) /\ note # "shut" /\ thread[p] = pointer
         \/ ShutAgain(p) /\ shut'[pointer]
<1>1. ASSUME NEW q \in Workers, Seeing(q)
      PROVE  \/ Mending'
             \/ Again(p) /\ note # "shut" /\ thread[p] = pointer
             \/ ShutAgain(p) /\ shut'[pointer]
  <2>1. CASE Seeing(q)' BY <2>1 DEF Mending
  <2>2. CASE q = p /\ Again(p) /\ note # "shut" BY <1>1, <2>2 DEF Seeing
  <2>3. CASE q = p /\ ShutAgain(p)
    <3>1. thread[p] = pointer /\ pointer \in Threads BY <1>1, <2>3 DEF Seeing, PointerInv
    <3>2. shut' = [shut EXCEPT ![pointer] = TRUE] BY <2>3, <3>1 DEF ShutAgain
    <3> QED BY <2>3, <3>1, <3>2 DEF Shapes
  <2> QED BY <1>1, <2>1, <2>2, <2>3, SeeingKept
<1>2. ASSUME NEW k \in Keys, Retry(k) PROVE Mending'
  <2>1. CASE Key(p) # k
    <3>1. PICK d \in owed : WillWake(k, d) BY <1>2 DEF Retry
    <3>2. WillWake(k, d)' BY <2>1, <3>1, RetryOthers
    <3>3. Excused(k, {"half"})' BY <1>2, StillOpen DEF Retry
    <3>4. Retry(k)' BY <3>2, <3>3 DEF Retry, WillWake
    <3> QED BY <3>4 DEF Mending
  <2>2. CASE Key(p) = k
    <3>1. Retry(k)' \/ Seeing(p)' BY <1>2, <2>2, RetrySync, RetrySay, RetryTrouble DEF Does
    <3> QED BY <3>1 DEF Mending
  <2> QED BY <2>1, <2>2
<1> QED BY <1>1, <1>2 DEF Mending

\* Who wakes the thread otherwise than for the issue's sync sees to it, and who
\* shuts it does so for the sync or because the row says so.
Wakens(p) ==
    \/ shut'[pointer] = shut[pointer]
    \/ Write(p)
    \/ SetLock(p)
    \/ ShutAgain(p) /\ thread[p] = pointer
    \/ ~shut'[pointer] /\ Mending'

LEMMA WakensRevising ==
  ASSUME Shapes, PointerInv, HolderInv, OwedInv, SaidInv, InTheRowsThread, [Next]_vars, Unmended',
         NEW p \in Workers, Does(p), pointer \in live, pointer' = pointer,
         PostLost(p) \/ ReviseFails(p), shut' # shut
  PROVE  Wakens(p)
<1> USE DEF Shapes, Kinds, Goto, Raise, Rest, Holding, HandingBack, ToSee, discord, github, row
<1>0. Alone(p) /\ Key(p) \in Keys /\ SaidOf(p) BY DoesAlone DEF SaidInv
<1>1. shut' = [shut EXCEPT ![thread[p]] = FALSE] /\ thread[p] \in live
  BY DEF PostLost, ReviseFails, Land, Wake
<1>2. thread[p] = pointer /\ pointer \in Threads BY <1>1 DEF InTheRowsThread, PointerInv
<1>3. ~shut'[pointer] BY <1>1, <1>2
<1> SUFFICES ASSUME NEW k \in Keys, Key(p) = k PROVE Retry(k)' BY <1>0, <1>3 DEF Wakens, Mending
<1>4. Excuse({"half"}, k) \/ Excuse({"half", "refused"}, k) BY <1>1 DEF PostLost, ReviseFails
<1>5. Excused(k, {"half"})' BY <1>4 DEF Excuse, Excused
<1>6. ~Overlap(k) BY <1>5, StillOpen
<1>7. ~Excuse({"half", "refused"}, k)
  <2>1. "refused" \in {"half", "refused"} \cap Excuses BY DEF Excuses
  <2>2. ASSUME Excuse({"half", "refused"}, k) PROVE FALSE
    <3>1. {"half", "refused"} \cap Excuses = {} BY <1>5, <2>2, NoExcuse
    <3> QED BY <2>1, <3>1
  <2> QED BY <2>2
<1>8. CASE PostLost(p)
  <2>1. owed' = owed /\ pc'[p] = "back_failed" BY <1>8 DEF PostLost
  <2> QED BY <1>5, <1>6, <2>1, RetryOwn
<1>9. CASE ReviseFails(p)
  <2>1. owed' = owed /\ pc'[p] = "idle" /\ UNCHANGED claims /\ pc[p] = "revise" BY <1>7, <1>9 DEF ReviseFails
  <2>2. message'[k] # 0 /\ job[p][2] > 1 BY <1>0, <2>1 DEF SaidOf, IsEdit, claims
  <2> QED BY <1>5, <1>6, <2>1, <2>2, RetryOwn
<1> QED BY <1>8, <1>9

LEMMA WakensSo ==
  ASSUME Shapes, PointerInv, HolderInv, OwedInv, SaidInv, InTheRowsThread, [Next]_vars, Unmended',
         NEW p \in Workers, Does(p), pointer \in live, pointer' = pointer
  PROVE  Wakens(p)
<1> USE DEF Shapes, Kinds, Goto, discord
<1>0. CASE shut' = shut BY <1>0 DEF Wakens
<1>a. Alone(p) /\ Key(p) \in Keys BY DoesAlone
<1>1. CASE Sync(p) BY <1>0, <1>1 DEF Sync, Record, TurnAway, Open, NoteLock, Wakens
<1>2. CASE Post(p) \/ (Revise(p) /\ StillThere(p))
  <2>1. /\ thread[p] \in live /\ shut' = [shut EXCEPT ![thread[p]] = FALSE]
        /\ pc'[p] \in ToSee /\ thread' = thread
    BY <1>2 DEF Post, Revise, Land, Wake, ToSee, local
  <2>2. thread[p] = pointer /\ pointer \in Threads BY <2>1 DEF InTheRowsThread, PointerInv
  <2>3. ~shut'[pointer] /\ Seeing(p)' BY <2>1, <2>2 DEF Seeing
  <2> QED BY <2>3 DEF Wakens, Mending
<1>3. CASE Revise(p) /\ ~StillThere(p)
  <2>1. Excuse({"woken"}, Key(p)) BY <1>3 DEF Revise
  <2> QED BY <1>a, <2>1, NoExcuse
<1>4. CASE ShutAgain(p)
  <2>1. thread[p] \in live => thread[p] = pointer BY DEF InTheRowsThread
  <2> QED BY <1>0, <1>4, <2>1 DEF ShutAgain, Wakens
<1>5. CASE Say(p) /\ ~Post(p) /\ ~Revise(p) /\ ~ShutAgain(p)
  BY <1>0, <1>5 DEF Say, Look, Locate, Claim, PostGone, HandBack, ForgetThread, Remember, ReadMessage,
    ReviseGone, Again
<1>6. CASE PostLost(p) \/ ReviseFails(p) BY <1>0, <1>6, WakensRevising
<1>7. CASE Trouble(p) /\ ~Takes(p) /\ ~PostLost(p) /\ ~ReviseFails(p)
  BY <1>0, <1>7 DEF Trouble, Takes, Busy, LockRefused, ClaimLost, PostRefused, HandBackFails,
    ShutAgainRefused, Abort
<1> QED BY <1>1, <1>2, <1>3, <1>4, <1>5, <1>6, <1>7 DEF Does

At(where) == \E p \in Workers : pc[p] = where
Shutting  == At("note_lock") /\ Closed(stored)
Opening   == At("note_lock") /\ ~Closed(stored)

ShutBehind == note = "shut" /\ ~shut[pointer] => ToSync(stored) \/ Mending \/ At("set_lock") \/ Opening
OpenBehind ==
    note = "open" /\ shut[pointer] =>
       \/ ToSync(stored) \/ Shutting
       \/ Closed(stored) /\ \E n \in Flips : n < stored /\ ToSync(n)
AsNoted ==
    /\ Shutting /\ ~shut[pointer] => Mending
    /\ Opening => ~shut[pointer]
AsRead(p) == pc[p] = "shut_again" /\ thread[p] \in live => note = "shut" /\ ~Opening

Lockwise == ShutBehind /\ OpenBehind /\ AsNoted /\ \A p \in Workers : AsRead(p)
LockInv  == Unmended /\ pointer \in live => Lockwise

\* What the argument stands on, and a worker's step that leaves the row its thread.
Ground ==
    Shapes /\ HolderInv /\ PointerInv /\ OwedInv /\ InTheRowsThread /\ SentInv /\ SaidInv /\ SyncInv

InTheThread(p) == Does(p) /\ [Next]_vars /\ Unmended' /\ pointer \in live /\ pointer' = pointer

LEMMA MendingGoes ==
  ASSUME Ground, NEW p \in Workers, InTheThread(p), Mending
  PROVE  \/ Mending'
         \/ Again(p) /\ note # "shut" /\ thread[p] = pointer
         \/ ShutAgain(p) /\ shut'[pointer]
BY MendingKept DEF Ground, InTheThread

LEMMA WakensThere ==
  ASSUME Ground, NEW p \in Workers, InTheThread(p) PROVE Wakens(p) BY WakensSo DEF Ground, InTheThread

\* One sync at a time, of the row's thread.
LEMMA LockersAlone ==
  ASSUME Ground, pointer \in live, NEW p \in Workers, pc[p] \in Locked
  PROVE  /\ thread[p] = pointer /\ thread[p] \in live /\ pointer \in Threads /\ lock = p /\ p # NULL
         /\ \A q \in Workers : pc[q] \in Locked => q = p
BY NotesAssumption DEF Ground, PointerInv, SyncInv, SyncAt

\* The others do not record while somebody is at it.
LEMMA StoredFixed ==
  ASSUME Ground, NEW p \in Workers, InTheThread(p), NEW q \in Workers, q # p, pc[q] \in Locked
  PROVE  stored' = stored /\ note' = note /\ pc'[q] = pc[q] /\ pc[p] \notin Locked /\ pc'[p] \notin Locked
<1>0. Shapes /\ PointerInv /\ lock = q /\ q # NULL /\ pointer # NULL
  BY LockersAlone, NotesAssumption DEF Ground, PointerInv, InTheThread
<1>1. pc[p] \notin Locked /\ pc'[q] = pc[q] BY <1>0, LockersAlone, DoesAlone DEF InTheThread, Alone
<1>2. ~Record(p) BY <1>0 DEF Record
<1>3. ~NoteLock(p) /\ \A t \in Threads : ~Open(p, t) BY <1>1 DEF NoteLock, Open, Locked
<1>4. stored' = stored BY <1>0, <1>2, StoredSo DEF InTheThread
<1>5. note' = note BY <1>0, <1>3, NoteSo DEF InTheThread
<1>6. pc'[p] \notin Locked BY <1>0, <1>1, <1>2, LockSo DEF InTheThread
<1> QED BY <1>1, <1>4, <1>5, <1>6

LEMMA EntersNoting ==
  ASSUME Ground, NEW p \in Workers, InTheThread(p), pc'[p] = "note_lock"
  PROVE  \/ /\ Write(p) /\ ~Closed(stored) /\ thread[p] = pointer /\ ~shut'[pointer]
         \/ /\ SetLock(p) /\ Closed(stored) /\ thread[p] = pointer /\ shut'[pointer]
<1> USE DEF Shapes, Kinds, Goto, Locked
<1>0. Shapes /\ PointerInv /\ Does(p) /\ pointer \in live BY DEF Ground, InTheThread
<1>1. pc[p] \in Locked BY <1>0, LockSo
<1>2. thread[p] = pointer /\ pointer \in Threads BY <1>0, <1>1, LockersAlone
<1>3. Write(p) \/ SetLock(p)
  <2>1. ASSUME NEW t, NEW open, Synced(p, t, open) PROVE FALSE BY <1>0, <2>1 DEF Synced, Raise, Rest
  <2>2. CASE Sync(p) BY <1>0, <2>1, <2>2 DEF Sync, Record, TurnAway, Open, NoteLock
  <2>3. CASE Say(p)
    BY <1>1, <2>3 DEF Say, Look, Locate, Claim, Post, PostGone, HandBack, HandingBack, ForgetThread, Remember,
      ReadMessage, Revise, ReviseGone, Again, ShutAgain
  <2>4. CASE LockRefused(p) BY <2>1, <2>4 DEF LockRefused
  <2>5. CASE Trouble(p) /\ ~Takes(p) /\ ~LockRefused(p) BY <1>0, <1>1, <2>5
       DEF Trouble, Takes, Busy, Raise, Rest, ClaimLost, PostLost, PostRefused, HandBackFails,
           HandingBack, ReviseFails, ShutAgainRefused, Abort
  <2> QED BY <1>0, <2>2, <2>3, <2>4, <2>5 DEF Does
<1>4. CASE Write(p)
  <2>1. shut' = [shut EXCEPT ![pointer] = FALSE] /\ ~Closed(stored) BY <1>0, <1>2, <1>4 DEF Write
  <2> QED BY <1>0, <1>2, <1>4, <2>1
<1>5. CASE SetLock(p)
  <2>1. shut' = [shut EXCEPT ![pointer] = TRUE] BY <1>0, <1>2, <1>5 DEF SetLock
  <2>2. Closed(stored) BY <1>5 DEF SetLock, Ground, SyncInv, SyncAt
  <2> QED BY <1>0, <1>2, <1>5, <2>1, <2>2
<1> QED BY <1>3, <1>4, <1>5

LEMMA LeavesLock ==
  ASSUME Ground, NEW p \in Workers, InTheThread(p), pc[p] \in {"set_lock", "note_lock"}
  PROVE  \/ pc[p] = "set_lock" /\ SetLock(p) /\ shut'[pointer]
         \/ /\ pc[p] = "note_lock" /\ NoteLock(p) /\ stored' = stored /\ shut' = shut
            /\ note' = IF Closed(stored) THEN "shut" ELSE "open"
         \/ Abort(p)
<1>0. Shapes /\ PointerInv /\ Does(p) /\ thread[p] = pointer /\ pointer \in live /\ pointer \in Threads
      /\ Key(p) \in Keys
  BY LockersAlone, DoesAlone DEF Ground, InTheThread, Locked
<1>1. SetLock(p) \/ NoteLock(p) \/ LockRefused(p) \/ Abort(p)
  <2>1. CASE Sync(p) BY <2>1 DEF Sync, Record, TurnAway, Write, Open
  <2>2. CASE Say(p)
    BY <2>2 DEF Say, Look, Locate, Claim, Post, PostGone, HandBack, HandingBack, ForgetThread, Remember,
      ReadMessage, Revise, ReviseGone, Again, ShutAgain
  <2>3. CASE Trouble(p) /\ ~Takes(p)
    BY <2>3 DEF Trouble, Takes, Busy, ClaimLost, PostLost, PostRefused, HandBackFails, HandingBack,
      ReviseFails, ShutAgainRefused
  <2> QED BY <1>0, <2>1, <2>2, <2>3 DEF Does
<1>2. ~LockRefused(p)
  <2>1. LockRefused(p) => Excuse({"unshut"}, Key(p)) BY DEF LockRefused
  <2> QED BY <1>0, <2>1, NoExcuse DEF InTheThread
<1>3. CASE SetLock(p)
  <2>1. shut' = [shut EXCEPT ![pointer] = TRUE] /\ pc[p] = "set_lock" BY <1>0, <1>3 DEF SetLock
  <2> QED BY <1>0, <1>3, <2>1 DEF Shapes
<1>4. CASE NoteLock(p) BY <1>0, <1>4 DEF NoteLock, discord
<1> QED BY <1>1, <1>2, <1>3, <1>4

\* A line cut short before its lock is settled is synced again.
LEMMA CutShort ==
  ASSUME Ground, NEW p \in Workers, InTheThread(p), pc[p] \in {"set_lock", "note_lock"}, Abort(p)
  PROVE  /\ UNCHANGED <<stored, note, shut>>
         /\ \E n \in Flips : n = Key(p) /\ ToSync(n)' /\ LineAt(p)
<1>0. Shapes /\ OwedInv /\ Does(p) /\ SyncInv /\ SentInv /\ Unmended' /\ [Next]_vars
  BY DEF Ground, InTheThread
<1>1. Alone(p) /\ Key(p) \in Keys BY <1>0, DoesAlone
<1>2. UNCHANGED <<stored, note, shut, owed>> /\ pc'[p] = "idle" /\ Excuse(Cost(p), Key(p))
  BY <1>0 DEF Abort, Raise, Rest, Goto, row, discord, github, Shapes, Kinds
<1>3. IsLine(p)
  <2>1. ~IsLine(p) => Cost(p) = {"unshut"} BY DEF Cost, Holding, HandingBack
  <2> QED BY <1>0, <1>1, <1>2, <2>1, NoExcuse
<1>4. Cost(p) = {"half"} BY <1>3 DEF Cost, Holding, HandingBack
<1>5. job[p] = <<Key(p), 1>> /\ Key(p) \in Flips BY <1>0, <1>1, <1>3, LineJob DEF Alone, SyncInv
<1>6. SUFFICES ASSUME NEW n \in Flips, n = Key(p) PROVE ToSync(n)'
  BY <1>0, <1>1, <1>2, <1>3, <1>5 DEF Alone, SyncInv
<1>7. n \in Keys /\ Excused(n, {"half"})' BY <1>2, <1>4, <1>6, FlipsAreKeys DEF Excuse, Excused
<1>8. ~Overlap(n) BY <1>0, <1>7, StillOpen
<1>9. job[p] \in owed /\ \A q \in Workers : job[q] = job[p] => q = p
  BY <1>0, <1>1, <1>6, <1>8, HasAlone DEF Alone
<1>10. \A q \in Workers : job'[q] = <<n, 1>> => q = p BY <1>1, <1>5, <1>6, <1>9 DEF Alone
<1>11. pc'[p] \notin PastSync BY <1>2 DEF PastSync, Holding, HandingBack
<1> QED BY <1>2, <1>5, <1>6, <1>9, <1>10, <1>11 DEF ToSync

\* A rebuild fetches the issue as it is: it carries the last version sent.
LEMMA CarriesTheLast ==
  ASSUME Shapes, FlipsInv, NEW p \in Workers, ~IsLine(p), Carried(p) > 0
  PROVE  Carried(p) \in Flips /\ version[Carried(p)] # 0
<1> DEFINE Sent == {n \in Flips : version[n] = 1}
<1>1. PICK c \in 0 .. MaxFlips : \A n \in Flips : version[n] = IF n <= c THEN 1 ELSE 0 BY DEF FlipsInv
<1>2. c \in Nat /\ c <= MaxFlips /\ MaxFlips \in Nat BY NotesAssumption
<1>3. Sent = 1 .. c BY <1>1, <1>2 DEF Flips
<1>4. Carried(p) = Cardinality(Sent) BY DEF Carried
<1> HIDE DEF Sent
<1>5. Carried(p) = Cardinality(1 .. c) BY <1>3, <1>4
<1>6. Cardinality(1 .. c) = IF 1 > c THEN 0 ELSE c - 1 + 1 BY <1>2, FS_Interval
<1>7. Carried(p) = c BY <1>2, <1>5, <1>6
<1>8. c \in Flips BY <1>2, <1>7 DEF Flips
<1> QED BY <1>1, <1>2, <1>7, <1>8

\* A later version is recorded before its sync is over.
LEMMA RecordsToSync ==
  ASSUME Ground, NEW p \in Workers, Does(p), stored' # stored PROVE ToSync(stored)'
<1>0. Shapes /\ SentInv /\ SyncInv /\ OwedInv BY DEF Ground
<1>1. /\ Record(p) /\ pc[p] = "sync" /\ stored' = Carried(p) /\ stored' > stored
      /\ stored \in Nat /\ stored' \in Nat
  BY <1>0, StoredSo, CarriedIsANumber DEF Record, Shapes
<1>2. Carried(p) \in Flips /\ version[Carried(p)] # 0
  <2>1. CASE IsLine(p) BY <1>0, <1>1, <2>1 DEF Carried, Key, IsLine, OwedInv, WorkInv
  <2>2. CASE ~IsLine(p)
    <3>1. Carried(p) > 0 BY <1>1
    <3> QED BY <1>0, <2>2, <3>1, CarriesTheLast DEF SyncInv
  <2> QED BY <2>1, <2>2
<1>3. SUFFICES ASSUME NEW n \in Flips, n = stored' PROVE ToSync(n)' BY <1>1, <1>2 DEF ToSync
<1>4. ToSync(n) BY <1>0, <1>1, <1>2, <1>3, FlipsAreKeys DEF SyncInv, StoredInv
<1> QED BY <1>0, <1>1, <1>4, ToSyncStays DEF Locked

\* How the sync of a line comes to its end.
LEMMA SyncEnds ==
  ASSUME Ground, NEW p \in Workers, InTheThread(p), NEW n \in Flips, ToSync(n), ~ToSync(n)'
  PROVE  /\ job[p] = <<n, 1>> /\ Key(p) = n
         /\ \/ pc[p] = "turned_away" /\ stored > n /\ (~Closed(stored) \/ note = "shut")
            \/ pc[p] = "note_lock" /\ NoteLock(p)
<1>0. Shapes /\ SentInv /\ SyncInv /\ Does(p) /\ pointer \in live BY DEF Ground, InTheThread
<1>1. /\ job[p] = <<n, 1>> /\ pc[p] \in Locked
      /\ TurnAway(p) \/ NoteLock(p) \/ LockRefused(p) \/ (\E t \in Threads : Open(p, t))
  BY <1>0, ToSyncStays
<1>2. /\ Key(p) = n /\ Key(p) \in Keys /\ thread[p] = pointer /\ pointer # NULL /\ IsLine(p)
      /\ pc[p] # "idle"
  BY <1>0, <1>1, LockersAlone, FlipsAreKeys, NotesAssumption DEF Key, IsLine, Locked, Ground, PointerInv
<1>3. ~LockRefused(p)
  <2>1. LockRefused(p) => Excuse({"unshut"}, Key(p)) BY DEF LockRefused
  <2> QED BY <1>2, <2>1, NoExcuse DEF InTheThread
<1>4. \A t \in Threads : ~Open(p, t) BY <1>0, <1>2 DEF Open
<1>5. CASE TurnAway(p)
  <2>1. pc[p] = "turned_away" /\ LineAt(p) /\ SyncAt(p) BY <1>0, <1>2, <1>5 DEF TurnAway, SyncInv
  <2> QED BY <1>1, <1>2, <2>1 DEF LineAt, SyncAt
<1>6. CASE NoteLock(p) BY <1>1, <1>2, <1>6 DEF NoteLock
<1> QED BY <1>1, <1>3, <1>4, <1>5, <1>6

\* The version of the row whose sync is to come is one that was sent.
LEMMA StoredIsSent == ASSUME Ground, ToSync(stored) PROVE stored \in Flips
<1>1. <<stored, 1>> \in Deliverable /\ stored \in Nat BY DEF Ground, ToSync, Shapes, Kinds
<1> QED BY <1>1, NotesAssumption DEF Deliverable, Keys

LEMMA StillToSync ==
  ASSUME Ground, NEW p \in Workers, InTheThread(p), ToSync(stored), ~ToSync(stored)'
  PROVE  pc[p] = "note_lock" /\ NoteLock(p) /\ stored' = stored
<1>1. stored' = stored BY RecordsToSync DEF InTheThread
<1>2. SUFFICES ASSUME NEW n \in Flips, n = stored PROVE pc[p] = "note_lock" /\ NoteLock(p)
  BY <1>1, StoredIsSent
<1>3. ToSync(n) /\ ~ToSync(n)' BY <1>1, <1>2 DEF ToSync
<1>4. n \in Nat BY FlipsAreKeys
<1> QED BY <1>2, <1>3, <1>4, SyncEnds

LEMMA ShutBehindDoes ==
  ASSUME Ground, Lockwise, NEW p \in Workers, InTheThread(p) PROVE ShutBehind'
<1> SUFFICES ASSUME note' = "shut", ~shut'[pointer]
             PROVE  ToSync(stored)' \/ Mending' \/ At("set_lock")' \/ Opening'
  BY DEF ShutBehind, InTheThread
<1>0. Shapes /\ PointerInv /\ SyncInv /\ Does(p) /\ pointer \in live BY DEF Ground, InTheThread
<1>1. Mending => Mending' \/ note # "shut" BY MendingGoes
\* The lock is noted by who finds the issue closed.
<1>2. CASE pc[p] = "note_lock" /\ NoteLock(p)
  <2>0. thread[p] = pointer BY <1>0, <1>2, LockersAlone DEF Locked
  <2>1. shut' = shut /\ Closed(stored) BY <1>2, <2>0 DEF NoteLock, discord
  <2>2. Mending BY <1>2, <2>1 DEF Lockwise, AsNoted, Shutting, At
  <2>3. ~Again(p) BY <1>2 DEF Again
  <2> QED BY <2>2, <2>3, MendingGoes
<1>3. CASE ~NoteLock(p)
  <2>1. note = "shut" BY <1>0, <1>3, NoteSo, OpensSo DEF InTheThread, Opens
  <2>2. CASE shut[pointer]
    <3>1. Write(p) \/ Mending'
      <4>1. Wakens(p) BY WakensThere
      <4>2. SetLock(p) => shut'[pointer]
        <5> SUFFICES ASSUME SetLock(p) PROVE shut'[pointer] OBVIOUS
        <5>1. pc[p] = "set_lock" BY DEF SetLock
        <5>2. thread[p] = pointer /\ pointer \in Threads BY <1>0, <5>1, LockersAlone DEF Locked
        <5>3. shut' = [shut EXCEPT ![pointer] = TRUE] BY <1>0, <5>2 DEF SetLock
        <5> QED BY <1>0, <5>2, <5>3 DEF Shapes
      <4>3. ShutAgain(p) /\ thread[p] = pointer => shut'[pointer] BY <1>0 DEF ShutAgain, PointerInv, Shapes
      <4> QED BY <2>2, <4>1, <4>2, <4>3 DEF Wakens
    <3>2. CASE Write(p)
      <4>1. stored' = stored /\ pc'[p] = IF Closed(stored) THEN "set_lock" ELSE "note_lock"
        BY <1>0, <3>2 DEF Write, Goto, row, Shapes, Kinds
      <4> QED BY <4>1 DEF At, Opening
    <3> QED BY <3>1, <3>2
  <2>3. CASE ~shut[pointer]
    <3>1. ToSync(stored) \/ Mending \/ At("set_lock") \/ Opening BY <2>1, <2>3 DEF Lockwise, ShutBehind
    <3>2. CASE ToSync(stored) BY <1>3, <3>2, StillToSync
    <3>3. CASE Mending BY <1>1, <2>1, <3>3
    <3>4. ASSUME NEW q \in Workers, pc[q] = "set_lock" \/ (pc[q] = "note_lock" /\ ~Closed(stored))
          PROVE  ToSync(stored)' \/ At("set_lock")' \/ Opening'
      <4>1. CASE q # p
        <5>1. stored' = stored /\ pc'[q] = pc[q] BY <3>4, <4>1, StoredFixed DEF Locked
        <5> QED BY <3>4, <5>1 DEF At, Opening
      <4>2. CASE q = p
        <5>1. Abort(p) BY <1>3, <3>4, <4>2, LeavesLock
        <5>2. stored' = stored BY <3>4, <4>2, <5>1, CutShort
        <5>3. PICK n \in Flips : n = Key(p) /\ ToSync(n)' /\ LineAt(p) BY <3>4, <4>2, <5>1, CutShort
        <5>4. stored = n BY <2>1, <3>4, <4>2, <5>3 DEF LineAt
        <5> QED BY <5>2, <5>3, <5>4 DEF ToSync
      <4> QED BY <4>1, <4>2
    <3> QED BY <3>1, <3>2, <3>3, <3>4 DEF At, Opening
  <2> QED BY <2>2, <2>3
<1>4. NoteLock(p) => pc[p] = "note_lock" BY DEF NoteLock
<1> QED BY <1>2, <1>3, <1>4

\* Who shuts the thread does so under the item's lock, or has read that it is to be shut.
LEMMA ShutsSo ==
  ASSUME Ground, Lockwise, NEW p \in Workers, InTheThread(p), ~shut[pointer], shut'[pointer]
  PROVE  \/ pc[p] = "set_lock" /\ pc'[p] = "note_lock" /\ stored' = stored /\ Closed(stored)
         \/ ShutAgain(p) /\ note = "shut" /\ ~Opening
<1>0. Shapes /\ PointerInv /\ SyncInv /\ Does(p) /\ pointer \in live /\ Wakens(p)
  BY WakensThere DEF Ground, InTheThread
<1>1. CASE Write(p)
  <2>1. thread[p] = pointer /\ pointer \in Threads BY <1>0, <1>1, LockersAlone DEF Write, Locked
  <2>2. shut' = [shut EXCEPT ![pointer] = FALSE] BY <1>1, <2>1 DEF Write
  <2> QED BY <1>0, <2>1, <2>2 DEF Shapes
<1>2. CASE SetLock(p)
  <2>1. pc[p] = "set_lock" /\ Closed(stored) /\ stored' = stored
    BY <1>0, <1>2 DEF SetLock, SyncInv, SyncAt, row
  <2>2. thread[p] \in live BY <1>0, <2>1, LockersAlone DEF Locked
  <2>3. pc'[p] = "note_lock" BY <1>0, <1>2, <2>2 DEF SetLock, Goto, Shapes, Kinds
  <2> QED BY <2>1, <2>3
<1>3. CASE ShutAgain(p) /\ thread[p] = pointer
  <2>1. AsRead(p) /\ pc[p] = "shut_again" /\ thread[p] \in live BY <1>0, <1>3 DEF Lockwise, ShutAgain
  <2> QED BY <1>3, <2>1 DEF AsRead
<1> QED BY <1>0, <1>1, <1>2, <1>3 DEF Wakens

LEMMA OpenBehindDoes ==
  ASSUME Ground, Lockwise, NEW p \in Workers, InTheThread(p) PROVE OpenBehind'
<1> SUFFICES ASSUME note' = "open", shut'[pointer]
             PROVE  \/ ToSync(stored)' \/ Shutting'
                    \/ Closed(stored') /\ \E n \in Flips : n < stored' /\ ToSync(n)'
  BY DEF OpenBehind, InTheThread
<1>0. Shapes /\ PointerInv /\ SyncInv /\ Does(p) /\ pointer \in live BY DEF Ground, InTheThread
\* Who finds the issue open notes so of a thread that is open.
<1>1. ~NoteLock(p)
  <2> SUFFICES ASSUME NoteLock(p) PROVE FALSE OBVIOUS
  <2>1. pc[p] = "note_lock" /\ shut' = shut BY DEF NoteLock, discord
  <2>2. thread[p] = pointer BY <1>0, <2>1, LockersAlone DEF Locked
  <2>3. ~Closed(stored) BY <2>2 DEF NoteLock
  <2> QED BY <2>1, <2>3 DEF Lockwise, AsNoted, Opening, At
<1>2. note = "open" BY <1>0, <1>1, NoteSo, OpensSo DEF InTheThread, Opens
<1>3. CASE ~shut[pointer]
  <2>1. pc'[p] = "note_lock" /\ stored' = stored /\ Closed(stored) BY <1>2, <1>3, ShutsSo
  <2> QED BY <2>1 DEF Shutting, At
<1>4. CASE shut[pointer]
  <2>1. ToSync(stored) \/ Shutting \/ (Closed(stored) /\ \E n \in Flips : n < stored /\ ToSync(n))
    BY <1>2, <1>4 DEF Lockwise, OpenBehind
  <2>2. CASE ToSync(stored) BY <1>1, <2>2, StillToSync
  <2>3. ASSUME NEW q \in Workers, pc[q] = "note_lock", Closed(stored)
        PROVE  \/ ToSync(stored)' \/ Shutting'
               \/ Closed(stored') /\ \E n \in Flips : n < stored' /\ ToSync(n)'
    <3>1. CASE q # p
      <4>1. stored' = stored /\ pc'[q] = pc[q] BY <2>3, <3>1, StoredFixed DEF Locked
      <4> QED BY <2>3, <4>1 DEF At, Shutting
    <3>2. CASE q = p
      <4>1. Abort(p) BY <1>1, <2>3, <3>2, LeavesLock
      <4>2. stored' = stored BY <2>3, <3>2, <4>1, CutShort
      <4>3. PICK n \in Flips : n = Key(p) /\ ToSync(n)' /\ LineAt(p) BY <2>3, <3>2, <4>1, CutShort
      <4>4. stored >= n /\ n \in Nat /\ stored \in Nat
        BY <1>0, <2>3, <3>2, <4>3, FlipsAreKeys DEF LineAt, Shapes
      <4>5. CASE stored = n BY <4>2, <4>3, <4>5 DEF ToSync
      <4>6. CASE stored # n
        <5>1. n < stored BY <4>4, <4>6
        <5> QED BY <2>3, <4>2, <4>3, <5>1
      <4> QED BY <4>5, <4>6
    <3> QED BY <3>1, <3>2
  <2>4. ASSUME Closed(stored), NEW n \in Flips, n < stored, ToSync(n)
        PROVE  \/ ToSync(stored)'
               \/ Closed(stored') /\ n < stored' /\ ToSync(n)'
    <3>1. CASE stored' # stored BY <1>0, <3>1, RecordsToSync
    <3>2. CASE stored' = stored
      <4>1. ToSync(n)' BY <1>1, <1>2, <2>4, SyncEnds
      <4> QED BY <2>4, <3>2, <4>1
    <3> QED BY <3>1, <3>2
  <2> QED BY <2>1, <2>2, <2>3, <2>4 DEF Shutting, At
<1> QED BY <1>3, <1>4

LEMMA AsNotedDoes ==
  ASSUME Ground, Lockwise, NEW p \in Workers, InTheThread(p) PROVE AsNoted'
<1>0. Shapes /\ PointerInv /\ SyncInv /\ Does(p) /\ pointer \in live /\ pointer' = pointer
  BY DEF Ground, InTheThread
<1>1. ASSUME NEW q \in Workers, pc'[q] = "note_lock", Closed(stored'), ~shut'[pointer] PROVE Mending'
  <2>1. CASE q = p
    <3>1. Write(p) /\ ~Closed(stored) BY <1>1, <2>1, EntersNoting
    <3> QED BY <1>1, <3>1 DEF Write, row
  <2>2. CASE q # p
    <3>1. pc[q] = "note_lock" BY <1>0, <1>1, <2>2, DoesAlone DEF Alone
    <3>2. /\ stored' = stored /\ pc[p] \notin Locked /\ thread[q] = pointer
          /\ ~Write(p) /\ ~SetLock(p)
      BY <1>0, <2>2, <3>1, StoredFixed, LockersAlone DEF Locked, Write, SetLock
    <3>3. ~(ShutAgain(p) /\ thread[p] = pointer) BY <1>0, <1>1 DEF ShutAgain, PointerInv, Shapes
    <3>4. CASE shut[pointer]
      <4>1. Wakens(p) BY WakensThere
      <4> QED BY <1>1, <3>2, <3>3, <3>4, <4>1 DEF Wakens
    <3>5. CASE ~shut[pointer]
      <4>1. Mending BY <1>1, <3>1, <3>2, <3>5 DEF Lockwise, AsNoted, Shutting, At
      <4>2. ASSUME Again(p), thread[p] = pointer PROVE FALSE
        <5>1. BeingNoted(pointer) BY <3>1, <3>2 DEF BeingNoted
        <5>2. Excuse({"raced"}, Key(p)) BY <4>2, <5>1 DEF Again
        <5> QED BY <1>0, <5>2, DoesAlone, NoExcuse DEF InTheThread
      <4>3. Mending' \/ (ShutAgain(p) /\ shut'[pointer]) BY <4>1, <4>2, MendingGoes
      <4> QED BY <1>1, <4>3
    <3> QED BY <3>4, <3>5
  <2> QED BY <2>1, <2>2
<1>2. ASSUME NEW q \in Workers, pc'[q] = "note_lock", ~Closed(stored'), shut'[pointer] PROVE FALSE
  <2>1. CASE q = p
    <3>1. SetLock(p) /\ Closed(stored) BY <1>2, <2>1, EntersNoting
    <3> QED BY <1>2, <3>1 DEF SetLock, row
  <2>2. CASE q # p
    <3>1. pc[q] = "note_lock" BY <1>0, <1>2, <2>2, DoesAlone DEF Alone
    <3>2. stored' = stored /\ pc[p] \notin Locked BY <2>2, <3>1, StoredFixed DEF Locked
    <3>3. Opening BY <1>2, <3>1, <3>2 DEF Opening, At
    <3>4. ~shut[pointer] BY <3>3 DEF Lockwise, AsNoted
    <3> QED BY <1>2, <3>2, <3>3, <3>4, ShutsSo DEF Locked
  <2> QED BY <2>1, <2>2
<1> QED BY <1>0, <1>1, <1>2 DEF AsNoted, Shutting, Opening, At

LEMMA AsReadDoes ==
  ASSUME Ground, Lockwise, NEW p \in Workers, InTheThread(p), NEW q \in Workers PROVE AsRead(q)'
<1>0. /\ Shapes /\ PointerInv /\ SyncInv /\ InTheRowsThread /\ Does(p) /\ pointer \in live
      /\ pointer' = pointer /\ Alone(p) /\ Key(p) \in Keys /\ Steady
  BY DoesAlone, SteadyDoes, OpensSo DEF Ground, InTheThread
<1> SUFFICES ASSUME pc'[q] = "shut_again", thread'[q] \in live' PROVE note' = "shut" /\ ~Opening'
  BY DEF AsRead
<1>r. ASSUME Excuse({"raced"}, Key(p)) PROVE FALSE BY <1>0, <1>r, NoExcuse DEF InTheThread
<1>1. CASE q # p
  <2>1. pc[q] = "shut_again" /\ thread[q] \in live /\ thread[q] = pointer
    BY <1>0, <1>1 DEF Alone, Steady, InTheRowsThread
  <2>2. note = "shut" /\ ~Opening BY <2>1 DEF Lockwise, AsRead
  <2>3. note' = "shut"
    <3>1. CASE NoteLock(p)
      <4>1. pc[p] = "note_lock" BY <3>1 DEF NoteLock
      <4>2. Closed(stored) BY <2>2, <4>1 DEF Opening, At
      <4> QED BY <2>2, <3>1, <4>2 DEF NoteLock
    <3>2. CASE ~NoteLock(p) BY <1>0, <2>2, <3>2, NoteSo, NotesAssumption DEF PointerInv, Steady, Open, Locked
    <3> QED BY <3>1, <3>2
  <2>4. ASSUME NEW r \in Workers, pc'[r] = "note_lock", ~Closed(stored') PROVE FALSE
    <3>1. CASE r = p
      <4>1. CASE Write(p) /\ ~Closed(stored) /\ thread[p] = pointer
        <5>1. AboutToShut(thread[p]) BY <2>1, <4>1 DEF AboutToShut
        <5>2. Excuse({"raced"}, Key(p)) BY <4>1, <5>1 DEF Write
        <5> QED BY <1>r, <5>2
      <4>2. CASE SetLock(p) /\ Closed(stored) BY <2>4, <4>2 DEF SetLock, row
      <4> QED BY <2>4, <3>1, <4>1, <4>2, EntersNoting
    <3>2. CASE r # p
      <4>1. pc[r] = "note_lock" BY <1>0, <2>4, <3>2 DEF Alone
      <4>2. stored' = stored BY <3>2, <4>1, StoredFixed DEF Locked
      <4> QED BY <2>2, <2>4, <4>1, <4>2 DEF Opening, At
    <3> QED BY <3>1, <3>2
  <2> QED BY <2>3, <2>4 DEF Opening, At
<1>2. CASE q = p
  <2>1. Again(p) /\ note = "shut" BY <1>0, <1>2, ComesSo DEF Comes
  <2>2. note' = "shut" /\ stored' = stored /\ thread' = thread
    BY <1>0, <1>2, <2>1 DEF Again, RowSaysShut, Finish, Rest, Goto, row, local, Shapes, Kinds
  <2>3. thread[p] = pointer BY <1>0, <1>2, <2>2 DEF Steady, InTheRowsThread
  <2>4. ASSUME NEW r \in Workers, pc'[r] = "note_lock", ~Closed(stored') PROVE FALSE
    <3>1. pc[r] = "note_lock" BY <1>0, <1>2, <2>4 DEF Alone
    <3>2. BeingNoted(thread[p]) BY <1>0, <2>3, <3>1, LockersAlone DEF BeingNoted, Locked
    <3>3. Excuse({"raced"}, Key(p)) BY <2>1, <3>2 DEF Again
    <3> QED BY <1>r, <3>3
  <2> QED BY <2>2, <2>4 DEF Opening, At
<1> QED BY <1>1, <1>2

\* A thread just opened is nobody's to see to, and its lock is not known.
LEMMA LockOpens ==
  ASSUME Ground, NEW p \in Workers, NEW t \in Threads, Open(p, t) PROVE Lockwise'
<1>0. /\ Shapes /\ PointerInv /\ InTheRowsThread /\ Does(p) /\ Opens /\ pc[p] = "write"
      /\ thread[p] \notin live BY DEF Ground, Does, Sync, Opens, Open
<1>1. /\ pointer \notin live /\ pointer' \in Threads \ used /\ live' = live \cup {pointer'}
      /\ note' = "unknown" /\ Alone(p) /\ live \subseteq used
  BY <1>0, OpensSo, DoesAlone DEF PointerInv
<1>2. pc'[p] \in {"set_lock", "look", "idle"}
  <2>1. CASE Closed(stored) BY <1>0, <2>1 DEF Open, Goto, Shapes, Kinds
  <2>2. CASE ~Closed(stored) BY <1>0, <2>2 DEF Open, Synced, Raise, Rest, Goto, Shapes, Kinds
  <2> QED BY <2>1, <2>2
<1>3. ASSUME NEW q \in Workers, pc'[q] = "note_lock" PROVE FALSE
  <2>1. q # p /\ pc[q] = "note_lock" BY <1>1, <1>2, <1>3 DEF Alone
  <2> QED BY <1>0, <2>1 DEF PointerInv, Locked
<1>4. ASSUME NEW q \in Workers, pc'[q] = "shut_again", thread'[q] \in live' PROVE FALSE
  <2>1. q # p BY <1>2, <1>4
  <2>2. thread[q] \in live' BY <1>1, <1>4, <2>1 DEF Alone
  <2>3. thread[q] \in used \cup {NULL} /\ pointer' # NULL BY <1>0, <1>1, NotesAssumption DEF PointerInv
  <2>4. thread[q] \in live BY <1>1, <2>2, <2>3
  <2> QED BY <1>0, <1>1, <2>4 DEF InTheRowsThread
<1> QED BY <1>1, <1>3, <1>4 DEF Lockwise, ShutBehind, OpenBehind, AsNoted, AsRead, Shutting, Opening, At

LEMMA LockDoes ==
  ASSUME Ground, LockInv, [Next]_vars, NEW p \in Workers, Does(p) PROVE LockInv'
<1> SUFFICES ASSUME Unmended', pointer' \in live' PROVE Lockwise' BY DEF LockInv
<1>0. Shapes /\ PointerInv BY DEF Ground
<1>1. CASE Opens BY <1>1, LockOpens DEF Opens
<1>2. CASE Steady
  <2>1. pointer' = pointer /\ pointer \in live BY <1>0, <1>2, NotesAssumption DEF Steady, PointerInv
  <2>2. Unmended BY ExcusesGrow DEF Unmended, GivenUpHalfway, Excused
  <2>3. Lockwise /\ InTheThread(p) BY <2>1, <2>2 DEF LockInv, InTheThread
  <2> QED BY <2>3, ShutBehindDoes, OpenBehindDoes, AsNotedDoes, AsReadDoes DEF Lockwise
<1> QED BY <1>0, <1>1, <1>2, SteadyDoes

\* What no worker does about it.
LEMMA LockOutside ==
  ASSUME Ground, LockInv, excuses \subseteq excuses', UNCHANGED <<stored, shut, claims, thread>>,
         Steady, owed \subseteq owed', pointer' = pointer => note' = note,
         \A q \in Workers : \/ pc'[q] = pc[q] /\ job'[q] = job[q]
                            \/ pc[q] = "idle" /\ pc'[q] \in {"sync", "locate"}
  PROVE  LockInv'
<1> SUFFICES ASSUME Unmended', pointer' \in live' PROVE Lockwise' BY DEF LockInv
<1>0. Shapes /\ PointerInv BY DEF Ground
<1>1. pointer' = pointer /\ pointer \in live /\ note' = note /\ live' \subseteq live
  BY <1>0, NotesAssumption DEF Steady, PointerInv
<1>2. Unmended /\ Lockwise BY <1>1 DEF LockInv, Unmended, GivenUpHalfway, Excused
<1>3. \A n \in Flips \cup {stored} : ToSync(n) => ToSync(n)' BY DEF ToSync, PastSync, Holding, HandingBack
<1>4. ToSync(stored) => ToSync(stored)' BY <1>3 DEF ToSync
<1>5. \A where \in {"set_lock", "note_lock"} : At(where) <=> At(where)' BY DEF At
<1>6. (Shutting <=> Shutting') /\ (Opening <=> Opening') BY DEF Shutting, Opening, At
<1>7. Mending => Mending'
  <2>1. ASSUME NEW q \in Workers, Seeing(q) PROVE Seeing(q)' BY <1>1, <2>1 DEF Seeing, ToSee
  <2>2. ASSUME NEW k \in Keys, Retry(k) PROVE Retry(k)'
    <3>1. PICK d \in owed : WillWake(k, d) BY <2>2 DEF Retry
    <3>2. Excused(k, {"half"})' BY <2>2 DEF Retry, Excused
    <3>3. Unsaid(k, d)' /\ Unseen(k, d)'
      BY <3>1 DEF WillWake, Unsaid, Unseen, ToSee, Holding, HandingBack, claims
    <3> QED BY <3>1, <3>2, <3>3 DEF Retry, WillWake
  <2> QED BY <2>1, <2>2 DEF Mending
<1>8. \A q \in Workers : AsRead(q)' BY <1>1, <1>2, <1>6 DEF Lockwise, AsRead
<1>9. ShutBehind' BY <1>1, <1>2, <1>4, <1>5, <1>6, <1>7 DEF Lockwise, ShutBehind, At
<1>10. OpenBehind' BY <1>1, <1>2, <1>3, <1>4, <1>6 DEF Lockwise, OpenBehind
<1>11. AsNoted' BY <1>1, <1>2, <1>6, <1>7 DEF Lockwise, AsNoted
<1> QED BY <1>8, <1>9, <1>10, <1>11 DEF Lockwise

LEMMA LockNext == ASSUME Ground, LockInv, [Next]_vars PROVE LockInv'
<1>0. Shapes /\ PointerInv /\ excuses \subseteq excuses' BY ExcusesGrow DEF Ground
<1>1. CASE Environment \/ UNCHANGED vars
  <2>1. Steady /\ thread' = thread BY <1>0, <1>1, SteadyOutside
  <2>2. /\ UNCHANGED <<stored, shut, claims, pc, job>> /\ owed \subseteq owed'
        /\ pointer' = pointer => note' = note
    <3>1. ASSUME NEW t \in Threads, Report(t) PROVE pointer' # pointer
      BY <1>0, <3>1, NotesAssumption DEF Report, Forget, Names, PointerInv
    <3>2. CASE Environment
      BY <3>1, <3>2 DEF Environment, Arrive, DeleteMessage, Delete, Report, Forget, Toggle, github, row,
        discord, local
    <3>3. CASE UNCHANGED vars BY <3>3 DEF vars, github, row, discord, local
    <3> QED BY <1>1, <3>2, <3>3
  <2> QED BY <1>0, <2>1, <2>2, LockOutside
<1>2. ASSUME NEW p \in Workers, Takes(p) PROVE LockInv'
  <2>1. Steady /\ thread' = thread BY <1>0, <1>2, SteadyOutside
  <2>2. PICK d \in owed : TakesIt(p, d) BY <1>0, <1>2, TakesSo
  <2>3. /\ UNCHANGED <<stored, shut, claims, note, owed>>
        /\ \A q \in Workers : \/ pc'[q] = pc[q] /\ job'[q] = job[q]
                              \/ pc[q] = "idle" /\ pc'[q] \in {"sync", "locate"}
    BY <2>2 DEF TakesIt, github, row, discord
  <2> QED BY <1>0, <2>1, <2>3, LockOutside
<1> QED BY <1>1, <1>2, LockDoes DEF Next, Does, Takes

----
\* All of it together.

Told == Ground /\ NewestInv /\ LockInv

LEMMA ToldAtFirst == Init => Told
<1> SUFFICES ASSUME Init PROVE Told OBVIOUS
<1>1. Shapes BY KindsInit, NotesAssumption DEF Init, Shapes, Moods
<1>2. HolderInv /\ PointerInv /\ OwedInv
  BY DEF Init, HolderInv, OneHolder, Holding, HandingBack, Known, PointerInv, Locked, OwedInv, WorkInv
<1>3. InTheRowsThread /\ SentInv BY NotesAssumption DEF Init, InTheRowsThread, SentInv
<1>4. SaidInv BY DEF Init, SaidInv, SaidOf, AfterPost
<1>5. SyncInv
  <2>1. FlipsInv
    <3>1. 0 \in 0 .. MaxFlips BY NotesAssumption
    <3>2. \A n \in Flips : version[n] = IF n <= 0 THEN 1 ELSE 0 BY FlipsAreKeys DEF Init
    <3> QED BY <3>1, <3>2 DEF FlipsInv
  <2>2. StoredInv BY FlipsAreKeys DEF Init, StoredInv
  <2> QED BY <2>1, <2>2 DEF Init, SyncInv, SyncAt, Locked
<1>6. NewestInv BY DEF Init, NewestInv, Newest, ClaimAnswered, NewestComing, Keys
<1>7. LockInv BY DEF Init, LockInv, Lockwise, ShutBehind, OpenBehind, AsNoted, AsRead, Shutting, Opening, At
<1> QED BY <1>1, <1>2, <1>3, <1>4, <1>5, <1>6, <1>7 DEF Told, Ground

LEMMA ToldHolds == Told /\ [Next]_vars => Told'
<1> SUFFICES ASSUME Told, [Next]_vars PROVE Told' OBVIOUS
<1>0. /\ Shapes /\ HolderInv /\ PointerInv /\ OwedInv /\ InTheRowsThread /\ SentInv /\ SaidInv
      /\ SyncInv /\ NewestInv /\ LockInv /\ Kinds /\ MessagesInv
  BY SaidMessages DEF Told, Ground, Shapes
<1>1. Shapes' /\ HolderInv' /\ PointerInv' /\ OwedInv' BY <1>0, ShapesNext, HolderNext, PointerNext, OwedNext
<1>2. InTheRowsThread' /\ SentInv' /\ SaidInv' /\ SyncInv'
  BY <1>0, RowsThreadNext, SentNext, SaidNext, SyncNext
<1>3. NewestInv' BY <1>0, NewestNext
<1>4. LockInv' BY LockNext DEF Told
<1> QED BY <1>1, <1>2, <1>3, <1>4 DEF Told, Ground

LEMMA ToldAlways == Spec => []Told BY ToldAtFirst, ToldHolds, PTL DEF Spec

LEMMA MirroredOnceTold == Told => MirroredWhenQuiet
<1>1. ASSUME Told, Quiet PROVE NewestWhenQuiet
  <2> SUFFICES ASSUME NEW k \in Remarks, version[k] \in 1 .. 2,
                      ~Excused(k, Reasons \ {"woken", "raced", "unshut", "half"})
               PROVE  ShowsNewest(k) BY DEF NewestWhenQuiet
  <2>1. ~Forgone(k) BY DEF Forgone, Excused, Reasons
  <2> QED BY <1>1, <2>1 DEF Told, NewestInv, Newest, NewestComing, Quiet
<1>2. ASSUME Told, Quiet PROVE ShutWhenQuiet
  <2> SUFFICES ASSUME Unmended, pointer \in live, note # "unknown" PROVE shut[pointer] <=> note = "shut"
    BY DEF ShutWhenQuiet, Unmended
  <2>1. Lockwise /\ note \in {"shut", "open"} /\ pointer \in Threads /\ shut[pointer] \in BOOLEAN
    BY <1>2 DEF Told, LockInv, Ground, Shapes, Moods, PointerInv
  <2>2. /\ \A n : ~ToSync(n)
        /\ ~Mending /\ ~At("set_lock") /\ ~At("note_lock")
    BY <1>2 DEF Quiet, ToSync, Mending, Seeing, ToSee, Retry, At
  <2> QED BY <2>1, <2>2 DEF Lockwise, ShutBehind, OpenBehind, Shutting, Opening
<1> QED BY <1>1, <1>2 DEF MirroredWhenQuiet, NewestWhenQuiet, ShutWhenQuiet

----
\* Types: what is left of them.

BookInv ==
    /\ speaks \in BOOLEAN /\ refused \in [Workers -> BOOLEAN]
    /\ BookKinds

\* Where a worker has not read yet where to write.
Threadless == {"idle", "sync", "locate", "write"}

WritesSomewhere == \A p \in Workers : pc[p] \notin Threadless => thread[p] # NULL

\* What a worker leaves behind, whatever it came to.
LEMMA RefusedLeaves ==
  ASSUME Kinds, refused \in [Workers -> BOOLEAN], NEW p \in Workers, Finish(p) \/ Raise(p)
  PROVE  refused' \in [Workers -> BOOLEAN] /\ pc'[p] = "idle"
BY DEF Kinds, Finish, Raise, Rest, Goto

LEMMA SyncedSo ==
  ASSUME Kinds, refused \in [Workers -> BOOLEAN], NEW p \in Workers, NEW t, NEW open \in BOOLEAN, Synced(p, t, open)
  PROVE  /\ refused' \in [Workers -> BOOLEAN]
         /\ pc'[p] # "idle" => thread'[p] = t
<1>1. CASE IsLine(p) BY <1>1 DEF Synced, Kinds
<1>2. CASE ~IsLine(p) BY <1>2, RefusedLeaves DEF Synced
<1>. QED BY <1>1, <1>2

LEMMA RefusedNext ==
  ASSUME Kinds, refused \in [Workers -> BOOLEAN], NEW p \in Workers, Does(p)
  PROVE  refused' \in [Workers -> BOOLEAN]
<1> DEFINE Fits == refused' \in [Workers -> BOOLEAN]
<1>1. ASSUME refused' = refused PROVE Fits BY <1>1
<1>2. ASSUME Finish(p) \/ Raise(p) PROVE Fits BY <1>2, RefusedLeaves
<1>3. ASSUME NEW t, NEW open \in BOOLEAN, Synced(p, t, open) PROVE Fits BY <1>3, SyncedSo
<1> HIDE DEF Fits
<1>4. ASSUME Sync(p) PROVE Fits
  <2>1. ASSUME Record(p) \/ Write(p) PROVE Fits BY <1>1, <2>1 DEF Record, Write, local
  <2>2. ASSUME TurnAway(p) \/ NoteLock(p) PROVE Fits BY <1>3, <2>2 DEF TurnAway, NoteLock
  <2>3. ASSUME NEW t \in Threads, Open(p, t) PROVE Fits BY <1>1, <1>3, <2>3 DEF Open
  <2>4. ASSUME SetLock(p) PROVE Fits BY <1>1, <1>2, <2>4 DEF SetLock, local
  <2>. QED BY <1>4, <2>1, <2>2, <2>3, <2>4 DEF Sync
<1>5. ASSUME Say(p) PROVE Fits
  <2>1. ASSUME Look(p) \/ Locate(p) \/ Claim(p) PROVE Fits BY <1>1, <1>2, <2>1 DEF Look, Locate, Claim, local
  <2>2. ASSUME Post(p) \/ PostGone(p) \/ ForgetThread(p) \/ Remember(p) PROVE Fits
    BY <1>1, <2>2 DEF Post, PostGone, ForgetThread, Remember, local
  <2>3. ASSUME HandBack(p) PROVE Fits BY <1>1, <1>2, <2>3 DEF HandBack, OnwardFrom, local
  <2>4. ASSUME ReadMessage(p) \/ Revise(p) \/ ReviseGone(p) PROVE Fits
    BY <1>1, <1>2, <2>4 DEF ReadMessage, Revise, ReviseGone, local
  <2>5. ASSUME Again(p) \/ ShutAgain(p) PROVE Fits BY <1>1, <1>2, <2>5 DEF Again, ShutAgain, local
  <2>. QED BY <1>5, <2>1, <2>2, <2>3, <2>4, <2>5 DEF Say
<1>6. ASSUME Trouble(p), ~Takes(p) PROVE Fits
  <2>1. ASSUME Busy(p) \/ ClaimLost(p) \/ Abort(p) PROVE Fits BY <1>2, <2>1 DEF Busy, ClaimLost, Abort
  <2>2. ASSUME LockRefused(p) PROVE Fits BY <1>3, <2>2 DEF LockRefused
  <2>3. ASSUME PostLost(p) \/ PostRefused(p) PROVE Fits BY <1>1, <2>3 DEF PostLost, PostRefused, local
  <2>4. ASSUME HandBackFails(p) PROVE Fits BY <1>1, <1>2, <2>4 DEF HandBackFails, OnwardFrom, local
  <2>5. ASSUME ReviseFails(p) \/ ShutAgainRefused(p) PROVE Fits
    BY <1>2, <2>5 DEF ReviseFails, ShutAgainRefused
  <2>. QED BY <1>6, <2>1, <2>2, <2>3, <2>4, <2>5 DEF Trouble, Takes
<1>7. Fits BY <1>4, <1>5, <1>6 DEF Does
<1>. QED BY <1>7 DEF Fits

\* A trouble is of a known kind, and of the note in hand.
LEMMA Excusing ==
  ASSUME excuses \subseteq Reasons \X Keys, NEW reasons \in SUBSET Reasons, NEW k \in Keys, Excuse(reasons, k)
  PROVE  excuses' \subseteq Reasons \X Keys BY DEF Excuse

LEMMA ExcusesNext ==
  ASSUME Kinds, excuses \subseteq Reasons \X Keys, NEW p \in Workers, Does(p), Key(p) \in Keys
  PROVE  excuses' \subseteq Reasons \X Keys
<1> DEFINE Fits == excuses' \subseteq Reasons \X Keys
<1>1. ASSUME excuses' = excuses PROVE Fits BY <1>1
<1>2. ASSUME NEW reasons \in SUBSET Reasons, Excuse(reasons, Key(p)) PROVE Fits BY <1>2, Excusing
<1>3. /\ {} \in SUBSET Reasons
      /\ \A r \in {"stuck", "moved", "quiet", "refused", "overlap", "forgot", "early", "unshut", "woken", "raced", "half"} :
            {r} \in SUBSET Reasons
      /\ {"half", "refused"} \in SUBSET Reasons /\ {"forgot", "unshut"} \in SUBSET Reasons
  BY DEF Reasons
<1> HIDE DEF Fits
<1>4. ASSUME Sync(p) PROVE Fits
  <2>1. ASSUME Record(p) \/ TurnAway(p) \/ SetLock(p) \/ NoteLock(p) \/ (\E t \in Threads : Open(p, t)) PROVE Fits
    BY <1>1, <2>1 DEF Record, TurnAway, SetLock, NoteLock, Open, book
  <2>2. ASSUME Write(p) PROVE Fits BY <1>2, <1>3, <2>2 DEF Write
  <2>. QED BY <1>4, <2>1, <2>2 DEF Sync
<1>5. ASSUME Say(p) PROVE Fits
  <2>1. ASSUME Look(p) PROVE Fits BY <1>1, <1>2, <1>3, <2>1 DEF Look
  <2>2. ASSUME Locate(p) PROVE Fits BY <1>1, <1>2, <1>3, <2>2 DEF Locate
  <2>3. ASSUME Claim(p) \/ Post(p) \/ PostGone(p) \/ ForgetThread(p) \/ Remember(p) \/ ReviseGone(p) \/ ShutAgain(p)
        PROVE  Fits
    BY <1>1, <2>3 DEF Claim, Post, PostGone, ForgetThread, Remember, ReviseGone, ShutAgain, book
  <2>4. ASSUME HandBack(p) PROVE Fits BY <1>2, <1>3, <2>4 DEF HandBack
  <2>5. ASSUME ReadMessage(p) PROVE Fits BY <1>1, <1>2, <1>3, <2>5 DEF ReadMessage
  <2>6. ASSUME Revise(p) PROVE Fits BY <1>1, <1>2, <1>3, <2>6 DEF Revise
  <2>7. ASSUME Again(p) PROVE Fits BY <1>2, <1>3, <2>7 DEF Again
  <2>. QED BY <1>5, <2>1, <2>2, <2>3, <2>4, <2>5, <2>6, <2>7 DEF Say
<1>6. ASSUME Trouble(p), ~Takes(p) PROVE Fits
  <2>1. ASSUME Busy(p) \/ PostRefused(p) PROVE Fits BY <1>1, <2>1 DEF Busy, PostRefused, book
  <2>2. ASSUME LockRefused(p) \/ ClaimLost(p) \/ HandBackFails(p) \/ ShutAgainRefused(p) PROVE Fits
    BY <1>2, <1>3, <2>2 DEF LockRefused, ClaimLost, HandBackFails, ShutAgainRefused
  <2>3. ASSUME PostLost(p) PROVE Fits BY <1>1, <1>2, <1>3, <2>3 DEF PostLost
  <2>4. ASSUME ReviseFails(p) PROVE Fits BY <1>2, <1>3, <2>4 DEF ReviseFails
  <2>5. ASSUME Abort(p) PROVE Fits
    <3>1. Cost(p) \in SUBSET Reasons BY <1>3 DEF Cost
    <3>. QED BY <1>2, <2>5, <3>1 DEF Abort
  <2>. QED BY <1>6, <2>1, <2>2, <2>3, <2>4, <2>5 DEF Trouble, Takes
<1>7. Fits BY <1>4, <1>5, <1>6 DEF Does
<1>. QED BY <1>7 DEF Fits

\* Faults are counted one by one, and only people make a thread speak or keep quiet.
LEMMA CountsNext ==
  ASSUME NEW p \in Workers, Does(p)
  PROVE  faults' \in {faults, faults + 1} /\ people' = people /\ speaks' = speaks
<1>1. ASSUME Sync(p) PROVE UNCHANGED <<faults, people, speaks>>
  BY <1>1 DEF Sync, Record, TurnAway, Write, Open, SetLock, NoteLock, row, book
<1>2. ASSUME Say(p) PROVE UNCHANGED <<faults, people, speaks>>
  <2>1. ASSUME Look(p) \/ Locate(p) \/ Claim(p) \/ Post(p) \/ PostGone(p) \/ HandBack(p) PROVE UNCHANGED <<faults, people, speaks>>
    BY <2>1 DEF Look, Locate, Claim, Post, PostGone, HandBack, row, book
  <2>2. ASSUME ForgetThread(p) \/ Remember(p) \/ ReadMessage(p) \/ Revise(p) PROVE UNCHANGED <<faults, people, speaks>>
    BY <2>2 DEF ForgetThread, Remember, ReadMessage, Revise, row, book
  <2>3. ASSUME ReviseGone(p) \/ Again(p) \/ ShutAgain(p) PROVE UNCHANGED <<faults, people, speaks>>
    BY <2>3 DEF ReviseGone, Again, ShutAgain, row, book
  <2>. QED BY <1>2, <2>1, <2>2, <2>3 DEF Say
<1>3. ASSUME Trouble(p), ~Takes(p) PROVE faults' \in {faults, faults + 1} /\ people' = people /\ speaks' = speaks
  <2>1. ASSUME Busy(p) \/ LockRefused(p) \/ ClaimLost(p) \/ PostLost(p) \/ PostRefused(p)
        PROVE  faults' \in {faults, faults + 1} /\ people' = people /\ speaks' = speaks
    BY <2>1 DEF Busy, LockRefused, ClaimLost, PostLost, PostRefused, Fault, row, book
  <2>2. ASSUME HandBackFails(p) \/ ReviseFails(p) \/ ShutAgainRefused(p) \/ Abort(p)
        PROVE  faults' \in {faults, faults + 1} /\ people' = people /\ speaks' = speaks
    BY <2>2 DEF HandBackFails, ReviseFails, ShutAgainRefused, Abort, Fault, row
  <2>. QED BY <1>3, <2>1, <2>2 DEF Trouble, Takes
<1>. QED BY <1>1, <1>2, <1>3 DEF Does

LEMMA BookInit == Init => BookInv BY DEF Init, BookInv, BookKinds

LEMMA BookNext == Shapes /\ BookInv /\ [Next]_vars => BookInv'
<1>. SUFFICES ASSUME Shapes, BookInv, [Next]_vars PROVE BookInv' OBVIOUS
<1>. USE DEF BookInv, BookKinds
<1>0. Kinds BY DEF Shapes
<1>1. ASSUME NEW p \in Workers, Does(p) PROVE BookInv'
  <2>1. Key(p) \in Keys BY <1>1, DoesAlone
  <2>2. refused' \in [Workers -> BOOLEAN] BY <1>0, <1>1, RefusedNext
  <2>3. excuses' \subseteq Reasons \X Keys BY <1>0, <1>1, <2>1, ExcusesNext
  <2>. QED BY <1>1, <2>2, <2>3, CountsNext
<1>2. ASSUME NEW p \in Workers, Takes(p) PROVE BookInv'
  <2>1. PICK d \in Deliveries : Deliver(p, d) \/ DeliverAgain(p, d) BY <1>2 DEF Takes
  <2>2. UNCHANGED <<speaks, refused>> /\ d[1] \in Keys
    BY <2>1 DEF Deliver, DeliverAgain, Begin, Deliveries, row
  <2>3. faults' \in Nat /\ people' \in Nat BY <2>1 DEF Deliver, DeliverAgain, Fault, book
  <2>4. excuses' \subseteq Reasons \X Keys
    <3>1. CASE Deliver(p, d) BY <3>1 DEF Deliver, book
    <3>2. CASE DeliverAgain(p, d)
      <4>1. {"overlap"} \in SUBSET Reasons /\ Excuse({"overlap"}, d[1]) BY <3>2 DEF DeliverAgain, Reasons
      <4>. QED BY <2>2, <4>1, Excusing
    <3>. QED BY <2>1, <3>1, <3>2
  <2>. QED BY <2>2, <2>3, <2>4
<1>3. ASSUME Environment PROVE BookInv'
  <2>1. ASSUME NEW k \in Keys, Arrive(k) PROVE BookInv' BY <2>1 DEF Arrive, row, local, book
  <2>2. ASSUME NEW k \in Keys, NEW i \in DOMAIN posted[k], DeleteMessage(k, i) PROVE BookInv'
    BY <2>2 DEF DeleteMessage, Person, row, local
  <2>3. ASSUME NEW t \in Threads, Delete(t) \/ Report(t) PROVE BookInv'
    BY <2>3 DEF Delete, Report, Person, Forget, row, local, book
  <2>4. ASSUME Toggle PROVE BookInv'
    <3>1. (~speaks) \in BOOLEAN OBVIOUS
    <3>. QED BY <2>4, <3>1 DEF Toggle, Person, local
  <2>. QED BY <1>3, <2>1, <2>2, <2>3, <2>4 DEF Environment
<1>4. ASSUME UNCHANGED vars PROVE BookInv' BY <1>4 DEF vars, row, local, book
<1>. QED BY <1>1, <1>2, <1>3, <1>4 DEF Next, Does, Takes

\* A thread that is there is one, and so is the row's where it names one.
LEMMA ThreadsAreThere ==
  ASSUME Kinds, PointerInv
  PROVE  /\ \A t \in live : t # NULL
         /\ \A t \in Threads : t # NULL BY NotesAssumption DEF PointerInv

LEMMA SomewhereNext ==
  ASSUME Shapes, PointerInv, BookInv, WritesSomewhere, NEW p \in Workers, Does(p)
  PROVE  pc'[p] \notin Threadless => thread'[p] # NULL
<1> DEFINE Fits == pc'[p] \notin Threadless => thread'[p] # NULL
<1>0. Kinds /\ refused \in [Workers -> BOOLEAN] BY DEF Shapes, BookInv
<1>1. ASSUME thread' = thread, pc[p] \notin Threadless PROVE Fits BY <1>1 DEF WritesSomewhere
<1>3. ASSUME Finish(p) \/ Raise(p) PROVE Fits BY <1>0, <1>3, RefusedLeaves DEF Threadless
<1>4. ASSUME NEW t, NEW open \in BOOLEAN, Synced(p, t, open), t # NULL PROVE Fits
  BY <1>0, <1>4, SyncedSo DEF Threadless
<1> HIDE DEF Fits
<1>5. ASSUME Sync(p) PROVE Fits
  <2>1. ASSUME Record(p) PROVE Fits
    <3>1. /\ pc'[p] \in {"write", "set_lock", "turned_away"} /\ thread'[p] = pointer
          /\ pc'[p] # "write" => pointer # NULL
      BY <1>0, <2>1 DEF Record, Goto, Kinds
    <3>. QED BY <3>1 DEF Fits, Threadless
  <2>2. ASSUME TurnAway(p) PROVE Fits
    <3>1. thread[p] # NULL BY <2>2 DEF TurnAway, WritesSomewhere, Threadless
    <3>. QED BY <1>4, <2>2, <3>1 DEF TurnAway
  <2>3. ASSUME Write(p) PROVE Fits BY <1>0, <2>3, ThreadsAreThere DEF Write, local, Fits
  <2>4. ASSUME NEW t \in Threads, Open(p, t) PROVE Fits
    <3>1. t # NULL BY NotesAssumption
    <3>2. CASE Closed(stored) BY <1>0, <2>4, <3>1, <3>2 DEF Open, Fits, Kinds
    <3>3. CASE ~Closed(stored) BY <1>4, <2>4, <3>1, <3>3 DEF Open
    <3>. QED BY <3>2, <3>3
  <2>5. ASSUME SetLock(p) PROVE Fits BY <1>1, <1>3, <2>5 DEF SetLock, local, Threadless
  <2>6. ASSUME NoteLock(p) PROVE Fits
    <3>1. thread[p] # NULL BY <2>6 DEF NoteLock, WritesSomewhere, Threadless
    <3>. QED BY <1>4, <2>6, <3>1 DEF NoteLock
  <2>. QED BY <1>5, <2>1, <2>2, <2>3, <2>4, <2>5, <2>6 DEF Sync
<1>6. ASSUME Say(p) PROVE Fits
  <2>1. ASSUME Look(p) \/ Claim(p) PROVE Fits BY <1>1, <1>3, <2>1 DEF Look, Claim, local, Threadless
  <2>2. ASSUME Locate(p) PROVE Fits
    <3>1. ASSUME pointer # NULL, thread' = [thread EXCEPT ![p] = pointer] PROVE Fits
      BY <1>0, <3>1 DEF Fits, Kinds
    <3>2. ASSUME Goto(p, "sync") PROVE Fits BY <1>0, <3>2 DEF Fits, Goto, Kinds, Threadless
    <3>. QED BY <1>3, <2>2, <3>1, <3>2 DEF Locate
  <2>3. ASSUME Post(p) \/ PostGone(p) \/ Remember(p) PROVE Fits
    BY <1>1, <2>3 DEF Post, PostGone, Remember, local, Threadless
  <2>4. ASSUME HandBack(p) PROVE Fits
    BY <1>1, <1>3, <2>4 DEF HandBack, OnwardFrom, HandingBack, local, Threadless
  <2>5. ASSUME ForgetThread(p) PROVE Fits BY <1>0, <2>5 DEF ForgetThread, Goto, Kinds, Threadless, Fits
  <2>6. ASSUME ReadMessage(p) \/ Revise(p) \/ ReviseGone(p) PROVE Fits
    BY <1>1, <1>3, <2>6 DEF ReadMessage, Revise, ReviseGone, local, Threadless
  <2>7. ASSUME Again(p) \/ ShutAgain(p) PROVE Fits BY <1>1, <1>3, <2>7 DEF Again, ShutAgain, local, Threadless
  <2>. QED BY <1>6, <2>1, <2>2, <2>3, <2>4, <2>5, <2>6, <2>7 DEF Say
<1>7. ASSUME Trouble(p), ~Takes(p) PROVE Fits
  <2>1. ASSUME Busy(p) \/ ClaimLost(p) \/ Abort(p) PROVE Fits BY <1>3, <2>1 DEF Busy, ClaimLost, Abort
  <2>2. ASSUME LockRefused(p) PROVE Fits
    <3>1. thread[p] # NULL BY <2>2 DEF LockRefused, WritesSomewhere, Threadless
    <3>. QED BY <1>4, <2>2, <3>1 DEF LockRefused
  <2>3. ASSUME PostLost(p) \/ PostRefused(p) PROVE Fits
    BY <1>1, <2>3 DEF PostLost, PostRefused, local, Threadless
  <2>4. ASSUME HandBackFails(p) PROVE Fits
    BY <1>1, <1>3, <2>4 DEF HandBackFails, OnwardFrom, HandingBack, local, Threadless
  <2>5. ASSUME ReviseFails(p) \/ ShutAgainRefused(p) PROVE Fits
    BY <1>3, <2>5 DEF ReviseFails, ShutAgainRefused
  <2>. QED BY <1>7, <2>1, <2>2, <2>3, <2>4, <2>5 DEF Trouble, Takes
<1>8. Fits BY <1>5, <1>6, <1>7 DEF Does
<1>. QED BY <1>8 DEF Fits

LEMMA WritesSomewhereNext ==
  Shapes /\ PointerInv /\ BookInv /\ WritesSomewhere /\ [Next]_vars => WritesSomewhere'
<1>. SUFFICES ASSUME Shapes, PointerInv, BookInv, WritesSomewhere, [Next]_vars PROVE WritesSomewhere' OBVIOUS
<1>1. ASSUME NEW p \in Workers, Does(p) PROVE WritesSomewhere'
  <2>1. \A q \in Workers \ {p} : pc'[q] = pc[q] /\ thread'[q] = thread[q] BY <1>1, DoesAlone DEF Alone
  <2>. QED BY <1>1, <2>1, SomewhereNext DEF WritesSomewhere
<1>2. ASSUME NEW p \in Workers, Takes(p) PROVE WritesSomewhere'
  <2>1. thread' = thread /\ pc' = [pc EXCEPT ![p] = pc'[p]] /\ pc'[p] \in {"sync", "locate"}
    BY <1>2 DEF Takes, Deliver, DeliverAgain, Begin, Goto, Shapes, Kinds
  <2>. QED BY <2>1 DEF WritesSomewhere, Threadless, Shapes, Kinds
<1>3. ASSUME UNCHANGED <<pc, thread>> PROVE WritesSomewhere' BY <1>3 DEF WritesSomewhere
<1>4. Environment \/ UNCHANGED vars => UNCHANGED <<pc, thread>>
  BY DEF Environment, Arrive, DeleteMessage, Delete, Report, Toggle, vars, local
<1>. QED BY <1>1, <1>2, <1>3, <1>4 DEF Next, Does, Takes

\* The row is written from a version that was sent.
LEMMA StoredNext ==
  Told /\ stored <= MaxFlips /\ [Next]_vars => stored' <= MaxFlips
<1>. SUFFICES ASSUME Told, stored <= MaxFlips, [Next]_vars, stored' # stored PROVE stored' <= MaxFlips OBVIOUS
<1>0. Shapes /\ SentInv /\ FlipsInv BY DEF Told, Ground, SyncInv
<1>1. PICK p \in Workers : Record(p) /\ stored' = Carried(p) /\ pc[p] # "idle"
  <2>1. ASSUME NEW p \in Workers, Takes(p) PROVE stored' = stored
    BY <2>1 DEF Takes, Deliver, DeliverAgain, Begin, row
  <2>2. Environment \/ UNCHANGED vars => stored' = stored
    BY DEF Environment, Arrive, DeleteMessage, Delete, Report, Toggle, vars, row
  <2>3. PICK p \in Workers : Does(p) BY <2>1, <2>2 DEF Next, Does, Takes
  <2>. QED BY <1>0, <2>3, StoredSo DEF Record
<1>2. Carried(p) \in Nat BY <1>0, <1>1, CarriedIsANumber
<1>3. CASE IsLine(p) BY <1>1, <1>3, NotesAssumption DEF Carried, IsLine, Key, Flips
<1>4. CASE ~IsLine(p) /\ Carried(p) > 0 BY <1>0, <1>1, <1>4, CarriesTheLast, NotesAssumption DEF Flips
<1>5. CASE Carried(p) = 0 BY <1>1, <1>5, NotesAssumption
<1>. QED BY <1>2, <1>3, <1>4, <1>5

WellKept == Told /\ BookInv /\ WritesSomewhere /\ stored <= MaxFlips

LEMMA WellKeptAtFirst == Init => WellKept
<1>1. Init => WritesSomewhere BY DEF Init, WritesSomewhere, Threadless
<1>2. Init => stored <= MaxFlips BY NotesAssumption DEF Init
<1>. QED BY <1>1, <1>2, ToldAtFirst, BookInit DEF WellKept

LEMMA WellKeptHolds == WellKept /\ [Next]_vars => WellKept'
<1>. SUFFICES ASSUME WellKept, [Next]_vars PROVE WellKept' OBVIOUS
<1>1. Told /\ Shapes /\ PointerInv /\ BookInv /\ WritesSomewhere /\ stored <= MaxFlips
  BY DEF WellKept, Told, Ground
<1>2. Told' /\ BookInv' BY <1>1, ToldHolds, BookNext
<1>3. WritesSomewhere' /\ stored' <= MaxFlips BY <1>1, WritesSomewhereNext, StoredNext
<1>. QED BY <1>2, <1>3 DEF WellKept

LEMMA NoteTypes == WellKept => TypeOK
<1>. SUFFICES ASSUME WellKept PROVE TypeOK OBVIOUS
<1>1. Shapes /\ PointerInv /\ SaidInv /\ SyncInv /\ BookInv /\ WritesSomewhere /\ stored <= MaxFlips /\ Kinds
  BY DEF WellKept, Told, Ground, Shapes
<1>2. RowKinds
  <2>1. stored \in 0 .. MaxFlips BY <1>1, NotesAssumption DEF Shapes
  <2>. QED BY <1>1, <2>1 DEF RowKinds, PointerInv, Shapes, Moods, BookInv, SyncInv
<1>3. NoteKinds BY <1>1 DEF NoteKinds, Shapes, Kinds, Deliverable
<1>4. WorkerKinds BY <1>1 DEF WorkerKinds, Shapes, Kinds, Deliverable, PointerInv, BookInv
<1>5. BookKinds BY <1>1 DEF BookInv
<1>6. Places
  <2>1. ASSUME NEW p \in Workers
        PROVE  /\ pc[p] # "idle" => job[p] \in Keys \X (Nat \ {0})
               /\ pc[p] \in {"set_lock", "note_lock", "forget", "remember", "again",
                             "shut_again", "revise"} \cup Holding => thread[p] # NULL
    BY <1>1 DEF Kinds, Deliverable, WritesSomewhere, Threadless, Holding, HandingBack
  <2>2. lock # NULL => pc[lock] \in {"write", "turned_away", "set_lock", "note_lock"}
    BY <1>1 DEF SyncInv, Locked
  <2>3. ASSUME NEW k \in Keys PROVE message[k] <= Len(posted[k])
    <3>1. posted[k] \in Seq(Messages) /\ message[k] \in Nat BY <1>1 DEF Shapes, Kinds
    <3>2. message[k] # 0 => message[k] \in DOMAIN posted[k] BY <1>1 DEF SaidInv, Remembered
    <3>3. Len(posted[k]) \in Nat /\ DOMAIN posted[k] = 1 .. Len(posted[k]) BY <3>1
    <3>. QED BY <3>1, <3>2, <3>3
  <2>. QED BY <2>1, <2>2, <2>3 DEF Places
<1>. QED BY <1>2, <1>3, <1>4, <1>5, <1>6 DEF TypeOK

----
\* The theorems.

LEMMA NoteInvariant == Spec => [](Kinds /\ HolderInv /\ PointerInv /\ OwedInv)
<1>1. Init => Kinds /\ HolderInv /\ PointerInv /\ OwedInv
  <2>1. Init => HolderInv BY DEF Init, HolderInv, OneHolder, Holding, HandingBack, Known
  <2>2. Init => PointerInv BY DEF Init, PointerInv, Locked
  <2>3. Init => OwedInv BY DEF Init, OwedInv, WorkInv
  <2> QED BY <2>1, <2>2, <2>3, KindsInit
<1>2. Kinds /\ HolderInv /\ PointerInv /\ OwedInv /\ [Next]_vars
        => (Kinds /\ HolderInv /\ PointerInv /\ OwedInv)'
  BY KindsNext, HolderNext, PointerNext, OwedNext
<1> QED BY <1>1, <1>2, PTL DEF Spec

\* Between claim and outcome one worker has a note or line (ItemNoteMirror._claim,
\* ClaimedLine.say_once).
THEOREM OneHolderEach == Spec => []OneHolder
<1>1. HolderInv => OneHolder BY DEF HolderInv
<1> QED BY <1>1, NoteInvariant, PTL

\* A note or line that has been heard is never posted again, whatever workers
\* fail, are repeated or die, and however many edits arrive.
THEOREM SaidOnceEach == Spec => SaidOnce
<1>1. Kinds /\ HolderInv /\ [Next]_vars
        => [\A k \in Keys : Heard(k) => Len(posted'[k]) = Len(posted[k])]_vars
  BY HolderNext DEF SaidAgainNever, Known, Heard
<1> QED BY <1>1, NoteInvariant, PTL DEF Spec, SaidOnce

\* The pointer to a thread that exists is never dropped or replaced, by a worker
\* that found another thread gone, by a report of one, or by the issue's sync
\* (Container.forget_thread, ThreadPointers.forget_thread).
THEOREM ThreadKept == Spec => LiveThreadKept
<1>1. Kinds /\ PointerInv /\ [Next]_vars => [pointer' # pointer => pointer \notin live]_vars
  BY PointerNext DEF PointerKept
<1> QED BY <1>1, NoteInvariant, PTL DEF Spec, LiveThreadKept

\* When every delivery has been handled each note and line has been said, or was
\* claimed and left behind, kept quiet, overtaken, refused or handled twice at
\* once: a delivery that gives up leaves another one to say it.
THEOREM NothingOwedIsLost == Spec => []SaidWhenQuiet
<1>1. OwedInv => SaidWhenQuiet
  <2> SUFFICES ASSUME OwedInv, Quiet, NEW k \in Keys, version[k] # 0 PROVE Settled(k)
    BY DEF SaidWhenQuiet, Settled, Excuses
  <2> QED BY DEF OwedInv, Promised, Quiet
<1> QED BY <1>1, NoteInvariant, PTL

\* When every delivery has been handled the message a note's row remembers shows
\* the note's newest version, whatever order the creation and the edit were
\* handled in, and the thread is shut exactly when the row says so, however many
\* messages have woken it and whatever was done again, cut short or refused
\* halfway (ItemNoteMirror._revise, KeepsThreadsShut.again, ItemSyncService).
THEOREM AlwaysMirrored == Spec => []MirroredWhenQuiet
BY MirroredOnceTold, ToldAlways, PTL

\* Every variable of Notes has its type, and what a worker holds fits its place:
\* it has a thread once it writes there, and the row remembers only what was posted
\* (ItemNoteMirror._post, ClaimedLine.say_once, MirroredNoteStore).
THEOREM NotesTypeCorrect == Spec => []TypeOK
<1>1. WellKept => TypeOK BY NoteTypes
<1>. QED BY <1>1, WellKeptAtFirst, WellKeptHolds, PTL DEF Spec
=============================================================================
