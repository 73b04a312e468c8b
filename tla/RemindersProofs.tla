-------------------------- MODULE RemindersProofs --------------------------
(***************************************************************************)
(* What Reminders guarantees for any number of reminders, senders and      *)
(* faults, as long as a send ends before its claim is taken for abandoned  *)
(* (Prompt, which RETRY_AFTER is chosen for).                              *)
(***************************************************************************)
EXTENDS Reminders, FiniteSetTheorems, TLAPS

Kinds ==
    /\ state    \in [Ids -> States]
    /\ claimed  \in [Ids -> BOOLEAN]
    /\ stale    \in [Ids -> BOOLEAN]
    /\ attempts \in [Ids -> Nat]
    /\ pc       \in [Senders -> PCs]
    /\ hand     \in [Senders -> Ids \cup {NULL}]
    /\ sent     \in [Ids -> Nat]
    /\ refusals \in [Ids -> Nat]
    /\ \A s \in Senders : pc[s] # "idle" => hand[s] \in Ids

\* What a sender has in hand is waiting under a claim that nobody may take.
Held ==
    \A s \in Senders : hand[s] \in Ids =>
        /\ state[hand[s]] = "waiting"
        /\ claimed[hand[s]] = TRUE /\ stale[hand[s]] = FALSE

HeldInv == Kinds /\ Held /\ NeverTakenOver

\* A refusal is counted once, and the one being counted is not counted yet.
Counts ==
    /\ \A r \in Ids : attempts[r] <= refusals[r]
    /\ \A s \in Senders : pc[s] = "counting" => attempts[hand[s]] < refusals[hand[s]]

Reason(r) == sent[r] > 0 \/ r \in denied \/ refusals[r] >= MostAttempts

\* A sender about to delete a reminder has its reason.
Reasons == \A s \in Senders : pc[s] = "finishing" => Reason(hand[s])

ReasonInv == Counts /\ Reasons /\ GoneForAReason

LEMMA HeldInit == Init => HeldInv BY ReminderAssumption
DEF Init, HeldInv, Kinds, Held, NeverTakenOver, States, PCs

LEMMA ReasonInit == Init => ReasonInv BY ReminderAssumption
DEF Init, ReasonInv, Counts, Reasons, GoneForAReason

----
\* One sender for each reminder.

\* The queue takes what no sender has, or lets it be.
LEMMA HeldKept ==
  ASSUME HeldInv, Kinds', UNCHANGED hand,
         \A r \in Ids : (\E s \in Senders : hand[s] = r) =>
             /\ state'[r] = state[r] /\ claimed'[r] = claimed[r]
             /\ stale'[r] = stale[r]
  PROVE  HeldInv' BY DEF HeldInv, Held, NeverTakenOver

\* A sender lets go of what it had, and only of that.
LEMMA HeldDropped ==
  ASSUME HeldInv, Kinds', NEW s \in Senders, Rest(s),
         \A r \in Ids \ {hand[s]} :
             /\ state'[r] = state[r] /\ claimed'[r] = claimed[r]
             /\ stale'[r] = stale[r]
  PROVE  HeldInv'
<1>1. /\ hand'[s] = NULL
      /\ \A t \in Senders \ {s} : hand'[t] = hand[t] BY DEF HeldInv, Kinds, Rest
<1>2. NULL \notin Ids BY ReminderAssumption
<1>3. \A t \in Senders \ {s} : hand[t] \in Ids => hand[t] # hand[s] BY <1>2 DEF HeldInv, NeverTakenOver
<1>4. Held' BY <1>1, <1>2, <1>3 DEF HeldInv, Held
<1>5. NeverTakenOver' BY <1>1 DEF HeldInv, NeverTakenOver
<1>. QED BY <1>4, <1>5 DEF HeldInv

LEMMA HeldClaimed ==
  ASSUME HeldInv, NEW s \in Senders, ClaimNext(s) PROVE HeldInv'
<1>. USE DEF ClaimNext, history
<1>1. PICK r \in Eligible :
        /\ claimed' = [claimed EXCEPT ![r] = TRUE]
        /\ stale'   = [stale EXCEPT ![r] = FALSE]
        /\ hand'    = [hand EXCEPT ![s] = r] OBVIOUS
<1>2. /\ r \in Ids /\ state[r] = "waiting"
      /\ claimed[r] = FALSE \/ stale[r] = TRUE
  BY DEF Eligible, Waiting, HeldInv, Kinds
<1>3. \A t \in Senders : hand[t] # r BY <1>2 DEF HeldInv, Held
<1>4. /\ hand'[s] = r
      /\ \A t \in Senders \ {s} : hand'[t] = hand[t]
      /\ claimed'[r] = TRUE /\ stale'[r] = FALSE
      /\ \A q \in Ids \ {r} : claimed'[q] = claimed[q] /\ stale'[q] = stale[q]
      /\ state' = state BY <1>1, <1>2 DEF HeldInv, Kinds
<1>5. Kinds' BY <1>1, <1>2 DEF HeldInv, Kinds, PCs
<1>6. Held' BY <1>2, <1>3, <1>4 DEF HeldInv, Held
<1>7. NeverTakenOver' BY <1>3, <1>4 DEF HeldInv, NeverTakenOver
<1>. QED BY <1>5, <1>6, <1>7 DEF HeldInv

LEMMA HeldStep == ASSUME Prompt PROVE HeldInv /\ [Next]_vars => HeldInv'
<1>. SUFFICES ASSUME HeldInv, [Next]_vars PROVE HeldInv' OBVIOUS
<1>. USE DEF queue, sender, history
<1>1. CASE Command
  <2>1. PICK r \in Ids : CountThem(r) \/ Add(r) \/ AddFails(r) BY <1>1 DEF Command
  <2>2. Kinds' /\ UNCHANGED <<hand, claimed, stale>>
    BY <2>1 DEF CountThem, Add, AddFails, HeldInv, Kinds, States
  <2>3. state[r] # "waiting" /\ \A q \in Ids \ {r} : state'[q] = state[q]
    BY <2>1 DEF CountThem, Add, AddFails, HeldInv, Kinds
  <2>. QED BY <2>2, <2>3, HeldKept DEF HeldInv, Held
<1>2. CASE Tick BY <1>2, HeldKept DEF Tick, HeldInv, Kinds
<1>3. ASSUME NEW r \in Ids, Ages(r) PROVE HeldInv'
  <2>1. Kinds' /\ UNCHANGED <<hand, claimed, state>> BY <1>3 DEF Ages, HeldInv, Kinds
  <2>2. \A q \in Ids \ {r} : stale'[q] = stale[q] BY <1>3 DEF Ages, HeldInv, Kinds
  <2>3. \A s \in Senders : hand[s] # r BY <1>3 DEF Ages
  <2>. QED BY <2>1, <2>2, <2>3, HeldKept
<1>4. ASSUME NEW s \in Senders, Post(s) \/ PostDenied(s) \/ PostRefused(s) PROVE HeldInv'
  <2>1. Kinds'
    <3>1. sent' \in [Ids -> Nat] /\ refusals' \in [Ids -> Nat]
      BY <1>4 DEF Post, PostDenied, PostRefused, GoesOut, HeldInv, Kinds
    <3>2. /\ pc' \in [Senders -> PCs]
          /\ \A t \in Senders : pc'[t] # "idle" => hand[t] \in Ids
      BY <1>4 DEF Post, PostDenied, PostRefused, HeldInv, Kinds, PCs
    <3>3. UNCHANGED <<queue, hand>> BY <1>4 DEF Post, PostDenied, PostRefused
    <3>. QED BY <3>1, <3>2, <3>3 DEF HeldInv, Kinds
  <2>. QED BY <1>4, <2>1, HeldKept DEF Post, PostDenied, PostRefused
<1>5. ASSUME NEW s \in Senders, Count(s) PROVE HeldInv'
  <2>1. Kinds' BY <1>5 DEF Count, Rest, HeldInv, Kinds, PCs
  <2>2. UNCHANGED <<state, claimed, stale>> BY <1>5 DEF Count
  <2>3. Rest(s) \/ UNCHANGED hand BY <1>5 DEF Count
  <2>. QED BY <2>1, <2>2, <2>3, HeldKept, HeldDropped
<1>6. ASSUME NEW s \in Senders, Finish(s) PROVE HeldInv'
  <2>1. Kinds' BY <1>6 DEF Finish, Rest, HeldInv, Kinds, PCs, States
  <2>. QED BY <1>6, <2>1, HeldDropped DEF Finish, HeldInv, Kinds
<1>7. ASSUME NEW s \in Senders, Die(s) PROVE HeldInv'
  <2>1. Kinds' BY <1>7 DEF Die, Rest, HeldInv, Kinds, PCs
  <2>. QED BY <1>7, <2>1, HeldDropped DEF Die
<1>8. CASE UNCHANGED vars BY <1>8, HeldKept DEF vars, HeldInv, Kinds
<1>. QED BY <1>1, <1>2, <1>3, <1>4, <1>5, <1>6, <1>7, <1>8, HeldClaimed DEF Next, Step, Trouble

\* "A send still in flight is never taken over": two senders never have one
\* reminder in hand (claim_next, RETRY_AFTER).
THEOREM OneSenderEach == ASSUME Prompt PROVE Spec => []NeverTakenOver
<1>1. HeldInv => NeverTakenOver BY DEF HeldInv
<1>. QED BY HeldInit, HeldStep, <1>1, PTL DEF Spec

LEMMA RestKeeps ==
  ASSUME Kinds, NEW s \in Senders, Rest(s)
  PROVE  /\ pc'[s] = "idle"
         /\ \A t \in Senders \ {s} : pc'[t] = pc[t] /\ hand'[t] = hand[t]
BY DEF Kinds, Rest

----
\* What is sent.  A post that went out and was not refused leaves its
\* sender about to delete the reminder, and only a fault takes it away.

\* r went out, and its sender is about to delete it.
Answered(r) == \E s \in Senders : pc[s] = "finishing" /\ hand[s] = r

OnceInv ==
    /\ faults \in Nat
    /\ \A r \in Ids : state[r] # "gone" => sent[r] <= faults \/ Answered(r)
    /\ RungOnce

LEMMA OnceInit == Init => OnceInv
BY ReminderAssumption DEF Init, OnceInv, RungOnce

\* Nothing is sent, nobody about to delete is stopped, and none comes back.
LEMMA OnceKept ==
  ASSUME OnceInv, faults' \in Nat, faults <= faults', UNCHANGED sent,
         \A r \in Ids : sent[r] \in Nat,
         \A s \in Senders : pc[s] = "finishing" =>
             pc'[s] = "finishing" /\ hand'[s] = hand[s],
         \A r \in Ids : state'[r] # "gone" => state[r] # "gone"
  PROVE  OnceInv'
<1>1. \A r \in Ids : Answered(r) => Answered(r)' BY DEF Answered
<1>2. \A r \in Ids : state'[r] # "gone" => sent'[r] <= faults' \/ Answered(r)' BY <1>1 DEF OnceInv
<1>3. RungOnce' BY DEF OnceInv, RungOnce
<1>. QED BY <1>2, <1>3 DEF OnceInv

\* A post: nobody is about to delete what another is sending.
LEMMA OncePosted ==
  ASSUME HeldInv, OnceInv, NEW s \in Senders, Post(s) \/ PostDenied(s) \/ PostRefused(s) PROVE OnceInv'
<1>0. PICK r \in Ids : r = hand[s] BY DEF Post, PostDenied, PostRefused, HeldInv, Kinds
<1>1. /\ pc[s] = "posting" /\ hand[s] = r /\ state[r] = "waiting"
      /\ UNCHANGED <<queue, hand>>
      /\ \A t \in Senders \ {s} : pc'[t] = pc[t]
  BY <1>0 DEF Post, PostDenied, PostRefused, HeldInv, Kinds, Held
<1>2. ~Answered(r) BY <1>1, ReminderAssumption DEF Answered, HeldInv, NeverTakenOver
<1>3. sent[r] \in Nat /\ sent[r] <= faults /\ faults \in Nat BY <1>1, <1>2 DEF OnceInv, HeldInv, Kinds
<1>4. \A q \in Ids \ {r} : sent'[q] = sent[q] /\ sent[q] \in Nat
  BY <1>1 DEF Post, PostDenied, PostRefused, GoesOut, HeldInv, Kinds
<1>5. faults' \in Nat /\ faults <= faults' BY <1>3 DEF Post, PostDenied, PostRefused, Fault
<1>6. \/ pc'[s] = "finishing" /\ sent'[r] <= sent[r] + 1 /\ sent'[r] \in Nat
      \/ sent'[r] <= faults' /\ sent'[r] \in Nat
  <2>1. CASE Post(s) BY <1>1, <1>3, <2>1 DEF Post, GoesOut, HeldInv, Kinds
  <2>2. CASE PostDenied(s) BY <1>1, <1>3, <1>5, <2>2 DEF PostDenied
  <2>3. CASE PostRefused(s)
    <3>1. faults' = faults + 1 /\ (sent'[r] = sent[r] + 1 \/ sent' = sent)
      BY <1>1, <2>3 DEF PostRefused, Fault, GoesOut, HeldInv, Kinds
    <3>. QED BY <1>3, <3>1
  <2>. QED BY <2>1, <2>2, <2>3
<1>7. \A q \in Ids \ {r} : Answered(q) => Answered(q)' BY <1>1 DEF Answered
<1>8. pc'[s] = "finishing" => Answered(r)' BY <1>1 DEF Answered
<1>9. \A q \in Ids : state'[q] # "gone" => sent'[q] <= faults' \/ Answered(q)'
  <2>1. \A q \in Ids \ {r} : state'[q] # "gone" => sent'[q] <= faults' \/ Answered(q)'
    BY <1>1, <1>4, <1>5, <1>7 DEF OnceInv, queue
  <2>. QED BY <1>6, <1>8, <2>1
<1>10. RungOnce' BY <1>3, <1>4, <1>5, <1>6 DEF OnceInv, RungOnce
<1>. QED BY <1>5, <1>9, <1>10 DEF OnceInv

\* The reminder is deleted, and with it what was owed of it.
LEMMA OnceFinished ==
  ASSUME HeldInv, OnceInv, NEW s \in Senders, Finish(s) PROVE OnceInv'
<1>1. /\ hand[s] \in Ids /\ state'[hand[s]] = "gone"
      /\ \A q \in Ids \ {hand[s]} : state'[q] = state[q]
      /\ UNCHANGED <<sent, faults>> BY DEF Finish, HeldInv, Kinds, history
<1>2. \A t \in Senders \ {s} : pc'[t] = pc[t] /\ hand'[t] = hand[t] BY RestKeeps DEF Finish, HeldInv
<1>3. \A q \in Ids \ {hand[s]} : Answered(q) => Answered(q)' BY <1>2 DEF Answered
<1>. QED BY <1>1, <1>3 DEF OnceInv, RungOnce

\* Whoever dies about to delete a reminder leaves it to be sent once more.
LEMMA OnceAfterADeath ==
  ASSUME HeldInv, OnceInv, NEW s \in Senders, Die(s) PROVE OnceInv'
<1>1. UNCHANGED <<state, sent>> /\ faults' = faults + 1 /\ faults \in Nat
  BY DEF Die, Fault, queue, history, OnceInv
<1>2. \A q \in Ids : sent[q] \in Nat /\ sent[q] <= 1 + faults BY DEF OnceInv, RungOnce, HeldInv, Kinds
<1>. QED BY <1>1, <1>2 DEF OnceInv, RungOnce

LEMMA OnceStep == HeldInv /\ OnceInv /\ [Next]_vars => OnceInv'
<1>. SUFFICES ASSUME HeldInv, OnceInv, [Next]_vars PROVE OnceInv' OBVIOUS
<1>. USE DEF queue, sender, history
<1>1. \A r \in Ids : sent[r] \in Nat BY DEF HeldInv, Kinds
<1>2. faults \in Nat BY DEF OnceInv
<1>3. CASE Command
  <2>1. PICK r \in Ids : CountThem(r) \/ Add(r) \/ AddFails(r) BY <1>3 DEF Command
  <2>2. \A q \in Ids : state'[q] # "gone" => state[q] # "gone"
    BY <2>1 DEF CountThem, Add, AddFails, HeldInv, Kinds
  <2>3. faults' \in Nat /\ faults <= faults' BY <1>2, <2>1 DEF CountThem, Add, AddFails, Fault
  <2>. QED BY <1>1, <2>1, <2>2, <2>3, OnceKept DEF CountThem, Add, AddFails
<1>4. CASE Tick \/ \E r \in Ids : Ages(r) BY <1>1, <1>2, <1>4, OnceKept DEF Tick, Ages
<1>5. ASSUME NEW s \in Senders, ClaimNext(s) PROVE OnceInv'
  <2>1. \A t \in Senders : pc[t] = "finishing" => pc'[t] = "finishing" /\ hand'[t] = hand[t]
    BY <1>5 DEF ClaimNext, HeldInv, Kinds
  <2>. QED BY <1>1, <1>2, <1>5, <2>1, OnceKept DEF ClaimNext
<1>6. ASSUME NEW s \in Senders, Count(s) PROVE OnceInv'
  <2>1. pc[s] = "counting" /\ UNCHANGED <<state, sent, faults>> BY <1>6 DEF Count
  <2>2. \A t \in Senders \ {s} : pc'[t] = pc[t] /\ hand'[t] = hand[t]
    BY <1>6, RestKeeps DEF Count, HeldInv, Kinds
  <2>. QED BY <1>1, <1>2, <2>1, <2>2, OnceKept
<1>7. CASE UNCHANGED vars BY <1>1, <1>2, <1>7, OnceKept DEF vars
<1>. QED BY <1>3, <1>4, <1>5, <1>6, <1>7, OncePosted, OnceFinished, OnceAfterADeath DEF Next, Step, Trouble

\* Somebody is rung once, and once more for each fault, where a send ends within
\* RETRY_AFTER (ReminderSender._send, _finish).
THEOREM RungOnceEach == ASSUME Prompt PROVE Spec => []RungOnce
<1>1. Init => HeldInv /\ OnceInv BY HeldInit, OnceInit
<1>2. HeldInv /\ OnceInv /\ [Next]_vars => (HeldInv /\ OnceInv)' BY HeldStep, OnceStep
<1>3. OnceInv => RungOnce BY DEF OnceInv
<1>. QED BY <1>1, <1>2, <1>3, PTL DEF Spec

----
\* A reason for every reminder forgotten.

\* Nothing is counted, finished or forgotten, and no sender goes to a place
\* where something is claimed of it.
LEMMA ReasonKept ==
  ASSUME ReasonInv,
         UNCHANGED <<attempts, sent, refusals, denied>>,
         \A s \in Senders : pc'[s] \in {"counting", "finishing"} =>
             pc'[s] = pc[s] /\ hand'[s] = hand[s],
         \A r \in Ids : state'[r] = "gone" => state[r] = "gone"
  PROVE  ReasonInv' BY DEF ReasonInv, Counts, Reasons, GoneForAReason, Reason

\* The posts: what came back is the reason, or is about to be counted.
LEMMA ReasonPosted ==
  ASSUME HeldInv, ReasonInv, NEW s \in Senders,
         Post(s) \/ PostDenied(s) \/ PostRefused(s)
  PROVE  ReasonInv'
<1>. USE DEF queue, sender
<1>1. /\ \A r \in Ids : sent[r] > 0 => sent'[r] > 0
      /\ \A r \in Ids : refusals[r] \in Nat /\ refusals'[r] \in Nat
                         /\ refusals[r] <= refusals'[r]
      /\ denied \subseteq denied'
  BY DEF Post, PostDenied, PostRefused, GoesOut, HeldInv, Kinds
<1>2. /\ UNCHANGED <<state, attempts, hand>>
      /\ \A t \in Senders \ {s} : pc'[t] = pc[t]
      /\ hand[s] \in Ids BY DEF Post, PostDenied, PostRefused, HeldInv, Kinds
<1>3. \A r \in Ids : Reason(r) => Reason(r)' BY <1>1, ReminderAssumption DEF Reason
<1>4. \A t \in Senders : pc[t] # "idle" => hand[t] \in Ids BY DEF HeldInv, Kinds
<1>5. \A r \in Ids : attempts[r] \in Nat BY DEF HeldInv, Kinds
<1>6. pc'[s] = "counting" => attempts[hand[s]] < refusals'[hand[s]]
  <2>1. CASE PostRefused(s)
    <3>1. refusals'[hand[s]] = refusals[hand[s]] + 1 BY <2>1, <1>2 DEF PostRefused, HeldInv, Kinds
    <3>. QED BY <3>1, <1>1, <1>2, <1>5 DEF ReasonInv, Counts
  <2>2. CASE Post(s) \/ PostDenied(s) BY <2>2 DEF Post, PostDenied, HeldInv, Kinds
  <2>. QED BY <2>1, <2>2
<1>7. pc'[s] = "finishing" => Reason(hand[s])'
  <2>1. CASE Post(s) BY <2>1, <1>2 DEF Post, GoesOut, HeldInv, Kinds, Reason
  <2>2. CASE PostDenied(s) BY <2>2, <1>2 DEF PostDenied, Reason
  <2>3. CASE PostRefused(s) BY <2>3 DEF PostRefused, HeldInv, Kinds
  <2>. QED BY <2>1, <2>2, <2>3
<1>8. Counts' BY <1>1, <1>2, <1>4, <1>5, <1>6 DEF ReasonInv, Counts
<1>9. Reasons' BY <1>2, <1>3, <1>4, <1>7 DEF ReasonInv, Reasons
<1>10. GoneForAReason' BY <1>2, <1>3 DEF ReasonInv, GoneForAReason, Reason
<1>. QED BY <1>8, <1>9, <1>10 DEF ReasonInv

\* A refusal is counted; the last one allowed is the reason to give up.
LEMMA ReasonCounted ==
  ASSUME HeldInv, ReasonInv, NEW s \in Senders, Count(s) PROVE ReasonInv'
<1>. DEFINE r == hand[s]
<1>1. /\ r \in Ids /\ state[r] = "waiting"
      /\ pc[s] = "counting"
      /\ attempts[r] < refusals[r]
      /\ \A t \in Senders : pc[t] # "idle" => hand[t] \in Ids
  BY DEF Count, HeldInv, Kinds, Held, ReasonInv, Counts
<1>2. /\ UNCHANGED <<state, sent, refusals, denied>>
      /\ attempts' = [attempts EXCEPT ![r] = @ + 1]
      /\ OutOfAttempts(r) => pc' = [pc EXCEPT ![s] = "finishing"] /\ UNCHANGED hand
      /\ ~OutOfAttempts(r) => Rest(s) BY <1>1 DEF Count, history
<1>3. /\ \A t \in Senders \ {s} : pc'[t] = pc[t] /\ hand'[t] = hand[t]
      /\ pc'[s] \in {"idle", "finishing"}
      /\ pc'[s] = "finishing" => OutOfAttempts(r) /\ hand'[s] = r
  BY <1>2, RestKeeps DEF HeldInv, Kinds
<1>4. \A t \in Senders \ {s} : hand[t] \in Ids => hand[t] # r
  BY <1>1, ReminderAssumption DEF HeldInv, NeverTakenOver
<1>5. /\ attempts'[r] = attempts[r] + 1
      /\ \A q \in Ids \ {r} : attempts'[q] = attempts[q]
      /\ \A q \in Ids : attempts[q] \in Nat /\ refusals[q] \in Nat
  BY <1>1, <1>2 DEF HeldInv, Kinds
<1>. HIDE DEF r
<1>6. Counts'
  <2>1. \A q \in Ids : attempts'[q] <= refusals[q] BY <1>1, <1>5 DEF ReasonInv, Counts
  <2>2. \A t \in Senders : pc'[t] = "counting" =>
            t # s /\ pc[t] = "counting" /\ hand'[t] = hand[t] BY <1>3
  <2>3. \A t \in Senders : pc'[t] = "counting" => attempts'[hand[t]] = attempts[hand[t]]
    BY <2>2, <1>1, <1>4, <1>5
  <2>. QED BY <1>2, <2>1, <2>2, <2>3 DEF ReasonInv, Counts
<1>7. OutOfAttempts(r) => Reason(r) BY <1>1, <1>5, ReminderAssumption DEF OutOfAttempts, Reason
<1>8. Reasons' BY <1>2, <1>3, <1>7 DEF ReasonInv, Reasons, Reason
<1>9. GoneForAReason' BY <1>2 DEF ReasonInv, GoneForAReason
<1>. QED BY <1>6, <1>8, <1>9 DEF ReasonInv

LEMMA ReasonFinished ==
  ASSUME HeldInv, ReasonInv, NEW s \in Senders, Finish(s) PROVE ReasonInv'
<1>. USE DEF Finish, history
<1>1. /\ hand[s] \in Ids /\ Reason(hand[s])
      /\ \A r \in Ids : state'[r] = "gone" => state[r] = "gone" \/ r = hand[s]
  BY DEF HeldInv, Kinds, ReasonInv, Reasons
<1>2. /\ pc'[s] = "idle"
      /\ \A t \in Senders \ {s} : pc'[t] = pc[t] /\ hand'[t] = hand[t]
  BY RestKeeps DEF HeldInv
<1>3. Counts' /\ Reasons' BY <1>2 DEF ReasonInv, Counts, Reasons, Reason
<1>4. GoneForAReason' BY <1>1 DEF ReasonInv, GoneForAReason, Reason
<1>. QED BY <1>3, <1>4 DEF ReasonInv

LEMMA ReasonStep == HeldInv /\ ReasonInv /\ [Next]_vars => ReasonInv'
<1>. SUFFICES ASSUME HeldInv, ReasonInv, [Next]_vars PROVE ReasonInv' OBVIOUS
<1>. USE DEF queue, sender, history
<1>1. CASE Command
  <2>1. PICK r \in Ids : CountThem(r) \/ Add(r) \/ AddFails(r) BY <1>1 DEF Command
  <2>2. \A q \in Ids : state'[q] = "gone" => state[q] = "gone"
    BY <2>1 DEF CountThem, Add, AddFails, HeldInv, Kinds
  <2>. QED BY <2>1, <2>2, ReasonKept DEF CountThem, Add, AddFails
<1>2. CASE Tick \/ \E r \in Ids : Ages(r) BY <1>2, ReasonKept DEF Tick, Ages
<1>3. ASSUME NEW s \in Senders, ClaimNext(s) PROVE ReasonInv'
  <2>1. \A t \in Senders : pc'[t] \in {"counting", "finishing"} =>
            pc'[t] = pc[t] /\ hand'[t] = hand[t]
    BY <1>3 DEF ClaimNext, HeldInv, Kinds
  <2>. QED BY <1>3, <2>1, ReasonKept DEF ClaimNext
<1>4. ASSUME NEW s \in Senders, Die(s) PROVE ReasonInv'
  <2>1. Rest(s) BY <1>4 DEF Die
  <2>2. \A t \in Senders : pc'[t] \in {"counting", "finishing"} =>
            pc'[t] = pc[t] /\ hand'[t] = hand[t] BY <2>1, RestKeeps DEF HeldInv
  <2>. QED BY <1>4, <2>2, ReasonKept DEF Die
<1>5. CASE UNCHANGED vars BY <1>5, ReasonKept DEF vars
<1>. QED BY <1>1, <1>2, <1>3, <1>4, <1>5, ReasonPosted, ReasonCounted, ReasonFinished DEF Next, Step, Trouble

\* A reminder is forgotten because it went out, was refused for good, or had
\* MOST_ATTEMPTS refusals of its own (_send, _refused).
THEOREM ForgottenForAReason == ASSUME Prompt PROVE Spec => []GoneForAReason
<1>1. Init => HeldInv /\ ReasonInv BY HeldInit, ReasonInit
<1>2. HeldInv /\ ReasonInv /\ [Next]_vars => (HeldInv /\ ReasonInv)' BY HeldStep, ReasonStep
<1>3. ReasonInv => GoneForAReason BY DEF ReasonInv
<1>. QED BY <1>1, <1>2, <1>3, PTL DEF Spec

----
\* The cap.  A command that has found room and not yet used it is as good
\* as a reminder more, and there are at most AtOnce of them.

CapInv ==
    /\ state \in [Ids -> States]
    /\ Cardinality(Counted) <= AtOnce
    /\ Cardinality(Waiting) + Cardinality(Counted) <= MostWaiting + AtOnce - 1

LEMMA FiniteParts ==
  ASSUME IsFiniteSet(Ids)
  PROVE  /\ IsFiniteSet(Waiting) /\ Cardinality(Waiting) \in Nat
         /\ IsFiniteSet(Counted) /\ Cardinality(Counted) \in Nat
<1>1. Waiting \subseteq Ids /\ Counted \subseteq Ids BY DEF Waiting, Counted
<1>. QED BY <1>1, FS_Subset, FS_CardinalityType

\* No step but a count and an insert adds to either.
LEMMA CapShrinks ==
  ASSUME IsFiniteSet(Ids), CapInv, state' \in [Ids -> States],
         Waiting' \subseteq Waiting, Counted' \subseteq Counted
  PROVE  CapInv'
<1>1. /\ Cardinality(Waiting') \in Nat /\ Cardinality(Waiting') <= Cardinality(Waiting)
      /\ Cardinality(Counted') \in Nat /\ Cardinality(Counted') <= Cardinality(Counted)
  BY FiniteParts, FS_Subset, FS_CardinalityType
<1>. QED BY <1>1, FiniteParts, ReminderAssumption DEF CapInv

LEMMA CapCounted ==
  ASSUME IsFiniteSet(Ids), CapInv, NEW r \in Ids, CountThem(r) PROVE CapInv'
<1>1. state' \in [Ids -> States] /\ Waiting' = Waiting BY DEF CapInv, CountThem, States, Waiting
<1>2. CASE HasRoom
  <2>1. Counted' = Counted \cup {r} /\ r \notin Counted BY <1>2 DEF CapInv, CountThem, Counted
  <2>2. Cardinality(Counted') = Cardinality(Counted) + 1 BY <2>1, FiniteParts, FS_AddElement
  <2>3. Cardinality(Waiting) < MostWaiting /\ Cardinality(Counted) < AtOnce BY <1>2 DEF HasRoom, CountThem
  <2>. QED BY <1>1, <2>2, <2>3, FiniteParts, ReminderAssumption DEF CapInv
<1>3. CASE ~HasRoom
  <2>1. Counted' = Counted BY <1>3 DEF CapInv, CountThem, Counted
  <2>. QED BY <1>1, <2>1, CapShrinks
<1>. QED BY <1>2, <1>3

LEMMA CapAdded ==
  ASSUME IsFiniteSet(Ids), CapInv, NEW r \in Ids, Add(r) PROVE CapInv'
<1>1. /\ state' \in [Ids -> States]
      /\ Waiting' = Waiting \cup {r} /\ r \notin Waiting
      /\ Counted' = Counted \ {r} /\ r \in Counted
  BY DEF CapInv, Add, States, Waiting, Counted
<1>2. /\ Cardinality(Waiting') = Cardinality(Waiting) + 1
      /\ Cardinality(Counted') = Cardinality(Counted) - 1
  BY <1>1, FiniteParts, FS_AddElement, FS_RemoveElement
<1>. QED BY <1>1, <1>2, FiniteParts, ReminderAssumption DEF CapInv

LEMMA CapStep == ASSUME IsFiniteSet(Ids) PROVE CapInv /\ [Next]_vars => CapInv'
<1>. SUFFICES ASSUME CapInv, [Next]_vars PROVE CapInv' OBVIOUS
<1>1. ASSUME NEW r \in Ids, AddFails(r) PROVE CapInv'
  BY <1>1, CapShrinks DEF AddFails, CapInv, States, Waiting, Counted
<1>2. ASSUME NEW s \in Senders, Finish(s) PROVE CapInv'
  BY <1>2, CapShrinks DEF Finish, CapInv, States, Waiting, Counted
<1>3. ASSUME UNCHANGED state PROVE CapInv' BY <1>3, CapShrinks DEF CapInv, Waiting, Counted
<1>4. CASE UNCHANGED vars BY <1>3, <1>4 DEF vars, queue
<1>5. CASE Tick \/ \E r \in Ids : Ages(r) BY <1>3, <1>5 DEF Tick, Ages, queue
<1>6. ASSUME NEW s \in Senders, Trouble(s) \/ ClaimNext(s) \/ Post(s) \/ Count(s) PROVE CapInv'
  BY <1>3, <1>6 DEF Trouble, PostDenied, PostRefused, Die, ClaimNext, Post, Count, queue
<1>. QED BY <1>1, <1>2, <1>4, <1>5, <1>6, CapCounted, CapAdded DEF Next, Command, Step

\* The cap is passed by no more than the commands between their count and their
\* insert at one moment, less one (ReminderBook.add).
THEOREM SoftCeiling == ASSUME IsFiniteSet(Ids) PROVE Spec => []CapIsNearlyKept
<1>1. Init => CapInv
  <2>. SUFFICES ASSUME Init PROVE CapInv OBVIOUS
  <2>1. Waiting = {} /\ Counted = {} BY DEF Init, Waiting, Counted
  <2>. QED BY <2>1, FS_EmptySet, ReminderAssumption DEF Init, CapInv, States
<1>2. CapInv => CapIsNearlyKept BY FiniteParts, ReminderAssumption DEF CapInv, CapIsNearlyKept
<1>. QED BY <1>1, <1>2, CapStep, PTL DEF Spec
=============================================================================
