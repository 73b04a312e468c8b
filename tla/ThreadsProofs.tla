---------------------------- MODULE ThreadsProofs ----------------------------
(***************************************************************************)
(* What is proved of the five parts of MCThreads: the item's sync, where   *)
(* its thread is, what is said in it, and the process with its /health.    *)
(* Each has an inductive invariant of its own, kept by each step of its    *)
(* own, and the steps of the others leave its variables alone.             *)
(*                                                                         *)
(* The sync comes first, by itself: what ItemSync guarantees for any       *)
(* number of versions, syncs, threads and troubles.  In turn: the types;   *)
(* no thread is left over; the row does not go back; and, from all three,  *)
(* the thread ends as GitHub has the issue.                                *)
(***************************************************************************)
EXTENDS MCThreads, Integers, Sequences, WellFoundedInduction, TLAPS

----
\* Types, and what a sync holds at each place.

LEMMA TypeInit == Init => TypeOK BY SyncAssumption
DEF Init, TypeOK, RowKinds, ThreadKinds, SyncKinds, FlagKinds, Places, PCs, Opening, Bounded

\* A sync that ends drops what it held.
LEMMA TypeRest ==
  ASSUME TypeOK, NEW p \in Syncs, Rest(p),
         UNCHANGED <<gh, stored, last, used>>, owed' \subseteq owed,
         note' \in {"shut", "open", "unknown"},
         live' \subseteq used, block' \in [Threads -> 0 .. MaxVersion],
         shut' \in [Threads -> BOOLEAN], pointer' \in used \cup {NULL},
         lost' \subseteq used, counts' \in [Bounded -> Nat],
         excuses' \subseteq excuses \cup {"unfinished"}
  PROVE  TypeOK'
<1>. USE SyncAssumption DEF TypeOK, Rest, Goto, ReleaseLock
<1>1. RowKinds' /\ ThreadKinds' BY DEF RowKinds, ThreadKinds
<1>2. SyncKinds' /\ FlagKinds' BY DEF SyncKinds, FlagKinds, PCs
<1>3. Places' BY DEF Places, SyncKinds, RowKinds, PCs, Opening
<1>. QED BY <1>1, <1>2, <1>3

\* A swap writes a thread the row may name.
LEMMA SwapKinds ==
  ASSUME TypeOK, NEW p \in Syncs, NEW old, Swap(p, old)
  PROVE  pointer' \in used \cup {NULL} /\ note' \in {"shut", "open", "unknown"}
BY DEF TypeOK, ThreadKinds, RowKinds, Swap

\* The bounded events are counted one by one.
LEMMA FaultKinds ==
  ASSUME TypeOK, Fault PROVE counts' \in [Bounded -> Nat] BY DEF TypeOK, FlagKinds, Fault, Bounded

\* So does a thread taken away, or left behind.
LEMMA TakeAwayKinds ==
  ASSUME TypeOK, NEW p \in Syncs, handle[p] \in used, TakeAway(p)
  PROVE  /\ live' \subseteq live /\ used' = used
         /\ block' \in [Threads -> 0 .. MaxVersion] /\ shut' \in [Threads -> BOOLEAN]
         /\ lost' \subseteq used /\ counts' \in [Bounded -> Nat]
<1>. USE SyncAssumption DEF TypeOK, ThreadKinds
<1>1. CASE Remove(handle[p]) /\ UNCHANGED <<counts, lost>>
  <2>1. 0 \in 0 .. MaxVersion OBVIOUS
  <2>2. block' \in [Threads -> 0 .. MaxVersion] /\ shut' \in [Threads -> BOOLEAN] BY <1>1, <2>1 DEF Remove
  <2>. QED BY <1>1, <2>2 DEF Remove, FlagKinds
<1>2. CASE Fault /\ lost' = lost \cup {handle[p]} /\ UNCHANGED discord BY <1>2, FaultKinds DEF discord
<1>. QED BY <1>1, <1>2 DEF TakeAway

LEMMA TypeVerdict ==
  ASSUME TypeOK, NEW p \in Syncs, Record(p) \/ Insert(p) PROVE TypeOK'
<1>. USE SyncAssumption
     DEF TypeOK, Record, Insert, AskAgain, Judge, Apply, TurnAway, RebuildFromRow, AfterRecord, Goto,
         github, discord, book
<1>1. stored' \in 0 .. MaxVersion /\ last' \in 0 .. MaxVersion BY DEF RowKinds, SyncKinds
<1>2. RowKinds' BY <1>1 DEF RowKinds
<1>3. /\ target' \in [Syncs -> used \cup {NULL}]
      /\ handle' \in [Syncs -> used \cup {NULL}] BY DEF ThreadKinds
<1>4. ThreadKinds' BY <1>3 DEF ThreadKinds
<1>5. FlagKinds' BY DEF FlagKinds
<1>6. SyncKinds' BY DEF SyncKinds, RowKinds, PCs, Opening
<1>7. Places' BY DEF Places, SyncKinds, ThreadKinds, RowKinds, Opening
<1>. QED BY <1>2, <1>4, <1>5, <1>6, <1>7

LEMMA TypeOpen ==
  ASSUME TypeOK, NEW p \in Syncs, NEW t \in Threads, Open(p, t) PROVE TypeOK'
<1>. USE SyncAssumption DEF TypeOK, Open, Goto, github, row
<1>1. RowKinds' BY DEF RowKinds
<1>2. ThreadKinds' BY DEF ThreadKinds, SyncKinds
<1>3. SyncKinds' BY DEF SyncKinds, PCs, Opening
<1>4. counts' \in [Bounded -> Nat] BY DEF FlagKinds, Fault, Bounded
<1>5. FlagKinds' BY <1>4 DEF FlagKinds
<1>6. Places' BY DEF Places, SyncKinds, ThreadKinds, RowKinds, Opening
<1>. QED BY <1>1, <1>2, <1>3, <1>5, <1>6

LEMMA TypeReadBack ==
  ASSUME TypeOK, NEW p \in Syncs, pc[p] \in Opening, NEW old, Swap(p, old), ReadBack(p),
         UNCHANGED <<github, stored, last, discord, counts, lost>>
  PROVE  TypeOK'
<1>. USE SyncAssumption DEF TypeOK, github, discord
<1>1. CASE Raise(p) BY <1>1, SwapKinds, TypeRest DEF Raise, ThreadKinds, FlagKinds
<1>2. CASE ~Raise(p)
  <2>. USE <1>2 DEF ReadBack, Goto, local
  <2>1. RowKinds' /\ ThreadKinds' BY SwapKinds DEF RowKinds, ThreadKinds
  <2>2. SyncKinds' /\ FlagKinds' BY DEF SyncKinds, FlagKinds, PCs, Opening
  <2>3. Places' BY DEF Places, SyncKinds, ThreadKinds, RowKinds, Opening
  <2>. QED BY <2>1, <2>2, <2>3
<1>. QED BY <1>1, <1>2

LEMMA TypeDiscard ==
  ASSUME TypeOK, NEW p \in Syncs, Discard(p) \/ TakeBack(p) PROVE TypeOK'
<1>. USE DEF TypeOK, github, row
<1>1. handle[p] \in used /\ TakeAway(p) BY DEF Discard, TakeBack, Places, ThreadKinds, Opening
<1>2. CASE Raise(p) BY <1>1, <1>2, TakeAwayKinds, TypeRest DEF Discard, TakeBack, Raise, RowKinds, ThreadKinds
<1>3. CASE ~Raise(p)
  <2>. USE <1>3 DEF Discard, TakeBack, Goto
  <2>1. RowKinds' /\ ThreadKinds' BY <1>1, TakeAwayKinds DEF RowKinds, ThreadKinds
  <2>2. SyncKinds' /\ FlagKinds' BY <1>1, TakeAwayKinds DEF SyncKinds, FlagKinds, PCs, Opening
  <2>3. Places' BY DEF Places, SyncKinds, ThreadKinds, RowKinds, Opening
  <2>. QED BY <2>1, <2>2, <2>3
<1>. QED BY <1>2, <1>3

LEMMA TypeStep == TypeOK /\ [Next]_vars => TypeOK'
<1>. SUFFICES ASSUME TypeOK, [Next]_vars PROVE TypeOK' OBVIOUS
<1>. USE SyncAssumption
<1>1. CASE UNCHANGED vars
  BY <1>1 DEF TypeOK, RowKinds, ThreadKinds, SyncKinds, FlagKinds, Places, vars, github, row, discord, local,
    book
<1>2. CASE Change
  BY <1>2 DEF Change, TypeOK, RowKinds, ThreadKinds, SyncKinds, FlagKinds, Places, row, discord, local, book
<1>3. ASSUME NEW t \in Threads, Delete(t) PROVE TypeOK'
  <2>1. counts' \in [Bounded -> Nat] BY <1>3 DEF Delete, TypeOK, FlagKinds, Bounded
  <2>. QED
    BY <1>3, <2>1 DEF Delete, TypeOK, RowKinds, ThreadKinds, SyncKinds, FlagKinds, Places, github, row, local
<1>4. ASSUME NEW t \in Threads, Forget(t) PROVE TypeOK'
  BY <1>4 DEF Forget, TypeOK, RowKinds, ThreadKinds, SyncKinds, FlagKinds, Places, github, discord, local,
    book
<1>5. ASSUME NEW p \in Syncs, Take(p) PROVE TypeOK'
  <2>. USE DEF TypeOK, Begin, Goto
  <2>1. CASE SyncByHand(p)
    BY <2>1 DEF SyncByHand, RowKinds, ThreadKinds, SyncKinds, FlagKinds, Places, PCs, Opening, Bounded,
      github, row, discord
  <2>2. ASSUME NEW v \in Versions, Deliver(p, v) PROVE TypeOK'
    BY <2>2 DEF Deliver, RowKinds, ThreadKinds, SyncKinds, FlagKinds, Places, PCs, Opening, github, row,
      discord, book
  <2>. QED BY <1>5, <2>1, <2>2 DEF Take
<1>6. ASSUME NEW p \in Syncs, Step(p) PROVE TypeOK'
  <2>1. CASE TakeLock(p) \/ Unlock(p) \/ NoteOpen(p) \/ Closing(p) \/ Settle(p) \/ NoteShut(p)
    <3>1. RowKinds' /\ ThreadKinds'
      BY <2>1 DEF TakeLock, Unlock, NoteOpen, Closing, Settle, NoteShut, NoteTheLock, TypeOK, RowKinds,
        ThreadKinds, github, row, discord, local, book
    <3>2. SyncKinds' /\ FlagKinds'
      BY <2>1 DEF TakeLock, Unlock, NoteOpen, Closing, Settle, NoteShut, TypeOK, SyncKinds, FlagKinds, PCs,
        Opening, Goto, local, book
    <3>3. Places'
      BY <2>1 DEF TakeLock, Unlock, NoteOpen, Closing, Settle, NoteShut, TypeOK, Places, SyncKinds,
        ThreadKinds, RowKinds, Opening, Goto, github, local
    <3>. QED BY <3>1, <3>2, <3>3 DEF TypeOK
  <2>2. CASE Update(p)
    BY <2>2 DEF Update, TypeOK, RowKinds, ThreadKinds, SyncKinds, FlagKinds, Places, PCs, Opening, Goto,
      github, row, book
  <2>3. CASE Claim(p) \/ Reclaim(p) BY <2>3, TypeReadBack DEF Claim, Reclaim, Opening
  <2>4. CASE Shut(p)
    <3>1. CASE Raise(p)
      <4>1. shut' \in [Threads -> BOOLEAN] BY <2>4 DEF Shut, TypeOK, ThreadKinds
      <4>. QED
        BY <2>4, <3>1, <4>1, TypeRest DEF Shut, Raise, TypeOK, RowKinds, ThreadKinds, FlagKinds, github, row
    <3>2. CASE ~Raise(p)
      <4>1. RowKinds' /\ ThreadKinds'
        BY <2>4, <3>2 DEF Shut, TypeOK, RowKinds, ThreadKinds, github, row, local
      <4>2. SyncKinds' /\ FlagKinds'
        BY <2>4, <3>2 DEF Shut, TypeOK, SyncKinds, FlagKinds, PCs, Opening, Goto, local
      <4>3. Places' BY <2>4, <3>2 DEF Shut, TypeOK, SyncKinds, RowKinds, Places, Opening, Goto, github, local
      <4>. QED BY <4>1, <4>2, <4>3 DEF TypeOK
    <3>. QED BY <3>1, <3>2
  <2>5. CASE Finish(p)
    BY <2>5, TypeRest DEF Finish, TypeOK, RowKinds, ThreadKinds, FlagKinds, row, discord, book
  <2>. QED BY <1>6, <2>1, <2>2, <2>3, <2>4, <2>5, TypeVerdict, TypeOpen, TypeDiscard DEF Step
<1>7. ASSUME NEW p \in Syncs, Trouble(p) PROVE TypeOK'
  <2>1. CASE UnlockRefused(p) \/ ShutRefused(p) \/ ClaimFails(p) \/ LoseLock(p)
    <3>1. counts' \in [Bounded -> Nat]
      BY <2>1 DEF UnlockRefused, ShutRefused, ClaimFails, LoseLock, Fault, TypeOK, FlagKinds, Bounded
    <3>2. RowKinds' /\ ThreadKinds'
      BY <2>1, SwapKinds DEF UnlockRefused, ShutRefused, ClaimFails, LoseLock, TypeOK, RowKinds, ThreadKinds,
        github, row, discord, local
    <3>3. SyncKinds' /\ FlagKinds'
      BY <2>1, <3>1 DEF UnlockRefused, ShutRefused, ClaimFails, LoseLock, TypeOK, SyncKinds, FlagKinds, PCs,
        Opening, Goto, local
    <3>4. Places'
      BY <2>1 DEF UnlockRefused, ShutRefused, ClaimFails, LoseLock, TypeOK, SyncKinds, RowKinds, ThreadKinds,
        Places, Opening, Goto, github, row, local
    <3>. QED BY <3>1, <3>2, <3>3, <3>4 DEF TypeOK
  <2>2. CASE Busy(p)
    BY <2>2, TypeRest DEF Busy, TypeOK, RowKinds, ThreadKinds, FlagKinds, github, row, discord, book
  <2>3. CASE Abort(p)
    <3>1. counts' \in [Bounded -> Nat] /\ lost' \subseteq used
      BY <2>3, FaultKinds DEF Abort, TypeOK, ThreadKinds
    <3>. QED
      BY <2>3, <3>1, TypeRest DEF Abort, Raise, TypeOK, RowKinds, ThreadKinds, FlagKinds, github, row, discord
  <2>. QED BY <1>7, <2>1, <2>2, <2>3 DEF Trouble
<1>. QED BY <1>1, <1>2, <1>3, <1>4, <1>5, <1>6, <1>7 DEF Next, Environment

\* Every variable keeps its type, and a sync holds at each place what its next
\* call needs, for any number of syncs, threads and versions.
THEOREM SyncTypeCorrect == Spec => []TypeOK
<1>. QED BY TypeInit, TypeStep, PTL DEF Spec

----
\* Ownership.  Strengthened by what the compare-and-swap relies on: a sync
\* that has opened a thread and not yet claimed it replaces a dead one,
\* and a dead thread's id never comes back to life.

ThreadIds ==
    /\ pc \in [Syncs -> PCs]
    /\ live \subseteq used /\ used \subseteq Threads
    /\ pointer \in used \cup {NULL}
    /\ target \in [Syncs -> used \cup {NULL}]
    /\ handle \in [Syncs -> used \cup {NULL}]

ReplacesTheDead == \A p \in Syncs : pc[p] = "claim" => target[p] \notin live

OwnInv == ThreadIds /\ ReplacesTheDead /\ EveryThreadIsOwned

LEMMA OwnInit == Init => OwnInv
BY SyncAssumption DEF Init, OwnInv, ThreadIds, ReplacesTheDead, EveryThreadIsOwned, PCs, Opening

\* A sync that is not opening a thread moves on, and no thread is touched.
LEMMA OwnMove ==
  ASSUME OwnInv, NEW p \in Syncs, NEW x \in PCs \ Opening, Goto(p, x),
         pc[p] \notin Opening,
         target' \in [Syncs -> used \cup {NULL}],
         handle' \in [Syncs -> used \cup {NULL}],
         \A q \in Syncs \ {p} : target'[q] = target[q] /\ handle'[q] = handle[q],
         UNCHANGED <<live, used, pointer, lost>>
  PROVE  OwnInv'
<1>1. ThreadIds' BY DEF OwnInv, ThreadIds, Goto
<1>2. \A q \in Syncs : pc'[q] \in Opening => q # p /\ pc'[q] = pc[q] BY DEF OwnInv, ThreadIds, Goto
<1>3. \A q \in Syncs : q # p => pc'[q] = pc[q] BY DEF OwnInv, ThreadIds, Goto
<1>4. ReplacesTheDead' BY <1>2 DEF OwnInv, ReplacesTheDead, Opening
<1>5. EveryThreadIsOwned' BY <1>3 DEF OwnInv, EveryThreadIsOwned
<1> QED BY <1>1, <1>4, <1>5 DEF OwnInv

\* What a sync that ends leaves behind in pc, target and handle.
LEMMA RestIds ==
  ASSUME OwnInv, NEW p \in Syncs, Rest(p)
  PROVE  /\ Goto(p, "idle")
         /\ target' \in [Syncs -> used \cup {NULL}]
         /\ handle' \in [Syncs -> used \cup {NULL}]
         /\ \A q \in Syncs \ {p} : target'[q] = target[q] /\ handle'[q] = handle[q]
BY DEF OwnInv, ThreadIds, Rest

\* A sync leaves the opening with its thread accounted for.
LEMMA OwnLeave ==
  ASSUME OwnInv, NEW p \in Syncs, NEW x \in PCs \ Opening, Goto(p, x),
         pc[p] \in Opening,
         target' \in [Syncs -> used \cup {NULL}],
         handle' \in [Syncs -> used \cup {NULL}],
         \A q \in Syncs \ {p} : target'[q] = target[q] /\ handle'[q] = handle[q],
         live' \subseteq live, used' = used, pointer' \in used \cup {NULL},
         handle[p] \in live' => handle[p] \in lost' \cup {pointer'},
         pointer \in live' => pointer' = pointer,
         lost \subseteq lost'
  PROVE  OwnInv'
<1>1. ThreadIds' BY DEF OwnInv, ThreadIds, Goto
<1>2. \A q \in Syncs : q # p => pc'[q] = pc[q] BY DEF OwnInv, ThreadIds, Goto
<1>3. pc'[p] = x BY DEF OwnInv, ThreadIds, Goto
<1>4. ReplacesTheDead' BY <1>2, <1>3 DEF OwnInv, ReplacesTheDead, Opening
<1>5. EveryThreadIsOwned' BY <1>2 DEF OwnInv, EveryThreadIsOwned
<1> QED BY <1>1, <1>4, <1>5 DEF OwnInv

\* A sync goes on opening; the pointer left no living thread.
LEMMA OwnOpening ==
  ASSUME OwnInv, NEW p \in Syncs, NEW x \in Opening \ {"claim"}, Goto(p, x),
         pc[p] \in Opening,
         target' \in [Syncs -> used \cup {NULL}], handle' = handle,
         \A q \in Syncs \ {p} : target'[q] = target[q],
         UNCHANGED <<live, used, lost>>, pointer' \in used \cup {NULL},
         pointer \in live => pointer' = pointer
  PROVE  OwnInv'
<1>1. ThreadIds' BY DEF OwnInv, ThreadIds, Goto, PCs
<1>2. \A q \in Syncs : q # p => pc'[q] = pc[q] BY DEF OwnInv, ThreadIds, Goto
<1>3. pc'[p] = x BY DEF OwnInv, ThreadIds, Goto
<1>4. ReplacesTheDead' BY <1>2, <1>3 DEF OwnInv, ReplacesTheDead
<1>5. EveryThreadIsOwned' BY <1>2, <1>3 DEF OwnInv, EveryThreadIsOwned
<1> QED BY <1>1, <1>4, <1>5 DEF OwnInv

\* A swap that read the pointer back, from a thread that is not alive.
LEMMA OwnReadBack ==
  ASSUME OwnInv, NEW p \in Syncs, NEW old \in used \cup {NULL}, old \notin live,
         pc[p] \in Opening, Swap(p, old), ReadBack(p), UNCHANGED <<live, used, lost>>
  PROVE  OwnInv'
<1>1. /\ pointer' \in used \cup {NULL}
      /\ pointer \in live => pointer' = pointer BY DEF OwnInv, ThreadIds, Swap
<1>2. CASE pointer' = handle[p] /\ ~StartedEmpty(p) /\ Goto(p, "closing") /\ UNCHANGED local
  BY <1>1, <1>2, OwnLeave DEF OwnInv, ThreadIds, local, PCs, Opening
<1>3. CASE pointer' = handle[p] /\ StartedEmpty(p) /\ Raise(p)
  BY <1>1, <1>3, RestIds, OwnLeave DEF Raise, PCs, Opening
<1>4. CASE pointer' = NULL /\ Goto(p, "reclaim") /\ UNCHANGED local
  BY <1>1, <1>4, OwnOpening DEF OwnInv, ThreadIds, local, Opening
<1>5. CASE /\ pointer' \notin {handle[p], NULL} /\ Goto(p, "discard")
           /\ target' = [target EXCEPT ![p] = pointer'] /\ UNCHANGED handle
  <2>1. /\ target' \in [Syncs -> used \cup {NULL}]
        /\ \A q \in Syncs \ {p} : target'[q] = target[q]
    BY <1>1, <1>5 DEF OwnInv, ThreadIds
  <2> QED BY <1>1, <1>5, <2>1, OwnOpening DEF Opening
<1> QED BY <1>2, <1>3, <1>4, <1>5 DEF ReadBack

\* The thread is removed, or stays behind as a lost one.
LEMMA TakeAwayThreads ==
  ASSUME OwnInv, NEW p \in Syncs, TakeAway(p)
  PROVE  /\ live' \subseteq live /\ used' = used /\ lost \subseteq lost'
         /\ handle[p] \in live' => handle[p] \in lost'
BY DEF TakeAway, Remove, discord

LEMMA OwnStep == OwnInv /\ [Next]_vars => OwnInv'
<1> SUFFICES ASSUME OwnInv, [Next]_vars PROVE OwnInv' OBVIOUS
<1> USE DEF PCs, Opening
<1>1. CASE UNCHANGED vars
  BY <1>1 DEF vars, row, discord, local, book, OwnInv, ThreadIds, ReplacesTheDead, EveryThreadIsOwned
<1>2. CASE Change
  BY <1>2 DEF Change, row, discord, local, book, OwnInv, ThreadIds, ReplacesTheDead, EveryThreadIsOwned
<1>3. ASSUME NEW t \in Threads, Delete(t) PROVE OwnInv'
  BY <1>3 DEF Delete, row, local, OwnInv, ThreadIds, ReplacesTheDead, EveryThreadIsOwned
<1>4. ASSUME NEW t \in Threads, Forget(t) PROVE OwnInv'
  BY <1>4 DEF Forget, Guarded, discord, local, book, OwnInv, ThreadIds, ReplacesTheDead, EveryThreadIsOwned
<1>5. ASSUME NEW p \in Syncs, Step(p) PROVE OwnInv'
  <2>1. CASE \/ TakeLock(p) \/ NoteOpen(p) \/ Closing(p) \/ Settle(p) \/ NoteShut(p) \/ Unlock(p)
    <3>1. PICK x \in PCs \ Opening : Goto(p, x)
      BY <2>1 DEF TakeLock, NoteOpen, Closing, Settle, NoteShut, Unlock
    <3>2. UNCHANGED <<live, used, pointer, lost, target, handle>> /\ pc[p] \notin Opening
      BY <2>1 DEF TakeLock, NoteOpen, Closing, Settle, NoteShut, Unlock, row, discord, local, book
    <3> QED BY <3>1, <3>2, OwnMove DEF OwnInv, ThreadIds
  <2>2. CASE Record(p) \/ Insert(p)
    <3>1. PICK x \in PCs \ Opening : Goto(p, x)
      BY <2>2 DEF Record, Insert, AskAgain, Judge, Apply, TurnAway, RebuildFromRow, AfterRecord
    <3>2. UNCHANGED <<live, used, pointer, lost>> /\ pc[p] \notin Opening
      BY <2>2 DEF Record, Insert, discord, book
    <3>3. /\ target' \in [Syncs -> used \cup {NULL}]
          /\ handle' \in [Syncs -> used \cup {NULL}]
          /\ \A q \in Syncs \ {p} : target'[q] = target[q] /\ handle'[q] = handle[q]
      BY <2>2 DEF Record, Insert, AskAgain, Judge, Apply, TurnAway, RebuildFromRow, OwnInv, ThreadIds
    <3> QED BY <3>1, <3>2, <3>3, OwnMove
  <2>3. CASE Update(p)
    <3>1. /\ handle' \in [Syncs -> used \cup {NULL}] /\ UNCHANGED target
          /\ \A q \in Syncs \ {p} : handle'[q] = handle[q]
      BY <2>3 DEF Update, OwnInv, ThreadIds
    <3> QED BY <2>3, <3>1, OwnMove DEF Update, row, book, OwnInv, ThreadIds
  <2>4. ASSUME NEW t \in Threads, Open(p, t) PROVE OwnInv'
    <3>1. /\ live' = live \cup {t} /\ used' = used \cup {t} /\ t \notin used
          /\ pc' = [pc EXCEPT ![p] = "claim"] /\ handle' = [handle EXCEPT ![p] = t]
          /\ target[p] \notin live /\ pc[p] = "write"
          /\ UNCHANGED <<pointer, target, lost>> BY <2>4 DEF Open, Goto, row
    <3>2. ThreadIds' BY <3>1 DEF OwnInv, ThreadIds
    <3>3. ReplacesTheDead' BY <3>1, SyncAssumption DEF OwnInv, ThreadIds, ReplacesTheDead
    <3>4. EveryThreadIsOwned' BY <3>1 DEF OwnInv, ThreadIds, EveryThreadIsOwned
    <3> QED BY <3>2, <3>3, <3>4 DEF OwnInv
  <2>5. CASE Claim(p) BY <2>5, OwnReadBack DEF Claim, discord, OwnInv, ThreadIds, ReplacesTheDead
  <2>6. CASE Reclaim(p) BY <2>6, OwnReadBack, SyncAssumption DEF Reclaim, discord, OwnInv, ThreadIds
  <2>7. CASE Discard(p)
    <3>1. pc[p] \in Opening /\ pointer' = pointer /\ TakeAway(p) BY <2>7 DEF Discard, row
    <3>2. CASE StartedEmpty(p)
      BY <2>7, <3>1, <3>2, TakeAwayThreads, RestIds, OwnLeave DEF Discard, Raise, OwnInv, ThreadIds
    <3>3. CASE ~StartedEmpty(p)
      <4>1. /\ handle' = [handle EXCEPT ![p] = target[p]] /\ UNCHANGED target /\ Goto(p, "closing")
        BY <2>7, <3>3 DEF Discard
      <4>2. /\ handle' \in [Syncs -> used \cup {NULL}]
            /\ \A q \in Syncs \ {p} : handle'[q] = handle[q]
        BY <4>1 DEF OwnInv, ThreadIds
      <4> QED BY <3>1, <4>1, <4>2, TakeAwayThreads, OwnLeave DEF OwnInv, ThreadIds
    <3> QED BY <3>2, <3>3
  <2>8. CASE TakeBack(p)
    BY <2>8, TakeAwayThreads, RestIds, OwnLeave DEF TakeBack, Raise, row, OwnInv, ThreadIds
  <2>9. CASE Shut(p)
    <3>1. UNCHANGED <<live, used, pointer, lost>> /\ pc[p] \notin Opening BY <2>9 DEF Shut, row
    <3>2. CASE handle[p] \in live BY <2>9, <3>1, <3>2, OwnMove DEF Shut, local, OwnInv, ThreadIds
    <3>3. CASE handle[p] \notin live BY <2>9, <3>1, <3>3, RestIds, OwnMove DEF Shut, Raise
    <3> QED BY <3>2, <3>3
  <2>10. CASE Finish(p) BY <2>10, RestIds, OwnMove DEF Finish, row, discord, book
  <2> QED BY <1>5, <2>1, <2>2, <2>3, <2>4, <2>5, <2>6, <2>7, <2>8, <2>9, <2>10 DEF Step
<1>6. ASSUME NEW p \in Syncs, Take(p) PROVE OwnInv'
  BY <1>6, OwnMove DEF Take, SyncByHand, Deliver, Begin, row, discord, book, OwnInv, ThreadIds
<1>7. ASSUME NEW p \in Syncs, Trouble(p) PROVE OwnInv'
  <2>1. CASE Busy(p) BY <2>1, RestIds, OwnMove DEF Busy, row, discord, book
  <2>2. CASE UnlockRefused(p) \/ ShutRefused(p)
    <3>1. PICK x \in PCs \ Opening : Goto(p, x) BY <2>2 DEF UnlockRefused, ShutRefused
    <3>2. UNCHANGED <<live, used, pointer, lost, target, handle>> /\ pc[p] \notin Opening
      BY <2>2 DEF UnlockRefused, ShutRefused, row, discord, local
    <3> QED BY <3>1, <3>2, OwnMove DEF OwnInv, ThreadIds
  <2>3. CASE ClaimFails(p)
    <3>1. pc[p] \in Opening /\ Goto(p, "take_back") /\ UNCHANGED <<live, used, lost, target, handle>>
      BY <2>3 DEF ClaimFails, discord, local
    <3>2. /\ pointer' \in used \cup {NULL}
          /\ pointer \in live => pointer' = pointer
      BY <2>3, SyncAssumption DEF ClaimFails, Swap, OwnInv, ThreadIds, ReplacesTheDead
    <3> QED BY <3>1, <3>2, OwnOpening DEF OwnInv, ThreadIds
  <2>4. CASE Abort(p)
    <3>1. Rest(p) /\ UNCHANGED <<live, used, pointer>> /\ lost \subseteq lost'
      BY <2>4 DEF Abort, Raise, row, discord
    <3>2. CASE pc[p] \in Opening
      <4>1. handle[p] \in live => handle[p] \in lost' \cup {pointer} BY <2>4, <3>2 DEF Abort
      <4> QED BY <3>1, <3>2, <4>1, RestIds, OwnLeave DEF OwnInv, ThreadIds
    <3>3. CASE pc[p] \notin Opening
      <4>1. lost' = lost BY <2>4, <3>3 DEF Abort
      <4> QED BY <3>1, <3>3, <4>1, RestIds, OwnMove
    <3> QED BY <3>2, <3>3
  <2>5. CASE LoseLock(p)
    BY <2>5 DEF LoseLock, row, discord, local, OwnInv, ThreadIds, ReplacesTheDead, EveryThreadIsOwned
  <2> QED BY <1>7, <2>1, <2>2, <2>3, <2>4, <2>5 DEF Trouble
<1> QED BY <1>1, <1>2, <1>3, <1>4, <1>5, <1>6, <1>7 DEF Next, Environment

\* For every number of syncs and threads, no thread is left over: the swap in
\* claim_thread and the guard in forget_thread see to it without any lock.
THEOREM ThreadsOwned == Spec => []EveryThreadIsOwned
<1>1. OwnInv => EveryThreadIsOwned BY DEF OwnInv
<1> QED BY <1>1, OwnInit, OwnStep, PTL DEF Spec

----
\* Order.  What tells two payloads apart is the stamp and, between equal
\* stamps, the delivery.  Either is enough when no command syncs, and the
\* stamp alone when no two versions share one.  The strengthening: without
\* commands, last_delivery_id is the delivery the row was written from.

OwnSecondEach == \A u, v \in Versions : u < v => Stamp[u] < Stamp[v]

Numbered == MaxManual = 0 => last = stored /\ \A p \in Syncs : ~manual[p]

OrderInv ==
    /\ pc \in [Syncs -> PCs]
    /\ job \in [Syncs -> 0 .. MaxVersion] /\ manual \in [Syncs -> BOOLEAN]
    /\ gh \in 0 .. MaxVersion /\ owed \subseteq Versions
    /\ stored \in 0 .. MaxVersion
    /\ counts \in [Bounded -> Nat]
    /\ \A p \in Syncs : pc[p] # "idle" => job[p] # 0
    /\ Numbered

LEMMA OrderInit == Init => OrderInv
BY SyncAssumption DEF Init, OrderInv, Numbered, PCs, Opening, Bounded, Versions

\* A payload the row does not supersede is not older than the row.
LEMMA CurrentIsNewer ==
  ASSUME OrderInv, MaxManual = 0 \/ OwnSecondEach, NEW p \in Syncs,
         pc[p] # "idle", stored # 0, ~Superseded(p)
  PROVE  job[p] >= stored
<1>1. job[p] \in Versions /\ stored \in Versions BY SyncAssumption DEF OrderInv, Versions
<1>2. Stamp[job[p]] \in Nat /\ Stamp[stored] \in Nat BY <1>1, SyncAssumption
<1>3. Stamp[job[p]] >= Stamp[stored] BY <1>2 DEF Superseded
<1>4. SUFFICES ASSUME job[p] < stored PROVE FALSE BY <1>1 DEF Versions
<1>5. Stamp[job[p]] = Stamp[stored] BY <1>1, <1>2, <1>3, <1>4, SyncAssumption DEF Versions
<1>6. CASE OwnSecondEach BY <1>1, <1>2, <1>4, <1>5, <1>6 DEF OwnSecondEach
<1>7. CASE MaxManual = 0 BY <1>4, <1>5, <1>7 DEF OrderInv, Numbered, Superseded
<1> QED BY <1>6, <1>7

\* Adopting a payload moves the row forward; the other verdicts leave it.
LEMMA VerdictOrder ==
  ASSUME OrderInv, MaxManual = 0 \/ OwnSecondEach, NEW p \in Syncs,
         pc[p] # "idle", AskAgain(p)
  PROVE  /\ stored' >= stored /\ stored' \in 0 .. MaxVersion
         /\ MaxManual = 0 => last' = stored'
         /\ \E x \in PCs \ {"idle"} : Goto(p, x)
<1>1. CASE Apply(p) /\ (stored = 0 \/ ~Superseded(p))
  <2>1. stored' = job[p] /\ job[p] \in 0 .. MaxVersion BY <1>1 DEF Apply, OrderInv
  <2>2. job[p] >= stored BY <1>1, CurrentIsNewer, SyncAssumption DEF OrderInv
  <2>3. MaxManual = 0 => last' = stored' BY <1>1 DEF Apply, OrderInv, Numbered
  <2>4. \E x \in PCs \ {"idle"} : Goto(p, x) BY <1>1 DEF Apply, AfterRecord, PCs
  <2> QED BY <2>1, <2>2, <2>3, <2>4
<1>2. CASE TurnAway(p) \/ RebuildFromRow(p)
  <2>1. UNCHANGED <<stored, last>> BY <1>2 DEF TurnAway, RebuildFromRow
  <2>2. \E x \in PCs \ {"idle"} : Goto(p, x) BY <1>2 DEF TurnAway, RebuildFromRow, PCs
  <2> QED BY <2>1, <2>2, SyncAssumption DEF OrderInv, Numbered
<1> QED BY <1>1, <1>2 DEF AskAgain, Judge

\* A running sync moves on with its payload.
LEMMA OrderMove ==
  ASSUME OrderInv, NEW p \in Syncs, NEW x \in PCs, Goto(p, x), pc[p] # "idle",
         UNCHANGED <<job, manual, gh, owed>>, counts' \in [Bounded -> Nat],
         stored' \in 0 .. MaxVersion, MaxManual = 0 => last' = stored'
  PROVE  OrderInv'
<1>1. pc' \in [Syncs -> PCs] /\ \A q \in Syncs : pc'[q] # "idle" => pc[q] # "idle" BY DEF OrderInv, Goto
<1>2. Numbered' BY DEF OrderInv, Numbered
<1> QED BY <1>1, <1>2 DEF OrderInv

\* A sync that ends drops its payload; the row is as it was.
LEMMA OrderRest ==
  ASSUME OrderInv, NEW p \in Syncs, Rest(p), owed' \subseteq owed,
         UNCHANGED <<gh, stored, last>>, counts' \in [Bounded -> Nat]
  PROVE  OrderInv'
<1>1. /\ pc' \in [Syncs -> PCs] /\ job' \in [Syncs -> 0 .. MaxVersion]
      /\ \A q \in Syncs : pc'[q] # "idle" => job'[q] # 0
  BY SyncAssumption DEF OrderInv, Rest, Goto, PCs
<1>2. /\ manual' \in [Syncs -> BOOLEAN]
      /\ \A q \in Syncs : manual'[q] => manual[q] BY DEF OrderInv, Rest
<1>3. Numbered' BY <1>2 DEF OrderInv, Numbered
<1> QED BY <1>1, <1>2, <1>3 DEF OrderInv

\* The bounded events are counted one by one.
LEMMA CountKept ==
  ASSUME OrderInv, UNCHANGED counts \/ Fault
  PROVE  counts' \in [Bounded -> Nat] BY DEF OrderInv, Fault, Bounded

LEMMA OrderStep ==
  ASSUME OrderInv, MaxManual = 0 \/ OwnSecondEach, [Next]_vars PROVE stored' >= stored /\ OrderInv'
<1> USE SyncAssumption DEF PCs, Opening
<1>1. CASE UNCHANGED vars BY <1>1 DEF vars, github, row, local, book, OrderInv, Numbered
<1>2. CASE Change BY <1>2 DEF Change, row, local, book, OrderInv, Numbered, Versions
<1>3. ASSUME NEW t \in Threads, Delete(t) \/ Forget(t) PROVE stored' >= stored /\ OrderInv'
  <2>1. counts' \in [Bounded -> Nat] BY <1>3 DEF Delete, Forget, book, OrderInv, Bounded
  <2>2. UNCHANGED <<github, stored, last, pc, job, manual>> BY <1>3 DEF Delete, Forget, row, local
  <2> QED BY <2>1, <2>2 DEF github, OrderInv, Numbered
<1>4. ASSUME NEW p \in Syncs, Take(p) PROVE stored' >= stored /\ OrderInv'
  <2>1. PICK v \in Versions, byHand \in BOOLEAN :
          /\ Begin(p, v, byHand)
          /\ byHand => MaxManual # 0
          /\ counts' \in [Bounded -> Nat]
    <3>1. CASE SyncByHand(p)
      <4>1. gh \in Versions BY <3>1 DEF SyncByHand, OrderInv, Versions
      <4>2. counts["manual"] < MaxManual /\ counts["manual"] \in Nat BY <3>1 DEF SyncByHand, OrderInv, Bounded
      <4>3. counts' \in [Bounded -> Nat] BY <3>1 DEF SyncByHand, OrderInv, Bounded
      <4>4. MaxManual # 0 BY <4>2
      <4> QED BY <3>1, <4>1, <4>3, <4>4 DEF SyncByHand
    <3>2. ASSUME NEW v \in Versions, Deliver(p, v) PROVE Begin(p, v, FALSE) /\ counts' \in [Bounded -> Nat]
      BY <3>2 DEF Deliver, book, OrderInv
    <3> QED BY <1>4, <3>1, <3>2 DEF Take
  <2>2. UNCHANGED <<gh, owed, stored, last>> BY <2>1 DEF Begin, github, row
  <2>3. /\ pc' \in [Syncs -> PCs] /\ job' \in [Syncs -> 0 .. MaxVersion]
        /\ \A q \in Syncs : pc'[q] # "idle" => job'[q] # 0
    BY <2>1 DEF Begin, Goto, OrderInv, Versions
  <2>4. /\ manual' \in [Syncs -> BOOLEAN]
        /\ \A q \in Syncs : manual'[q] => manual[q] \/ MaxManual # 0
    BY <2>1 DEF Begin, OrderInv
  <2>5. Numbered' BY <2>2, <2>4 DEF OrderInv, Numbered
  <2> QED BY <2>1, <2>2, <2>3, <2>4, <2>5 DEF OrderInv
<1>5. ASSUME NEW p \in Syncs, Record(p) \/ Insert(p) PROVE stored' >= stored /\ OrderInv'
  <2>1. UNCHANGED <<gh, owed, job, manual, counts>> /\ pc[p] # "idle" BY <1>5 DEF Record, Insert, github, book
  <2>2. CASE AskAgain(p) BY <2>1, <2>2, VerdictOrder, OrderMove, CountKept
  <2>3. CASE Goto(p, "insert") /\ UNCHANGED <<stored, last>>
    BY <2>1, <2>3, OrderMove, CountKept DEF OrderInv, Numbered
  <2> QED BY <1>5, <2>2, <2>3 DEF Record, Insert, AskAgain
<1>6. ASSUME NEW p \in Syncs, pc[p] # "idle", UNCHANGED <<gh, owed, stored, last>>,
             UNCHANGED counts \/ Fault,
             Rest(p) \/ \E x \in PCs : Goto(p, x) /\ UNCHANGED <<job, manual>>
      PROVE  stored' >= stored /\ OrderInv'
  <2>1. stored' >= stored /\ (MaxManual = 0 => last' = stored') BY <1>6 DEF OrderInv, Numbered
  <2>2. CASE Rest(p) BY <1>6, <2>1, <2>2, OrderRest, CountKept
  <2>3. CASE \E x \in PCs : Goto(p, x) /\ UNCHANGED <<job, manual>>
    BY <1>6, <2>1, <2>3, OrderMove, CountKept DEF OrderInv
  <2> QED BY <1>6, <2>2, <2>3, <2>1
<1>7. ASSUME NEW p \in Syncs, Step(p) PROVE stored' >= stored /\ OrderInv'
  <2>1. CASE TakeLock(p) \/ Unlock(p) \/ NoteOpen(p) \/ Update(p) \/ Closing(p) \/ Settle(p) \/ NoteShut(p)
    BY <2>1, <1>6 DEF TakeLock, Unlock, NoteOpen, Update, Closing, Settle, NoteShut, github, row, local, book
  <2>2. ASSUME NEW t \in Threads, Open(p, t) PROVE stored' >= stored /\ OrderInv'
    BY <2>2, <1>6 DEF Open, github, row
  <2>3. CASE Claim(p) \/ Reclaim(p) BY <2>3, <1>6 DEF Claim, Reclaim, ReadBack, Raise, github, local
  <2>4. CASE Discard(p) \/ TakeBack(p) BY <2>4, <1>6 DEF Discard, TakeBack, TakeAway, Raise, github, row
  <2>5. CASE Shut(p) BY <2>5, <1>6 DEF Shut, Raise, github, row, local
  <2>6. CASE Finish(p)
    <3>1. Rest(p) /\ owed' \subseteq owed /\ UNCHANGED <<gh, stored, last, counts>>
      BY <2>6 DEF Finish, row, book
    <3> QED BY <3>1, OrderRest, CountKept DEF OrderInv
  <2> QED BY <1>5, <1>7, <2>1, <2>2, <2>3, <2>4, <2>5, <2>6 DEF Step
<1>8. ASSUME NEW p \in Syncs, Trouble(p) PROVE stored' >= stored /\ OrderInv'
  <2>1. CASE Busy(p) BY <2>1, <1>6 DEF Busy, github, row, book
  <2>2. CASE UnlockRefused(p) \/ ShutRefused(p)
    BY <2>2, <1>6 DEF UnlockRefused, ShutRefused, github, row, local
  <2>3. CASE ClaimFails(p) BY <2>3, <1>6 DEF ClaimFails, github, local
  <2>4. CASE Abort(p) BY <2>4, <1>6 DEF Abort, Raise, github, row
  <2>5. CASE LoseLock(p) BY <2>5, CountKept DEF LoseLock, github, row, local, OrderInv, Numbered
  <2> QED BY <1>8, <2>1, <2>2, <2>3, <2>4, <2>5 DEF Trouble
<1> QED BY <1>1, <1>2, <1>3, <1>4, <1>7, <1>8 DEF Next, Environment

\* For every number of versions and syncs the row never goes back, with stamps
\* tied in any way as long as no command syncs, and with commands as long as no
\* two versions share a second: is_superseded, _resolve and _write.
THEOREM RowNeverRollsBack ==
  ASSUME MaxManual = 0 \/ OwnSecondEach PROVE Spec => NeverRollsBack
<1>1. OrderInv /\ [Next]_vars => OrderInv' /\ stored' >= stored BY OrderStep
<1>2. OrderInv /\ [Next]_vars => [stored' >= stored]_vars BY <1>1
<1> QED BY <1>1, <1>2, OrderInit, PTL DEF Spec, NeverRollsBack

----
\* What is owed.  A payload stays owed until its sync is done with it, no
\* two deliveries' syncs carry one payload, and what a sync has judged is
\* not newer than the row.

Working(p) == pc[p] \notin {"idle", "waiting"}
Judged(p)  == pc[p] \notin {"idle", "waiting", "record", "insert"}

Ordered ==
    /\ stored <= gh /\ last <= stored
    /\ gh # 0 => gh \in owed \/ stored = gh
    /\ stored = 0 => pointer = NULL
    /\ \A p \in Syncs : Judged(p) => job[p] <= stored

DeliveriesHeld ==
    /\ \A p \in Syncs : pc[p] = "idle" => job[p] = 0
    /\ \A p \in Syncs : pc[p] # "idle" /\ ~manual[p] => job[p] \in owed
    /\ \A p, q \in Syncs : job[p] = job[q] /\ job[p] # 0 /\ ~manual[p] /\ ~manual[q] => p = q

OneAtATime == "lock_lost" \notin excuses => \A p \in Syncs : Working(p) => lock = p

Unwritten == \A t \in Threads \ used : block[t] = 0 /\ ~shut[t]

OwedInv == TypeOK /\ OrderInv /\ Ordered /\ DeliveriesHeld /\ OneAtATime /\ Unwritten

LEMMA OwedInit == Init => OwedInv BY TypeInit, OrderInit, SyncAssumption
DEF OwedInv, Init, Ordered, DeliveriesHeld, OneAtATime, Unwritten, Working, Judged

\* A payload the row supersedes is older than the row.
LEMMA SupersededIsOlder ==
  ASSUME TypeOK, last <= stored, NEW p \in Syncs, pc[p] # "idle", stored # 0, Superseded(p)
  PROVE  job[p] < stored
<1>1. job[p] \in Versions /\ stored \in Versions /\ last \in Nat
  BY SyncAssumption DEF TypeOK, Places, RowKinds, Versions
<1>2. Stamp[job[p]] \in Nat /\ Stamp[stored] \in Nat BY <1>1, SyncAssumption
<1>3. CASE Stamp[job[p]] < Stamp[stored]
  <2>1. ~(stored <= job[p]) BY <1>1, <1>2, <1>3, SyncAssumption
  <2>. QED BY <1>1, <2>1 DEF Versions
<1>4. CASE job[p] < last BY <1>1, <1>4 DEF Versions
<1>. QED BY <1>3, <1>4 DEF Superseded

\* What the verdict on a payload leaves: it is the row's, or older.
LEMMA VerdictIsOrdered ==
  ASSUME OwedInv, MaxManual = 0 \/ OwnSecondEach, NEW p \in Syncs, pc[p] # "idle", AskAgain(p)
  PROVE  /\ stored' >= stored /\ stored' <= gh /\ last' <= stored' /\ stored' # 0
         /\ job[p] <= stored'
<1>. USE DEF OwedInv
<1>1. job[p] \in 1 .. gh /\ stored \in Nat /\ last \in Nat /\ gh \in Nat
  BY SyncAssumption DEF TypeOK, Places, RowKinds
<1>2. CASE Apply(p) /\ (stored = 0 \/ ~Superseded(p))
  <2>1. stored' = job[p] /\ last' \in {last, job[p]} BY <1>2 DEF Apply
  <2>2. job[p] >= stored BY <1>1, <1>2, CurrentIsNewer
  <2>. QED BY <1>1, <2>1, <2>2 DEF Ordered
<1>3. CASE Superseded(p) /\ stored # 0 /\ UNCHANGED <<stored, last>>
  BY <1>1, <1>3, SupersededIsOlder DEF Ordered
<1>. QED BY <1>2, <1>3 DEF AskAgain, Judge, TurnAway, RebuildFromRow

\* A running sync moves on with its payload.
LEMMA OwedMove ==
  ASSUME Ordered, DeliveriesHeld, TypeOK, NEW p \in Syncs, NEW x \in PCs \ {"idle"}, Goto(p, x),
         pc[p] # "idle", UNCHANGED <<job, manual, gh, owed>>,
         stored' \in Nat, stored' >= stored, stored' <= gh, last' <= stored',
         stored' = 0 => pointer' = NULL,
         Judged(p)' => job[p] <= stored'
  PROVE  Ordered' /\ DeliveriesHeld'
<1>1. \A q \in Syncs : pc'[q] = IF q = p THEN x ELSE pc[q] BY DEF TypeOK, SyncKinds, Goto
<1>2. stored \in Nat /\ gh \in Nat /\ \A q \in Syncs : job[q] \in Nat
  BY SyncAssumption DEF TypeOK, RowKinds, SyncKinds
<1>3. Ordered' BY <1>1, <1>2 DEF Ordered, Judged
<1>4. DeliveriesHeld' BY <1>1 DEF DeliveriesHeld
<1>. QED BY <1>3, <1>4

\* A sync that ends drops its payload, and a delivery's may be done with.
LEMMA OwedRest ==
  ASSUME Ordered, DeliveriesHeld, TypeOK, NEW p \in Syncs, Rest(p), pc[p] # "idle",
         UNCHANGED <<gh, stored, last>>, stored = 0 => pointer' = NULL,
         \/ owed' = owed
         \/ owed' = owed \ {job[p]} /\ ~manual[p] /\ Judged(p)
  PROVE  Ordered' /\ DeliveriesHeld'
<1>1. \A q \in Syncs : /\ pc'[q] = IF q = p THEN "idle" ELSE pc[q]
                       /\ job'[q] = IF q = p THEN 0 ELSE job[q]
                       /\ manual'[q] = IF q = p THEN FALSE ELSE manual[q]
  BY DEF TypeOK, SyncKinds, FlagKinds, Rest, Goto
<1>2. stored \in Nat /\ gh \in Nat /\ \A q \in Syncs : job[q] \in Nat
  BY SyncAssumption DEF TypeOK, RowKinds, SyncKinds
<1>3. \A q \in Syncs : pc[q] # "idle" => job[q] # 0 BY DEF TypeOK, Places
<1>4. Ordered'
  <2>1. gh # 0 => gh \in owed' \/ stored = gh BY <1>2 DEF Ordered
  <2>. QED BY <1>1, <1>2, <2>1 DEF Ordered, Judged
<1>5. DeliveriesHeld' BY <1>1, <1>3 DEF DeliveriesHeld
<1>. QED BY <1>4, <1>5

\* A swap only gives a row that is there a thread.
LEMMA SwapIsOrdered ==
  ASSUME Ordered, TypeOK, NEW p \in Syncs, Judged(p), NEW old, Swap(p, old) PROVE stored # 0
BY SyncAssumption DEF Ordered, TypeOK, Places, RowKinds, Judged

LEMMA OrderedStep ==
  ASSUME OwedInv, MaxManual = 0 \/ OwnSecondEach, [Next]_vars PROVE Ordered' /\ DeliveriesHeld'
<1>. USE DEF OwedInv
<1>0. stored \in Nat /\ gh \in Nat /\ last \in Nat /\ MaxVersion \in Nat /\ gh <= MaxVersion
  BY SyncAssumption DEF TypeOK, RowKinds
<1>1. CASE UNCHANGED vars BY <1>1 DEF vars, github, row, local, Ordered, DeliveriesHeld, Judged
<1>2. CASE Change
  <2>1. gh' = gh + 1 /\ owed' = owed \cup {gh + 1} /\ UNCHANGED <<row, pc, local>> BY <1>2 DEF Change
  <2>2. Ordered' BY <1>0, <2>1 DEF row, local, Ordered, Judged
  <2>3. DeliveriesHeld' BY <2>1 DEF local, DeliveriesHeld
  <2>. QED BY <2>2, <2>3
<1>3. ASSUME NEW t \in Threads, Delete(t) \/ Forget(t) PROVE Ordered' /\ DeliveriesHeld'
  BY <1>3 DEF Delete, Forget, github, row, local, Ordered, DeliveriesHeld, Judged
<1>4. ASSUME NEW p \in Syncs, NEW v \in Versions, Goto(p, "waiting"),
             job' = [job EXCEPT ![p] = v], \A q \in Syncs \ {p} : manual'[q] = manual[q],
             manual'[p] \/ (v \in owed /\ \A q \in Syncs : job[q] = v => manual[q]),
             UNCHANGED <<github, row>>
      PROVE  Ordered' /\ DeliveriesHeld'
  <2>1. \A q \in Syncs : /\ pc'[q] = IF q = p THEN "waiting" ELSE pc[q]
                         /\ job'[q] = IF q = p THEN v ELSE job[q]
    BY <1>4 DEF TypeOK, SyncKinds, Goto
  <2>2. Ordered' BY <1>4, <2>1 DEF github, row, Ordered, Judged
  <2>3. DeliveriesHeld' BY <1>4, <2>1 DEF github, DeliveriesHeld
  <2>. QED BY <2>2, <2>3
<1>5. ASSUME NEW p \in Syncs, Take(p) PROVE Ordered' /\ DeliveriesHeld'
  <2>1. CASE SyncByHand(p)
    <3>1. PICK v \in Versions : v = gh BY <1>0, <2>1 DEF SyncByHand, Versions
    <3>2. manual'[p] /\ \A q \in Syncs \ {p} : manual'[q] = manual[q]
      BY <2>1, Zenon DEF SyncByHand, Begin, TypeOK, FlagKinds
    <3>3. Goto(p, "waiting") /\ job' = [job EXCEPT ![p] = gh] /\ UNCHANGED <<github, row>>
      BY <2>1 DEF SyncByHand, Begin
    <3>. QED BY <1>4, <3>1, <3>2, <3>3
  <2>2. ASSUME NEW v \in Versions, Deliver(p, v) PROVE Ordered' /\ DeliveriesHeld'
    <3>1. \A q \in Syncs \ {p} : manual'[q] = manual[q] BY <2>2 DEF Deliver, Begin, TypeOK, FlagKinds
    <3>. QED BY <1>4, <2>2, <3>1 DEF Deliver, Begin
  <2>. QED BY <1>5, <2>1, <2>2 DEF Take
<1>6. ASSUME NEW p \in Syncs, pc[p] # "idle", NEW x \in PCs \ {"idle"}, Goto(p, x),
             UNCHANGED <<github, stored, last, job, manual>>,
             pointer' = pointer \/ stored # 0,
             x \in {"record", "insert"} \/ Judged(p)
      PROVE  Ordered' /\ DeliveriesHeld'
  <2>1. pc'[p] = x BY <1>6 DEF TypeOK, SyncKinds, Goto
  <2>. QED BY <1>0, <1>6, <2>1, OwedMove DEF github, Ordered, Judged
<1>7. ASSUME NEW p \in Syncs, Record(p) \/ Insert(p) PROVE Ordered' /\ DeliveriesHeld'
  <2>1. UNCHANGED <<github, job, manual, pointer>> /\ pc[p] \in {"record", "insert"}
    BY <1>7 DEF Record, Insert
  <2>2. CASE AskAgain(p)
    <3>1. PICK x \in PCs \ {"idle"} : Goto(p, x) BY <2>1, <2>2, VerdictOrder
    <3>2. /\ stored' >= stored /\ stored' <= gh /\ last' <= stored' /\ stored' # 0
          /\ job[p] <= stored' BY <2>1, <2>2, VerdictIsOrdered
    <3>3. stored' \in Nat BY <2>1, <2>2, VerdictOrder, SyncAssumption
    <3>. QED BY <2>1, <3>1, <3>2, <3>3, OwedMove DEF github
  <2>3. CASE Goto(p, "insert") /\ UNCHANGED <<stored, last>> BY <2>1, <2>3, <1>6 DEF PCs
  <2>. QED BY <1>7, <2>2, <2>3 DEF Record, Insert, AskAgain
<1>8. ASSUME NEW p \in Syncs, pc[p] # "idle", Rest(p), UNCHANGED <<github, stored, last>>,
             pointer' = pointer \/ stored # 0
      PROVE  Ordered' /\ DeliveriesHeld' BY <1>8, OwedRest DEF github, Ordered
<1>9. ASSUME NEW p \in Syncs, Step(p) PROVE Ordered' /\ DeliveriesHeld'
  <2>1. CASE \/ TakeLock(p) \/ Unlock(p) \/ NoteOpen(p) \/ Update(p) \/ Closing(p) \/ Settle(p)
             \/ NoteShut(p) \/ \E t \in Threads : Open(p, t)
    <3>1. PICK x \in PCs \ {"idle"} : Goto(p, x) /\ (x = "record" \/ Judged(p))
      BY <2>1 DEF TakeLock, Unlock, NoteOpen, Update, Closing, Settle, NoteShut, Open, PCs, Opening, Judged
    <3>2. UNCHANGED <<github, stored, last, job, manual, pointer>> /\ pc[p] # "idle"
      BY <2>1 DEF TakeLock, Unlock, NoteOpen, Update, Closing, Settle, NoteShut, Open, row, local
    <3>. QED BY <1>6, <3>1, <3>2
  <2>2. CASE Claim(p) \/ Reclaim(p)
    <3>1. stored # 0 /\ pc[p] # "idle" /\ Judged(p) BY <2>2, SwapIsOrdered DEF Claim, Reclaim, Judged
    <3>2. UNCHANGED <<github, stored, last>> /\ ReadBack(p) BY <2>2 DEF Claim, Reclaim
    <3>3. CASE Raise(p) BY <1>8, <3>1, <3>2, <3>3 DEF Raise
    <3>4. CASE ~Raise(p)
      <4>1. PICK x \in PCs \ {"idle"} : Goto(p, x) BY <3>2, <3>4 DEF ReadBack, PCs, Opening
      <4>2. UNCHANGED <<job, manual>> BY <3>2, <3>4 DEF ReadBack, local
      <4>. QED BY <1>6, <3>1, <3>2, <4>1, <4>2
    <3>. QED BY <3>3, <3>4
  <2>3. CASE Discard(p) \/ TakeBack(p)
    <3>1. UNCHANGED <<github, row>> /\ pc[p] # "idle" /\ Judged(p) BY <2>3 DEF Discard, TakeBack, Judged
    <3>2. CASE Raise(p) BY <1>8, <3>1, <3>2 DEF Raise, row
    <3>3. CASE ~Raise(p) BY <1>6, <2>3, <3>1, <3>3 DEF Discard, TakeBack, row, PCs
    <3>. QED BY <3>2, <3>3
  <2>4. CASE Shut(p)
    <3>1. UNCHANGED <<github, row>> /\ pc[p] # "idle" /\ Judged(p) BY <2>4 DEF Shut, Judged
    <3>2. CASE Raise(p) BY <1>8, <3>1, <3>2 DEF Raise, row
    <3>3. CASE ~Raise(p) BY <1>6, <2>4, <3>1, <3>3 DEF Shut, row, local, PCs
    <3>. QED BY <3>2, <3>3
  <2>5. CASE Finish(p) BY <2>5, OwedRest DEF Finish, Judged, Ordered, row
  <2>. QED BY <1>7, <1>9, <2>1, <2>2, <2>3, <2>4, <2>5 DEF Step
<1>10. ASSUME NEW p \in Syncs, Trouble(p) PROVE Ordered' /\ DeliveriesHeld'
  <2>1. CASE Busy(p) \/ Abort(p) BY <1>8, <2>1 DEF Busy, Abort, Raise, row
  <2>2. CASE UnlockRefused(p) \/ ShutRefused(p)
    BY <1>6, <2>2 DEF UnlockRefused, ShutRefused, row, local, PCs, Judged
  <2>3. CASE ClaimFails(p)
    <3>1. pointer' = pointer \/ stored # 0 BY <2>3, SwapIsOrdered DEF ClaimFails, Judged
    <3>. QED BY <1>6, <2>3, <3>1 DEF ClaimFails, local, PCs, Opening, Judged
  <2>4. CASE LoseLock(p) BY <2>4 DEF LoseLock, github, row, local, Ordered, DeliveriesHeld, Judged
  <2>. QED BY <1>10, <2>1, <2>2, <2>3, <2>4 DEF Trouble
<1>. QED BY <1>1, <1>2, <1>3, <1>5, <1>9, <1>10 DEF Next, Environment

LEMMA OneAtATimeStep == TypeOK /\ OneAtATime /\ [Next]_vars => OneAtATime'
<1>. SUFFICES ASSUME TypeOK, OneAtATime, [Next]_vars, "lock_lost" \notin excuses'
              PROVE  \A p \in Syncs : Working(p)' => lock' = p BY DEF OneAtATime
<1>0. "lock_lost" \notin excuses /\ \A p \in Syncs : Working(p) => lock = p
  BY DEF OneAtATime, Next, Environment, Change, Delete, Forget, Take, SyncByHand, Deliver, Begin, Step,
    TakeLock, Record, Insert, Unlock, NoteOpen, Update, Open, Claim, Reclaim, ReadBack, Discard, TakeBack,
    Closing, Settle, Shut, NoteShut, Finish, Trouble, Busy, UnlockRefused, ShutRefused, ClaimFails, Abort,
    LoseLock, Raise, vars, book
<1>1. CASE UNCHANGED vars \/ Environment BY <1>0, <1>1 DEF vars, Environment, Change, Delete, Forget, Working
<1>2. ASSUME NEW p \in Syncs, NEW x \in PCs, Goto(p, x),
             Working(p) \/ x = "waiting", lock' = lock
      PROVE  \A q \in Syncs : Working(q)' => lock' = q
  BY <1>0, <1>2 DEF TypeOK, SyncKinds, Goto, Working
<1>3. ASSUME NEW p \in Syncs, Rest(p) PROVE \A q \in Syncs : Working(q)' => lock' = q
  BY <1>0, <1>3 DEF TypeOK, SyncKinds, Rest, Goto, ReleaseLock, Working
<1>4. ASSUME NEW p \in Syncs, TakeLock(p) PROVE \A q \in Syncs : Working(q)' => lock' = q
  BY <1>0, <1>4, SyncAssumption DEF TypeOK, SyncKinds, TakeLock, Goto, Working
<1>5. ASSUME NEW p \in Syncs, Take(p) PROVE \A q \in Syncs : Working(q)' => lock' = q
  BY <1>2, <1>5 DEF Take, SyncByHand, Deliver, Begin, PCs
<1>6. ASSUME NEW p \in Syncs, Step(p) PROVE \A q \in Syncs : Working(q)' => lock' = q
  <2>1. CASE Record(p) \/ Insert(p)
    <3>1. PICK x \in PCs : Goto(p, x)
      BY <2>1 DEF Record, Insert, AskAgain, Judge, Apply, TurnAway, RebuildFromRow, AfterRecord, PCs
    <3>. QED BY <1>2, <2>1, <3>1 DEF Record, Insert, Working
  <2>2. CASE \/ Unlock(p) \/ NoteOpen(p) \/ Update(p) \/ Closing(p) \/ Settle(p) \/ NoteShut(p)
             \/ \E t \in Threads : Open(p, t)
    <3>1. PICK x \in PCs : Goto(p, x)
      BY <2>2 DEF Unlock, NoteOpen, Update, Closing, Settle, NoteShut, Open, PCs, Opening
    <3>. QED BY <1>2, <2>2, <3>1 DEF Unlock, NoteOpen, Update, Closing, Settle, NoteShut, Open, Working
  <2>3. CASE Claim(p) \/ Reclaim(p) \/ Discard(p) \/ TakeBack(p) \/ Shut(p) \/ Finish(p)
    <3>1. CASE Rest(p) BY <1>3, <3>1
    <3>2. CASE ~Rest(p)
      <4>1. (\E x \in PCs : Goto(p, x)) /\ lock' = lock
        BY <2>3, <3>2 DEF Claim, Reclaim, ReadBack, Discard, TakeBack, Shut, Finish, Raise, PCs, Opening
      <4>. QED BY <1>2, <2>3, <4>1 DEF Claim, Reclaim, Discard, TakeBack, Shut, Finish, Working
    <3>. QED BY <3>1, <3>2
  <2>. QED BY <1>4, <1>6, <2>1, <2>2, <2>3 DEF Step
<1>7. ASSUME NEW p \in Syncs, Trouble(p) PROVE \A q \in Syncs : Working(q)' => lock' = q
  <2>1. CASE Busy(p) \/ Abort(p) BY <1>3, <2>1 DEF Busy, Abort, Raise
  <2>2. CASE UnlockRefused(p) \/ ShutRefused(p) \/ ClaimFails(p)
    BY <1>2, <2>2 DEF UnlockRefused, ShutRefused, ClaimFails, PCs, Opening, Working
  <2>3. CASE LoseLock(p) BY <2>3 DEF LoseLock
  <2>. QED BY <1>7, <2>1, <2>2, <2>3 DEF Trouble
<1>. QED BY <1>1, <1>5, <1>6, <1>7 DEF Next

\* What is written to a thread is written to one that exists, or existed.
LEMMA UnwrittenStep == TypeOK /\ Unwritten /\ [Next]_vars => Unwritten'
<1>. SUFFICES ASSUME TypeOK, Unwritten, [Next]_vars PROVE Unwritten' OBVIOUS
<1>1. CASE UNCHANGED <<used, block, shut>> BY <1>1 DEF Unwritten
<1>2. ASSUME NEW p \in Syncs, Unlock(p) \/ Update(p) \/ Shut(p) PROVE Unwritten'
  BY <1>2 DEF Unlock, Update, Shut, TypeOK, ThreadKinds, Places, Unwritten
<1>3. ASSUME NEW p \in Syncs, NEW t \in Threads, Open(p, t)
      PROVE  Unwritten' BY <1>3 DEF Open, TypeOK, ThreadKinds, Unwritten
<1>4. ASSUME NEW p \in Syncs, Discard(p) \/ TakeBack(p) PROVE Unwritten'
  BY <1>4 DEF Discard, TakeBack, TakeAway, Remove, discord, TypeOK, ThreadKinds, Unwritten
<1>5. ASSUME NEW p \in Syncs, Take(p) \/ Trouble(p) PROVE UNCHANGED <<used, block, shut>>
  BY <1>5 DEF Take, SyncByHand, Deliver, Begin, Trouble, Busy, UnlockRefused, ShutRefused, ClaimFails, Abort,
    LoseLock, discord
<1>6. ASSUME NEW p \in Syncs,
             TakeLock(p) \/ Record(p) \/ Insert(p) \/ NoteOpen(p) \/ Claim(p) \/ Reclaim(p)
               \/ Closing(p) \/ Settle(p) \/ NoteShut(p) \/ Finish(p)
      PROVE  UNCHANGED <<used, block, shut>>
  BY <1>6 DEF TakeLock, Record, Insert, NoteOpen, Claim, Reclaim, Closing, Settle, NoteShut, Finish, discord
<1>7. CASE Environment \/ UNCHANGED vars BY <1>1, <1>7 DEF Environment, Change, Delete, Forget, vars, discord
<1>. QED BY <1>1, <1>2, <1>3, <1>4, <1>5, <1>6, <1>7 DEF Next, Step

LEMMA OwedStep ==
  ASSUME OwedInv, MaxManual = 0 \/ OwnSecondEach, [Next]_vars PROVE OwedInv'
BY TypeStep, OrderStep, OrderedStep, OneAtATimeStep, UnwrittenStep DEF OwedInv

----
\* What is shown.  While the lock holds one sync at a time is past it, so
\* what a thread lacks is either being written by that sync or brought
\* again by a delivery still owed.  The verdict of that sync decides what
\* it holds: the row's own payload, which it applied, the row itself,
\* which it rebuilds a thread from, or nothing, when it is turned away.

Writing(p) == pc[p] \in {"unlock", "note_open", "write"} \cup Opening
Written(p) == pc[p] \in {"closing", "shut", "note_shut", "done"} /\ shown[p] # 0

Applied(p)    == ~rebuild[p] /\ shown[p] = stored /\ job[p] = stored
Rebuilding(p) == rebuild[p] /\ shown[p] = stored /\ job[p] < stored
TurnedAway(p) == ~rebuild[p] /\ shown[p] = 0 /\ job[p] < stored

Carries(p) ==
    /\ Writing(p) \/ Written(p) => Applied(p) \/ Rebuilding(p)
    /\ Judged(p) /\ ~Writing(p) /\ ~Written(p) => TurnedAway(p)
    /\ pc[p] = "settle" => TurnedAway(p)
    /\ ~Judged(p) => shown[p] = 0 /\ ~rebuild[p]
    /\ pc[p] \in {"unlock", "note_open"} => ~rebuild[p] /\ ~Closed[stored]

Points(p) ==
    /\ pc[p] \in {"unlock", "note_open", "write", "claim"} => pointer \in {target[p], NULL}
    /\ pc[p] \in {"unlock", "note_open", "write"} /\ target[p] \in live => pointer = target[p]
    /\ pc[p] = "write" /\ rebuild[p] => target[p] = NULL
    /\ pc[p] = "claim" => target[p] \notin live
    /\ pc[p] = "reclaim" => pointer = NULL
    /\ pc[p] # "discard"
    /\ pc[p] = "take_back" /\ pointer \in live => pointer = handle[p]
    /\ pc[p] \in {"closing", "settle", "shut", "note_shut", "done"} => pointer \in {handle[p], NULL}

Writes(p) ==
    /\ pc[p] \in Opening => block[handle[p]] \in {0, shown[p]} /\ ~shut[handle[p]]
    /\ pc[p] \in Opening /\ rebuild[p] => block[handle[p]] = shown[p]
    /\ Written(p) => block[handle[p]] = shown[p]
    /\ (pc[p] \in Opening \/ Written(p)) /\ counts["deletes"] = 0 => handle[p] \in live
    /\ Written(p) /\ counts["deletes"] = 0 => pointer = handle[p]

AtWork(p) == Carries(p) /\ Points(p) /\ Writes(p)

\* Nobody retries a command's sync: what it applied is written by itself.
Redoes(p) == manual[p] /\ Writing(p) /\ Applied(p)
BroughtAgain == stored \in owed \/ \E p \in Syncs : Redoes(p)

ThreadThere ==
    counts["deletes"] = 0 =>
        /\ stored # 0 => pointer \in live \/ BroughtAgain
        /\ \A p \in Syncs : Writing(p) /\ rebuild[p] => stored \in owed

BlockRight == pointer \in live => block[pointer] = stored \/ BroughtAgain

Shown    == (\A p \in Syncs : AtWork(p)) /\ ThreadThere /\ BlockRight
ShownInv == excuses \subseteq {"refused"} => Shown

LEMMA ShownInit == Init => Shown BY SyncAssumption
DEF Init, Shown, AtWork, Carries, Points, Writes, ThreadThere, BlockRight, BroughtAgain, Redoes,
    Writing, Written, Judged, TurnedAway, Opening, Bounded

\* Troubles are not forgotten.
LEMMA ExcusesGrow == [Next]_vars => excuses \subseteq excuses'
BY DEF Next, Environment, Change, Delete, Forget, Take, SyncByHand, Deliver, Begin, Step, TakeLock,
       Record, Insert, Unlock, NoteOpen, Update, Open, Claim, Reclaim, ReadBack, Discard, TakeBack,
       Closing, Settle, Shut, NoteShut, Finish, Trouble, Busy, UnlockRefused, ShutRefused,
       ClaimFails, Abort, LoseLock, Raise, vars, book

\* One sync is past the lock.
LEMMA Alone ==
  ASSUME OneAtATime, "lock_lost" \notin excuses, NEW p \in Syncs, Working(p), NEW q \in Syncs, Working(q)
  PROVE  p = q BY DEF OneAtATime

LEMMA RedoesAlone ==
  ASSUME OneAtATime, "lock_lost" \notin excuses, NEW p \in Syncs, Working(p)
  PROVE  BroughtAgain <=> stored \in owed \/ Redoes(p)
BY Alone DEF BroughtAgain, Redoes, Writing, Opening, Working

\* The sync past the lock moves on, and the others wait.
LEMMA ShownMove ==
  ASSUME TypeOK, OneAtATime, "lock_lost" \notin excuses, Shown,
         NEW p \in Syncs, Working(p), NEW x \in PCs, Goto(p, x),
         \A q \in Syncs \ {p} : shown'[q] = shown[q] /\ rebuild'[q] = rebuild[q],
         AtWork(p)', ThreadThere', BlockRight'
  PROVE  Shown'
<1>1. \A q \in Syncs \ {p} : pc'[q] = pc[q] /\ pc[q] \in {"idle", "waiting"}
  BY Alone DEF TypeOK, SyncKinds, Goto, Working
<1>2. \A q \in Syncs \ {p} : AtWork(q)'
  BY <1>1 DEF Shown, AtWork, Carries, Points, Writes, Writing, Written, Judged, Opening
<1>. QED BY <1>2 DEF Shown

\* A sync that ends, wherever it was.
LEMMA Resting ==
  ASSUME TypeOK, NEW p \in Syncs, Rest(p)
  PROVE  \A q \in Syncs : /\ pc'[q] = IF q = p THEN "idle" ELSE pc[q]
                          /\ job'[q] = IF q = p THEN 0 ELSE job[q]
                          /\ shown'[q] = IF q = p THEN 0 ELSE shown[q]
                          /\ target'[q] = IF q = p THEN NULL ELSE target[q]
                          /\ handle'[q] = IF q = p THEN NULL ELSE handle[q]
                          /\ ~rebuild'[p] /\ ~manual'[p]
                          /\ q # p => rebuild'[q] = rebuild[q] /\ manual'[q] = manual[q]
<1>1. \A q \in Syncs : /\ pc'[q] = IF q = p THEN "idle" ELSE pc[q]
                       /\ job'[q] = IF q = p THEN 0 ELSE job[q]
                       /\ shown'[q] = IF q = p THEN 0 ELSE shown[q]
                       /\ target'[q] = IF q = p THEN NULL ELSE target[q]
                       /\ handle'[q] = IF q = p THEN NULL ELSE handle[q]
                       /\ q # p => rebuild'[q] = rebuild[q] /\ manual'[q] = manual[q]
  BY DEF TypeOK, SyncKinds, ThreadKinds, FlagKinds, Rest, Goto
<1>2. ~rebuild'[p] /\ ~manual'[p] BY DEF TypeOK, FlagKinds, Rest
<1>. QED BY <1>1, <1>2

\* The sync past the lock ends: what is left is for a delivery to bring again.
LEMMA ShownRest ==
  ASSUME TypeOK, OneAtATime, "lock_lost" \notin excuses, Shown,
         NEW p \in Syncs, Working(p), Rest(p),
         counts'["deletes"] = 0 /\ stored' # 0 => pointer' \in live' \/ stored' \in owed',
         pointer' \in live' => block'[pointer'] = stored' \/ stored' \in owed'
  PROVE  Shown'
<1>1. \A q \in Syncs : pc'[q] \in {"idle", "waiting"} BY Alone, Resting DEF Working
<1>2. \A q \in Syncs : shown'[q] = 0 /\ ~rebuild'[q]
  BY Alone, Resting DEF Working, Shown, AtWork, Carries, Judged
<1>3. \A q \in Syncs : AtWork(q)'
  BY <1>1, <1>2 DEF AtWork, Carries, Points, Writes, Writing, Written, Judged, Opening
<1>4. ThreadThere' /\ BlockRight' BY <1>1 DEF ThreadThere, BlockRight, BroughtAgain, Writing, Opening
<1>. QED BY <1>3, <1>4 DEF Shown

Calm == OwedInv /\ Shown /\ excuses \subseteq {"refused"}

\* What the sync past the lock has to leave behind when it moves on.
LEMMA ShownAlone ==
  ASSUME Calm, NEW p \in Syncs, Working(p), NEW x \in PCs, Goto(p, x),
         \A q \in Syncs \ {p} : shown'[q] = shown[q] /\ rebuild'[q] = rebuild[q],
         Carries(p)', Points(p)', Writes(p)',
         counts'["deletes"] = 0 =>
             /\ stored' # 0 => pointer' \in live' \/ stored' \in owed' \/ Redoes(p)'
             /\ Writing(p)' /\ rebuild'[p] => stored' \in owed',
         pointer' \in live' => block'[pointer'] = stored' \/ stored' \in owed' \/ Redoes(p)'
  PROVE  Shown'
<1>1. TypeOK /\ OneAtATime /\ "lock_lost" \notin excuses /\ Shown BY DEF Calm, OwedInv
<1>2. \A q \in Syncs \ {p} : pc'[q] = pc[q] /\ pc[q] \in {"idle", "waiting"}
  BY <1>1, Alone DEF TypeOK, SyncKinds, Goto, Working
<1>3. stored' \in owed' \/ Redoes(p)' => BroughtAgain' BY DEF BroughtAgain
<1>4. ThreadThere' /\ BlockRight' BY <1>2, <1>3 DEF ThreadThere, BlockRight, Writing, Opening
<1>. QED BY <1>1, <1>4, ShownMove DEF AtWork

\* What the sync past the lock finds.
LEMMA Found ==
  ASSUME Calm, NEW p \in Syncs, Working(p)
  PROVE  /\ Carries(p) /\ Points(p) /\ Writes(p)
         /\ counts["deletes"] = 0 =>
             /\ stored # 0 => pointer \in live \/ stored \in owed \/ Redoes(p)
             /\ Writing(p) /\ rebuild[p] => stored \in owed
         /\ pointer \in live => block[pointer] = stored \/ stored \in owed \/ Redoes(p)
<1>1. BroughtAgain <=> stored \in owed \/ Redoes(p) BY RedoesAlone DEF Calm, OwedInv
<1>. QED BY <1>1 DEF Calm, Shown, AtWork, ThreadThere, BlockRight

\* The lock is taken.
LEMMA ShownTakeLock ==
  ASSUME Calm, NEW p \in Syncs, TakeLock(p) PROVE Shown'
<1>1. TypeOK /\ Shown /\ UNCHANGED <<github, row, discord, local, book>> BY DEF Calm, OwedInv, TakeLock
<1>2. \A q \in Syncs : pc[q] \in {"idle", "waiting"} /\ pc'[q] \in {"idle", "waiting", "record"}
  BY <1>1, SyncAssumption DEF Calm, OwedInv, OneAtATime, Working, TakeLock, TypeOK, SyncKinds, Goto
<1>3. \A q \in Syncs : AtWork(q)' BY <1>1, <1>2
  DEF Shown, AtWork, Carries, Points, Writes, Writing, Written, Judged, Opening, github, row, discord,
      local, book, TurnedAway
<1>4. BroughtAgain => BroughtAgain'
  BY <1>1, <1>2 DEF BroughtAgain, Redoes, Writing, Opening, github, row, local
<1>. QED BY <1>1, <1>2, <1>3, <1>4
  DEF Shown, ThreadThere, BlockRight, Writing, Opening, github, row, discord, local, book

\* A payload is taken up, or given up while its sync waits for the lock.
LEMMA ShownWaiting ==
  ASSUME Calm, NEW p \in Syncs, pc[p] \in {"idle", "waiting"}, pc'[p] \in {"idle", "waiting"},
         \A q \in Syncs \ {p} : pc'[q] = pc[q] /\ job'[q] = job[q] /\ manual'[q] = manual[q]
                                /\ shown'[q] = shown[q] /\ rebuild'[q] = rebuild[q]
                                /\ target'[q] = target[q] /\ handle'[q] = handle[q],
         shown'[p] = 0, rebuild'[p] = FALSE,
         UNCHANGED <<github, row, discord>>, counts'["deletes"] = counts["deletes"]
  PROVE  Shown'
<1>1. AtWork(p)' BY DEF AtWork, Carries, Points, Writes, Writing, Written, Judged, Opening
<1>2. ASSUME NEW q \in Syncs \ {p}
      PROVE  AtWork(q)' /\ (Redoes(q) => Redoes(q)')
             /\ (Writing(q)' /\ rebuild'[q] => Writing(q) /\ rebuild[q])
  <2>1. AtWork(q) BY <1>2 DEF Calm, Shown
  <2>2. Carries(q)'
    BY <1>2, <2>1 DEF AtWork, Carries, Writing, Written, Judged, Opening, Applied, Rebuilding, TurnedAway, row
  <2>3. Points(q)' BY <1>2, <2>1 DEF AtWork, Points, Opening, row, discord
  <2>4. Writes(q)' BY <1>2, <2>1 DEF AtWork, Writes, Writing, Written, Opening, row, discord
  <2>. QED BY <1>2, <2>2, <2>3, <2>4 DEF AtWork, Redoes, Writing, Applied, Opening, row
<1>3. BroughtAgain => BroughtAgain' BY <1>2 DEF BroughtAgain, Redoes, Writing, Opening, github, row
<1>. QED BY <1>1, <1>2, <1>3 DEF Calm, Shown, ThreadThere, BlockRight, Writing, Opening, github, row, discord

\* The issue changes on GitHub, or a thread goes.
LEMMA ShownEnvironment ==
  ASSUME Calm, Environment PROVE Shown'
<1>0. TypeOK /\ Shown /\ UNCHANGED <<pc, local, stored, last, excuses, block, shut>>
  BY DEF Calm, OwedInv, Environment, Change, Delete, Forget, row, discord, local, book
<1>1. owed \subseteq owed' BY DEF Environment, Change, Delete, Forget, github
<1>2. BroughtAgain => BroughtAgain' BY <1>0, <1>1 DEF BroughtAgain, Redoes, Writing, Applied, Opening, local
<1>3. \A p \in Syncs : Carries(p)' BY <1>0
  DEF Shown, AtWork, Carries, Writing, Written, Judged, Opening, Applied, Rebuilding, TurnedAway, local
<1>4. CASE Change
  <2>1. UNCHANGED <<row, discord, book, pc, local>> BY <1>4 DEF Change
  <2>2. \A p \in Syncs : Points(p)' /\ Writes(p)'
    BY <1>0, <2>1 DEF Shown, AtWork, Points, Writes, Writing, Written, Opening, row, discord, book, local
  <2>. QED BY <1>0, <1>1, <1>2, <1>3, <2>1, <2>2
    DEF Shown, AtWork, ThreadThere, BlockRight, Writing, Opening, row, discord, book, local
<1>5. ASSUME NEW t \in Threads, Delete(t) PROVE Shown'
  <2>1. live' = live \ {t} /\ UNCHANGED <<row, lock, pc, local>> /\ counts'["deletes"] # 0
    BY <1>0, <1>5 DEF Delete, TypeOK, FlagKinds, Bounded
  <2>2. \A p \in Syncs : Points(p)' BY <1>0, <2>1 DEF Shown, AtWork, Points, Opening, row, local
  <2>3. \A p \in Syncs : Writes(p)'
    BY <1>0, <2>1 DEF Shown, AtWork, Writes, Writing, Written, Opening, row, local
  <2>. QED BY <1>0, <1>2, <1>3, <2>1, <2>2, <2>3 DEF Shown, AtWork, ThreadThere, BlockRight, row, local
<1>6. ASSUME NEW t \in Threads, Forget(t) PROVE Shown'
  <2>1. /\ t \notin live /\ pointer' \in {pointer, NULL} /\ (pointer' # pointer => pointer = t)
        /\ UNCHANGED <<discord, pc, local, counts, stored>>
    BY <1>6 DEF Forget, Guarded, book
  <2>2. NULL \notin live BY <1>0, SyncAssumption DEF TypeOK, ThreadKinds
  <2>3. \A p \in Syncs : Points(p)' BY <1>0, <2>1, <2>2 DEF Shown, AtWork, Points, Opening, discord, local
  <2>4. \A p \in Syncs : Writes(p)'
    BY <1>0, <2>1, <2>2 DEF Shown, AtWork, Writes, Writing, Written, Opening, discord, local
  <2>. QED BY <1>0, <1>1, <1>2, <1>3, <2>1, <2>2, <2>3, <2>4
    DEF Shown, AtWork, ThreadThere, BlockRight, Writing, Opening, discord, local
<1>. QED BY <1>4, <1>5, <1>6 DEF Environment

\* The verdict on a payload.
LEMMA ShownVerdict ==
  ASSUME Calm, MaxManual = 0 \/ OwnSecondEach, NEW p \in Syncs, Record(p) \/ Insert(p) PROVE Shown'
<1>0. /\ TypeOK /\ OrderInv /\ Ordered /\ DeliveriesHeld /\ Working(p) /\ pc[p] \in {"record", "insert"}
      /\ UNCHANGED <<github, pointer, note, lock, discord, job, manual, book>>
      /\ job[p] \in 1 .. gh
  BY DEF Calm, OwedInv, Working, Record, Insert, TypeOK, Places
<1>00. stored \in Nat /\ NULL \notin live /\ pointer \in used \cup {NULL}
  <2>1. stored \in Nat BY <1>0, SyncAssumption DEF TypeOK, RowKinds
  <2>2. NULL \notin live /\ pointer \in used \cup {NULL} BY <1>0, SyncAssumption DEF TypeOK, ThreadKinds
  <2>. QED BY <2>1, <2>2
<1>1. /\ shown[p] = 0 /\ ~rebuild[p] /\ ~Redoes(p)
      /\ counts["deletes"] = 0 /\ stored # 0 => pointer \in live \/ stored \in owed
      /\ pointer \in live => block[pointer] = stored \/ stored \in owed
  BY <1>0, <1>00, Found DEF Carries, Judged, Redoes, Writing, Opening
<1>2. ~manual[p] => job[p] \in owed BY <1>0 DEF DeliveriesHeld
<1>3. CASE Goto(p, "insert") /\ UNCHANGED <<stored, last, target, handle, shown, rebuild>>
  <2>1. pc'[p] = "insert" BY <1>0, <1>00, <1>3 DEF TypeOK, SyncKinds, Goto
  <2>2. Carries(p)' /\ Points(p)' /\ Writes(p)'
    BY <1>1, <1>3, <2>1 DEF Carries, Points, Writes, Writing, Written, Judged, Opening
  <2>. QED BY <1>0, <1>00, <1>1, <1>3, <2>1, <2>2, ShownAlone DEF PCs, github, discord, book, Writing, Opening
<1>4. CASE Apply(p) /\ (stored = 0 \/ ~Superseded(p))
  <2>. DEFINE x == AfterRecord(job[p], pointer)
  <2>1. /\ stored' = job[p] /\ Goto(p, x) /\ UNCHANGED <<handle, rebuild>>
        /\ shown'[p] = job[p] /\ target'[p] = pointer
        /\ \A q \in Syncs \ {p} : shown'[q] = shown[q]
    BY <1>0, <1>00, <1>4 DEF Apply, TypeOK, SyncKinds, ThreadKinds
  <2>2. /\ x \in {"unlock", "write"} /\ (x = "unlock" => ~Closed[job[p]]) /\ x \in PCs
        /\ pc'[p] = x
    BY <1>0, <1>00, <2>1 DEF AfterRecord, Goto, TypeOK, SyncKinds, PCs
  <2>3. Applied(p)' /\ Writing(p)' /\ ~rebuild'[p] BY <1>0, <1>00, <1>1, <2>1, <2>2 DEF Applied, Writing
  <2>4. Carries(p)' BY <2>1, <2>2, <2>3 DEF Carries, Judged, Writing, Written, Opening
  <2>5. Points(p)' /\ Writes(p)'
    BY <1>0, <1>00, <2>1, <2>2, <2>3 DEF Points, Writes, Writing, Written, Opening
  <2>6. stored' \in owed' \/ Redoes(p)' BY <1>0, <1>00, <1>2, <2>1, <2>3, Zenon DEF Redoes, github
  <2>. QED BY <1>0, <1>00, <2>1, <2>2, <2>3, <2>4, <2>5, <2>6, ShownAlone
<1>5. ASSUME Superseded(p), stored # 0
      PROVE  job[p] < stored BY <1>0, <1>00, <1>5, SupersededIsOlder DEF Ordered
<1>6. CASE Superseded(p) /\ stored # 0 /\ pointer # NULL /\ TurnAway(p)
  <2>1. /\ Goto(p, "settle") /\ pc'[p] = "settle" /\ handle'[p] = pointer
        /\ UNCHANGED <<stored, shown, rebuild>>
    BY <1>0, <1>00, <1>6 DEF TurnAway, Goto, TypeOK, SyncKinds, ThreadKinds
  <2>2. Carries(p)' /\ Points(p)' /\ Writes(p)' BY <1>0, <1>00, <1>1, <1>5, <1>6, <2>1
    DEF Carries, TurnedAway, Points, Writes, Writing, Written, Judged, Opening
  <2>. QED BY <1>0, <1>00, <1>1, <2>1, <2>2, ShownAlone DEF PCs, github, discord, book, Writing, Opening
<1>7. CASE Superseded(p) /\ stored # 0 /\ pointer = NULL /\ RebuildFromRow(p)
  <2>1. /\ Goto(p, "write") /\ pc'[p] = "write" /\ shown'[p] = stored /\ rebuild'[p]
        /\ target'[p] = NULL /\ UNCHANGED <<stored, handle>>
        /\ \A q \in Syncs \ {p} : shown'[q] = shown[q] /\ rebuild'[q] = rebuild[q]
    BY <1>0, <1>00, <1>7 DEF RebuildFromRow, Goto, TypeOK, SyncKinds, ThreadKinds, FlagKinds
  <2>2. Carries(p)' /\ Points(p)' /\ Writes(p)' BY <1>0, <1>00, <1>5, <1>7, <2>1
    DEF Carries, Rebuilding, Points, Writes, Writing, Written, Judged, Opening, discord
  <2>. QED BY <1>0, <1>00, <1>1, <1>7, <2>1, <2>2, ShownAlone DEF PCs, github, discord, book
<1>. QED BY <1>3, <1>4, <1>6, <1>7 DEF Record, Insert, AskAgain, Judge

\* The thread is given back before it is written to.
LEMMA ShownUnlock ==
  ASSUME Calm, NEW p \in Syncs, Unlock(p) \/ UnlockRefused(p) \/ NoteOpen(p) PROVE Shown'
<1>0. /\ TypeOK /\ Working(p) /\ pc[p] \in {"unlock", "note_open"}
      /\ UNCHANGED <<github, stored, last, pointer, live, used, block, local>>
      /\ counts'["deletes"] = counts["deletes"]
  BY DEF Calm, OwedInv, Working, Unlock, UnlockRefused, NoteOpen, row, discord, book, Fault, TypeOK,
    FlagKinds, Bounded
<1>1. PICK x \in {"note_open", "write"} : Goto(p, x) BY DEF Unlock, UnlockRefused, NoteOpen
<1>2. pc'[p] = x BY <1>0, <1>1 DEF Goto, TypeOK, SyncKinds
<1>3. Carries(p) /\ Points(p) BY <1>0, Found
<1>4. Carries(p)' /\ Points(p)' /\ Writes(p)' BY <1>0, <1>2, <1>3
  DEF Carries, Points, Writes, Applied, Rebuilding, Writing, Written, Judged, Opening, local
<1>5. Redoes(p) => Redoes(p)' BY <1>0, <1>2 DEF Redoes, Writing, Applied, local
<1>6. Writing(p) /\ ~rebuild'[p] BY <1>0, <1>3 DEF Carries, Writing, local
<1>. QED BY <1>0, <1>1, <1>4, <1>5, <1>6, Found, ShownAlone DEF PCs, github, local

\* The thread is written to.
LEMMA ShownUpdate ==
  ASSUME Calm, NEW p \in Syncs, Update(p) PROVE Shown'
<1>0. /\ TypeOK /\ Working(p) /\ pc[p] = "write" /\ Goto(p, "closing") /\ NULL \notin live
      /\ UNCHANGED <<github, row, lock, live, used, job, manual, target, shown, rebuild, book>>
      /\ target[p] \in live
  BY SyncAssumption DEF Calm, OwedInv, Working, Update, TypeOK, ThreadKinds
<1>1. block'[target[p]] = shown[p] /\ handle'[p] = target[p] /\ pc'[p] = "closing"
  BY <1>0 DEF Update, TypeOK, SyncKinds, ThreadKinds, Goto
<1>2. /\ Carries(p) /\ Points(p) /\ ~rebuild[p] /\ Applied(p) /\ pointer = target[p]
  BY <1>0, Found DEF Carries, Points, Rebuilding, Writing
<1>3. shown[p] # 0 BY <1>0 DEF TypeOK, Places
<1>4. Carries(p)' /\ Points(p)' /\ Writes(p)' BY <1>0, <1>1, <1>2, <1>3
  DEF Carries, Points, Writes, Applied, Writing, Written, Judged, Opening, row
<1>. QED BY <1>0, <1>1, <1>2, <1>4, ShownAlone DEF PCs, Applied, row

\* A thread is opened for the item.
LEMMA ShownOpen ==
  ASSUME Calm, NEW p \in Syncs, NEW t \in Threads, Open(p, t), excuses' \subseteq {"refused"} PROVE Shown'
<1>0. /\ TypeOK /\ Working(p) /\ pc[p] = "write" /\ Goto(p, "claim") /\ NULL \notin Threads
      /\ UNCHANGED <<github, row, lock, shut, job, manual, target, shown, rebuild, lost>>
      /\ target[p] \notin live /\ live' = live \cup {t} /\ t \notin used /\ target[p] \in used \cup {NULL}
      /\ pointer \in used \cup {NULL}
  BY SyncAssumption DEF Calm, OwedInv, Working, Open, TypeOK, ThreadKinds
<1>1. handle'[p] = t /\ pc'[p] = "claim" /\ ~shut[t] /\ block[t] = 0
  BY <1>0 DEF Open, Goto, TypeOK, SyncKinds, ThreadKinds, Calm, OwedInv, Unwritten
<1>2. /\ block'[t] = shown[p] \/ (block'[t] = 0 /\ ~rebuild[p])
      /\ counts'["deletes"] = counts["deletes"]
      /\ \A u \in Threads \ {t} : block'[u] = block[u]
  <2>1. CASE block' = [block EXCEPT ![t] = shown[p]] /\ UNCHANGED counts BY <1>0, <2>1 DEF TypeOK, ThreadKinds
  <2>2. CASE Fault /\ UNCHANGED block /\ ~rebuild[p] BY <1>0, <1>1, <2>2 DEF Fault, TypeOK, FlagKinds, Bounded
  <2>. QED BY <2>1, <2>2 DEF Open
<1>3. /\ Carries(p) /\ Points(p) BY <1>0, Found
<1>4. Carries(p)' BY <1>0, <1>1, <1>3 DEF Carries, Applied, Rebuilding, Writing, Written, Judged, Opening, row
<1>5. Points(p)' /\ Writes(p)' BY <1>0, <1>1, <1>2, <1>3 DEF Points, Writes, Writing, Written, Opening, row
<1>6. Redoes(p) => Redoes(p)' BY <1>0, <1>1 DEF Redoes, Writing, Applied, Opening, row
<1>7. pointer # t /\ pointer \in live' => pointer \in Threads \ {t} /\ pointer \in live
  BY <1>0 DEF TypeOK, ThreadKinds
<1>. QED BY <1>0, <1>2, <1>4, <1>5, <1>6, <1>7, Found, ShownAlone DEF PCs, Opening, github, row, Writing

\* A payload being written is the row's, and is brought again or by hand; else
\* the row itself is.
LEMMA Brought ==
  ASSUME Calm, NEW p \in Syncs, Writing(p)
  PROVE  /\ Working(p) /\ shown[p] = stored /\ shown[p] # 0
         /\ ~rebuild[p] => stored \in owed \/ Redoes(p)
         /\ ~manual[p] /\ ~rebuild[p] => stored \in owed
         /\ counts["deletes"] = 0 => stored \in owed \/ Redoes(p)
         /\ ~manual[p] /\ counts["deletes"] = 0 => stored \in owed
<1>1. Working(p) /\ shown[p] # 0 BY DEF Calm, OwedInv, TypeOK, Places, Writing, Opening, Working
<1>2. Applied(p) \/ Rebuilding(p) BY <1>1, Found DEF Carries
<1>3. Applied(p) => stored \in owed \/ manual[p] BY <1>1 DEF Applied, Calm, OwedInv, DeliveriesHeld, Working
<1>4. Rebuilding(p) /\ counts["deletes"] = 0 => stored \in owed BY <1>1, Found DEF Rebuilding
<1>. QED BY <1>1, <1>2, <1>3, <1>4 DEF Redoes, Applied, Rebuilding

\* The swap goes through and the row is read back.
LEMMA ShownClaim ==
  ASSUME Calm, NEW p \in Syncs, Claim(p) \/ Reclaim(p), excuses' \subseteq {"refused"} PROVE Shown'
<1>0. /\ TypeOK /\ pc[p] \in {"claim", "reclaim"} /\ pc[p] \in Opening /\ ReadBack(p)
      /\ UNCHANGED <<github, stored, last, discord, counts, lost>>
  BY DEF Calm, OwedInv, Claim, Reclaim, Opening
<1>1. /\ Working(p) /\ Writing(p) /\ Carries(p) /\ Points(p) /\ Writes(p)
  BY <1>0, Found DEF Working, Writing, Opening
<1>2. handle[p] # NULL /\ NULL \notin live BY <1>0, SyncAssumption DEF TypeOK, Places, ThreadKinds
<1>3. pointer \notin live /\ pointer' \in {handle[p], NULL} /\ (pc[p] = "reclaim" => pointer' = handle[p])
  BY <1>0, <1>1, <1>2 DEF Claim, Reclaim, Swap, Points
<1>4. CASE pointer' = handle[p] /\ ~StartedEmpty(p) /\ Goto(p, "closing") /\ UNCHANGED local
  <2>1. pc'[p] = "closing" BY <1>0, <1>4 DEF TypeOK, SyncKinds, Goto
  <2>2. block[handle[p]] = shown[p] /\ shown[p] = stored BY <1>0, <1>1, <1>4, Brought DEF Writes, StartedEmpty
  <2>3. Carries(p)' BY <1>0, <1>1, <1>4, <2>1, <2>2, Brought
    DEF Carries, Applied, Rebuilding, Writing, Written, Judged, Opening, local
  <2>4. Points(p)' /\ Writes(p)' BY <1>0, <1>1, <1>2, <1>4, <2>1, <2>2
    DEF Points, Writes, Writing, Written, Opening, local, discord
  <2>. QED BY <1>0, <1>1, <1>4, <2>1, <2>2, <2>3, <2>4, ShownAlone
    DEF PCs, discord, local, Writing, Opening, Writes
<1>5. CASE pointer' = handle[p] /\ StartedEmpty(p) /\ Raise(p)
  <2>1. ~manual[p] /\ Rest(p) BY <1>5 DEF Raise
  <2>2. ~rebuild[p] BY <1>0, <1>1, <1>5, Brought DEF Writes, StartedEmpty
  <2>3. stored \in owed BY <1>1, <2>1, <2>2, Brought
  <2>. QED BY <1>0, <1>1, <2>1, <2>3, ShownRest DEF Calm, OwedInv, github
<1>6. CASE pointer' = NULL /\ Goto(p, "reclaim") /\ UNCHANGED local
  <2>1. pc'[p] = "reclaim" BY <1>0, <1>6 DEF TypeOK, SyncKinds, Goto
  <2>2. Carries(p)' /\ Points(p)' /\ Writes(p)' BY <1>0, <1>1, <1>2, <1>6, <2>1
    DEF Carries, Points, Writes, Applied, Rebuilding, Writing, Written, Judged, Opening, local, discord
  <2>3. Redoes(p) => Redoes(p)' BY <1>0, <1>6, <2>1 DEF Redoes, Writing, Opening, Applied, local
  <2>4. counts["deletes"] = 0 => stored \in owed \/ Redoes(p) BY <1>1, Brought
  <2>5. counts["deletes"] = 0 /\ rebuild[p] => stored \in owed BY <1>1, Found
  <2>. QED BY <1>0, <1>1, <1>2, <1>6, <2>1, <2>2, <2>3, <2>4, <2>5, ShownAlone
    DEF PCs, Opening, discord, github, local
<1>. QED BY <1>0, <1>3, <1>4, <1>5, <1>6 DEF ReadBack

\* The swap raises, and may have gone through.
LEMMA ShownClaimFails ==
  ASSUME Calm, NEW p \in Syncs, ClaimFails(p) PROVE Shown'
<1>0. /\ TypeOK /\ pc[p] \in {"claim", "reclaim"} /\ pc[p] \in Opening /\ Goto(p, "take_back")
      /\ UNCHANGED <<github, stored, last, lock, discord, local, excuses, lost>>
      /\ counts'["deletes"] = counts["deletes"]
  BY DEF Calm, OwedInv, ClaimFails, Opening, Fault, TypeOK, FlagKinds, Bounded
<1>1. /\ Working(p) /\ Writing(p) /\ Carries(p) /\ Points(p) /\ Writes(p) /\ pc'[p] = "take_back"
  BY <1>0, Found DEF Working, Writing, Opening, TypeOK, SyncKinds, Goto
<1>2. pointer' \notin live \/ pointer' = handle[p]
  BY <1>0, <1>1, SyncAssumption DEF ClaimFails, Swap, Points, TypeOK, ThreadKinds
<1>3. Carries(p)' /\ Points(p)' /\ Writes(p)' BY <1>0, <1>1, <1>2
  DEF Carries, Points, Writes, Applied, Rebuilding, Writing, Written, Judged, Opening, local, discord
<1>4. Redoes(p) => Redoes(p)' BY <1>0, <1>1 DEF Redoes, Writing, Opening, Applied, local
<1>5. counts["deletes"] = 0 => (stored \in owed \/ Redoes(p)) /\ (rebuild[p] => stored \in owed)
  BY <1>1, Brought, Found
<1>6. pointer' \in live => block[pointer'] = stored \/ stored \in owed \/ Redoes(p)
  BY <1>0, <1>1, <1>2, Brought DEF Writes
<1>. QED BY <1>0, <1>1, <1>3, <1>4, <1>5, <1>6, ShownAlone DEF PCs, Opening, discord, github, local

\* The thread is taken back, and the sync raises.
LEMMA ShownTakeBack ==
  ASSUME Calm, NEW p \in Syncs, TakeBack(p), excuses' \subseteq {"refused"} PROVE Shown'
<1>0. /\ TypeOK /\ pc[p] = "take_back" /\ TakeAway(p) /\ Rest(p) /\ ~manual[p]
      /\ UNCHANGED <<github, row>> BY DEF Calm, OwedInv, TakeBack, Raise
<1>1. /\ Working(p) /\ Writing(p) /\ pc[p] \in Opening /\ Points(p) /\ Writes(p)
  BY <1>0, Found DEF Working, Writing, Opening
<1>2. counts["deletes"] = 0 \/ ~rebuild[p] => stored \in owed BY <1>0, <1>1, Brought
<1>3. counts'["deletes"] = counts["deletes"] BY <1>0 DEF TakeAway, Remove, Fault, TypeOK, FlagKinds, Bounded
<1>4. pointer \in live' => block'[pointer] = stored \/ stored \in owed
  <2>1. CASE Remove(handle[p]) BY <1>0, <1>1, <2>1 DEF Points, Remove
  <2>2. CASE UNCHANGED discord BY <1>0, <1>1, <1>2, <2>2, Brought DEF Points, Writes, discord
  <2>. QED BY <1>0, <2>1, <2>2 DEF TakeAway
<1>. QED BY <1>0, <1>1, <1>2, <1>3, <1>4, ShownRest DEF Calm, OwedInv, github, row

\* The lock, last of all.
LEMMA ShownLocking ==
  ASSUME Calm, NEW p \in Syncs,
         Closing(p) \/ Settle(p) \/ Shut(p) \/ ShutRefused(p) \/ NoteShut(p),
         excuses' \subseteq {"refused"}
  PROVE  Shown'
<1>0. /\ TypeOK /\ Working(p) /\ pc[p] \in {"closing", "settle", "shut", "note_shut"}
      /\ UNCHANGED <<github, stored, last, pointer, live, used, block>>
      /\ counts'["deletes"] = counts["deletes"]
  BY DEF Calm, OwedInv, Working, Closing, Settle, Shut, ShutRefused, NoteShut, row, discord, book, Fault,
    TypeOK, FlagKinds, Bounded
<1>1. Carries(p) /\ Points(p) /\ Writes(p) /\ ~Writing(p) /\ ~Redoes(p)
  BY <1>0, Found DEF Writing, Opening, Redoes
<1>2. CASE UNCHANGED local
  <2>1. PICK x \in {"shut", "note_shut", "done"} : Goto(p, x) BY <1>0, <1>2
    DEF Closing, Settle, Shut, ShutRefused, NoteShut, Raise, Rest, local, Goto, TypeOK, Places, SyncKinds
  <2>2. pc'[p] = x BY <1>0, <2>1 DEF Goto, TypeOK, SyncKinds
  <2>3. pc[p] = "closing" => shown[p] # 0 BY <1>0 DEF TypeOK, Places
  <2>4. Written(p)' <=> Written(p) BY <1>0, <1>1, <1>2, <2>2, <2>3 DEF Written, local, Carries, TurnedAway
  <2>5. Carries(p)' BY <1>0, <1>1, <1>2, <2>2, <2>4
    DEF Carries, Applied, Rebuilding, TurnedAway, Judged, Writing, Opening, local
  <2>6. Points(p)' /\ Writes(p)' BY <1>0, <1>1, <1>2, <2>2, <2>4 DEF Points, Writes, Opening, local
  <2>. QED BY <1>0, <1>1, <1>2, <2>1, <2>2, <2>5, <2>6, Found, ShownAlone
    DEF PCs, Writing, Opening, github, local
<1>3. CASE Shut(p) /\ Raise(p) /\ handle[p] \notin live
  <2>1. Rest(p) /\ ~manual[p] /\ pc[p] = "shut" /\ job[p] \in owed
    BY <1>3 DEF Raise, Shut, Calm, OwedInv, DeliveriesHeld
  <2>2. pointer \notin live BY <1>0, <1>1, <1>3, <2>1, SyncAssumption DEF Points, TypeOK, ThreadKinds
  <2>3. counts["deletes"] = 0 /\ stored # 0 => stored \in owed BY <1>0, <1>1, <2>2, Found
  <2>. QED BY <1>0, <2>1, <2>2, <2>3, ShownRest DEF Calm, OwedInv, github
<1>. QED BY <1>2, <1>3 DEF Closing, Settle, Shut, ShutRefused, NoteShut

\* The sync is done, and so is its delivery.
LEMMA ShownFinish ==
  ASSUME Calm, NEW p \in Syncs, Finish(p) PROVE Shown'
<1>0. /\ TypeOK /\ Working(p) /\ pc[p] = "done" /\ Rest(p) /\ UNCHANGED <<gh, row, discord, book>>
      /\ owed \ {job[p]} \subseteq owed' /\ stored \in Nat /\ job[p] \in Nat
  BY SyncAssumption DEF Calm, OwedInv, Working, Finish, TypeOK, RowKinds, SyncKinds
<1>1. Carries(p) /\ Points(p) /\ Writes(p) /\ ~Writing(p) /\ ~Redoes(p)
  BY <1>0, Found DEF Writing, Opening, Redoes
<1>2. CASE Written(p) /\ Applied(p)
  <2>1. counts["deletes"] = 0 => pointer \in live BY <1>1, <1>2 DEF Writes
  <2>2. pointer \in live => block[pointer] = stored
    BY <1>0, <1>1, <1>2, SyncAssumption DEF Writes, Points, Applied, TypeOK, ThreadKinds
  <2>. QED BY <1>0, <2>1, <2>2, ShownRest DEF Calm, OwedInv, row, discord, book
<1>3. CASE job[p] < stored
  <2>1. stored \in owed => stored \in owed' BY <1>0, <1>3
  <2>. QED BY <1>0, <1>1, <2>1, Found, ShownRest DEF Calm, OwedInv, row, discord, book
<1>. QED BY <1>0, <1>1, <1>2, <1>3 DEF Carries, Judged, Rebuilding, TurnedAway

\* A sync is cut short.
LEMMA ShownCut ==
  ASSUME Calm, NEW p \in Syncs, Abort(p) \/ Busy(p), excuses' \subseteq {"refused"} PROVE Shown'
<1>0. /\ TypeOK /\ Rest(p) /\ UNCHANGED <<github, row, discord>>
      /\ counts'["deletes"] = counts["deletes"]
  BY DEF Calm, OwedInv, Abort, Busy, Raise, book, Fault, TypeOK, FlagKinds, Bounded
<1>1. CASE ~Working(p)
  <2>1. pc[p] \in {"idle", "waiting"} /\ pc'[p] = "idle" /\ shown'[p] = 0 BY <1>0, <1>1, Resting DEF Working
  <2>2. rebuild'[p] = FALSE BY <1>0 DEF Rest, TypeOK, FlagKinds
  <2>. QED BY <1>0, <2>1, <2>2, Resting, ShownWaiting
<1>2. CASE Working(p)
  <2>1. ~manual[p] BY <1>2 DEF Abort, Busy, Raise, Working
  <2>. QED BY <1>0, <1>2, <2>1, Found, ShownRest DEF Redoes, Calm, OwedInv, github, row, discord
<1>. QED BY <1>1, <1>2

LEMMA ShownStep ==
  ASSUME OwedInv, ShownInv, MaxManual = 0 \/ OwnSecondEach, [Next]_vars PROVE ShownInv'
<1>. SUFFICES ASSUME excuses' \subseteq {"refused"} PROVE Shown' BY DEF ShownInv
<1>0. Calm BY ExcusesGrow DEF Calm, ShownInv
<1>1. CASE UNCHANGED vars BY <1>0, <1>1
  DEF Calm, Shown, AtWork, Carries, Points, Writes, ThreadThere, BlockRight, BroughtAgain, Redoes,
      Writing, Written, Judged, Applied, Rebuilding, TurnedAway, vars, github, row, discord, local, book
<1>2. CASE Environment BY <1>0, <1>2, ShownEnvironment
<1>3. ASSUME NEW p \in Syncs, Take(p) PROVE Shown'
  <2>1. /\ pc[p] = "idle" /\ pc'[p] = "waiting"
        /\ \A q \in Syncs \ {p} : pc'[q] = pc[q] /\ job'[q] = job[q]
        /\ UNCHANGED <<github, row, discord, target, handle, shown, rebuild>>
    BY <1>0, <1>3 DEF Take, SyncByHand, Deliver, Begin, Goto, Calm, OwedInv, TypeOK, SyncKinds
  <2>2. \A q \in Syncs \ {p} : manual'[q] = manual[q]
    BY <1>0, <1>3 DEF Take, SyncByHand, Deliver, Begin, Calm, OwedInv, TypeOK, FlagKinds
  <2>3. counts'["deletes"] = counts["deletes"]
    BY <1>0, <1>3 DEF Take, SyncByHand, Deliver, book, Calm, OwedInv, TypeOK, FlagKinds, Bounded
  <2>4. shown[p] = 0 /\ rebuild[p] = FALSE
    BY <1>0, <2>1 DEF Calm, Shown, AtWork, Carries, Judged, OwedInv, TypeOK, FlagKinds
  <2>. QED BY <1>0, <2>1, <2>2, <2>3, <2>4, ShownWaiting
<1>4. ASSUME NEW p \in Syncs, Discard(p) PROVE FALSE BY <1>0, <1>4, Found DEF Discard, Points, Working
<1>5. ASSUME NEW p \in Syncs, Step(p) PROVE Shown'
  BY <1>0, <1>4, <1>5, ShownTakeLock, ShownVerdict, ShownUnlock, ShownUpdate, ShownOpen, ShownClaim,
    ShownTakeBack, ShownLocking, ShownFinish DEF Step
<1>6. ASSUME NEW p \in Syncs, LoseLock(p) PROVE FALSE BY <1>6 DEF LoseLock
<1>7. ASSUME NEW p \in Syncs, Trouble(p) PROVE Shown'
  BY <1>0, <1>6, <1>7, ShownCut, ShownUnlock, ShownLocking, ShownClaimFails DEF Trouble
<1>. QED BY <1>1, <1>2, <1>3, <1>5, <1>7 DEF Next

----
\* Whether the thread is shut.  As long as nothing was refused or left
\* unfinished, a thread that is shut though the issue is open will be
\* written to again, and one that is open though the issue is closed will
\* be shut by a delivery still owed or by the command's sync at work.

\* The command's sync at work, which nobody retries.
ToBeShut(p) == manual[p] /\ Judged(p) /\ shown[p] # 0 /\ pc[p] # "done"

Right == pointer \in live /\ Closed[stored] => shut[pointer]

GivenBack == pointer \in live /\ shut[pointer] /\ ~Closed[stored] => BroughtAgain
NoteRight ==
    pointer \in live /\ note = "shut" =>
        shut[pointer] \/ stored \in owed \/ \E p \in Syncs : ToBeShut(p)
LockRight == Right \/ owed # {} \/ \E p \in Syncs : ToBeShut(p)

Locks(p) ==
    /\ pc[p] = "closing" => ~shut[handle[p]]
    /\ pc[p] = "done" /\ shown[p] # 0 /\ ~Closed[stored] => ~shut[handle[p]]
    /\ pc[p] \in {"shut", "note_shut"} => Closed[stored]
    /\ pc[p] = "note_shut" => shut[handle[p]] \/ handle[p] \notin live
    /\ pc[p] = "done" => Right \/ (stored \in owed /\ job[p] # stored)
    /\ pc[p] \in {"write", "closing", "done"} /\ shown[p] # 0 /\ ~Closed[stored] /\ pointer \in live
         => note # "shut"

Locked  == (\A p \in Syncs : Locks(p)) /\ GivenBack /\ NoteRight /\ LockRight
LockInv == excuses = {} => Locked

LEMMA LockInit == Init => LockInv BY SyncAssumption
DEF Init, LockInv, Locked, Locks, GivenBack, NoteRight, LockRight, Right

\* What the sync past the lock finds.
LEMMA LockFound ==
  ASSUME Calm, Locked, NEW p \in Syncs, Working(p)
  PROVE  /\ Locks(p)
         /\ pointer \in live /\ shut[pointer] /\ ~Closed[stored] => stored \in owed \/ Redoes(p)
         /\ pointer \in live /\ note = "shut" => shut[pointer] \/ stored \in owed \/ ToBeShut(p)
         /\ Right \/ owed # {} \/ ToBeShut(p)
         /\ ~manual[p] => owed # {}
<1>1. \A q \in Syncs : Working(q) => q = p BY Alone DEF Calm, OwedInv
<1>2. BroughtAgain <=> stored \in owed \/ Redoes(p) BY RedoesAlone DEF Calm, OwedInv
<1>3. (\E q \in Syncs : ToBeShut(q)) => ToBeShut(p) BY <1>1 DEF ToBeShut, Judged, Working
<1>4. ~manual[p] => owed # {} BY DEF Calm, OwedInv, DeliveriesHeld, Working
<1>. QED BY <1>2, <1>3, <1>4 DEF Locked, GivenBack, NoteRight, LockRight

\* What it has to leave behind when it moves on, or ends.
LEMMA LockAlone ==
  ASSUME Calm, NEW p \in Syncs, Working(p), \A q \in Syncs \ {p} : pc'[q] = pc[q],
         Locks(p)',
         pointer' \in live' /\ shut'[pointer'] /\ ~Closed[stored'] => stored' \in owed' \/ Redoes(p)',
         pointer' \in live' /\ note' = "shut" => shut'[pointer'] \/ stored' \in owed' \/ ToBeShut(p)',
         Right' \/ owed' # {} \/ ToBeShut(p)'
  PROVE  Locked'
<1>1. \A q \in Syncs \ {p} : pc'[q] \in {"idle", "waiting"} BY Alone DEF Calm, OwedInv, Working
<1>2. \A q \in Syncs : Locks(q)' BY <1>1 DEF Locks
<1>3. (stored' \in owed' \/ Redoes(p)' => BroughtAgain') /\ (ToBeShut(p)' => \E q \in Syncs : ToBeShut(q)')
  BY DEF BroughtAgain
<1>. QED BY <1>2, <1>3 DEF Locked, GivenBack, NoteRight, LockRight

LEMMA LockTakeLock ==
  ASSUME Calm, Locked, NEW p \in Syncs, TakeLock(p) PROVE Locked'
<1>1. TypeOK /\ UNCHANGED <<github, row, discord, local, book>> BY DEF Calm, OwedInv, TakeLock
<1>2. \A q \in Syncs : pc[q] \in {"idle", "waiting"} /\ pc'[q] \in {"idle", "waiting", "record"}
  BY <1>1, SyncAssumption DEF Calm, OwedInv, OneAtATime, Working, TakeLock, TypeOK, SyncKinds, Goto
<1>3. \A q \in Syncs : ~ToBeShut(q) /\ ~Redoes(q) /\ Locks(q)'
  BY <1>2 DEF ToBeShut, Judged, Redoes, Writing, Opening, Locks
<1>. QED BY <1>1, <1>3 DEF Locked, GivenBack, NoteRight, LockRight, Right, BroughtAgain, github, row, discord

LEMMA LockWaiting ==
  ASSUME Calm, Locked, NEW p \in Syncs, pc[p] \in {"idle", "waiting"}, pc'[p] \in {"idle", "waiting"},
         \A q \in Syncs \ {p} : pc'[q] = pc[q] /\ job'[q] = job[q] /\ manual'[q] = manual[q]
                                /\ shown'[q] = shown[q] /\ rebuild'[q] = rebuild[q]
                                /\ handle'[q] = handle[q],
         UNCHANGED <<github, row, discord>>
  PROVE  Locked'
<1>1. ~ToBeShut(p) /\ ~Redoes(p) /\ Locks(p)' BY DEF ToBeShut, Judged, Redoes, Writing, Opening, Locks
<1>2. ASSUME NEW q \in Syncs \ {p}
      PROVE  (Redoes(q) => Redoes(q)') /\ (ToBeShut(q) => ToBeShut(q)') /\ Locks(q)'
  BY <1>2 DEF Redoes, Writing, Applied, Opening, ToBeShut, Judged, Locked, Locks, Right, github, row, discord
<1>3. BroughtAgain => BroughtAgain' BY <1>1, <1>2 DEF BroughtAgain, github, row
<1>4. (\E q \in Syncs : ToBeShut(q)) => \E q \in Syncs : ToBeShut(q)' BY <1>1, <1>2
<1>. QED BY <1>1, <1>2, <1>3, <1>4 DEF Locked, GivenBack, NoteRight, LockRight, Right, github, row, discord

LEMMA LockEnvironment ==
  ASSUME Calm, Locked, Environment PROVE Locked'
<1>0. TypeOK /\ UNCHANGED <<pc, local, stored, shut>> /\ owed \subseteq owed'
  BY DEF Calm, OwedInv, Environment, Change, Delete, Forget, row, discord, local, book, github
<1>1. BroughtAgain => BroughtAgain' BY <1>0 DEF BroughtAgain, Redoes, Writing, Applied, Opening, local
<1>2. \A q \in Syncs : ToBeShut(q) <=> ToBeShut(q)' BY <1>0 DEF ToBeShut, Judged, local
<1>3. /\ live' \subseteq live
      /\ pointer' \in live' => pointer' = pointer /\ note' = note
  BY <1>0, SyncAssumption DEF Environment, Change, Delete, Forget, Guarded, row, discord, TypeOK, ThreadKinds
<1>4. Right => Right' BY <1>0, <1>3 DEF Right
<1>5. \A q \in Syncs : Locks(q)' BY <1>0, <1>3, <1>4 DEF Locked, Locks, local
<1>. QED BY <1>0, <1>1, <1>2, <1>3, <1>4, <1>5 DEF Locked, GivenBack, NoteRight, LockRight

LEMMA LockVerdict ==
  ASSUME Calm, Locked, NEW p \in Syncs, Record(p) \/ Insert(p) PROVE Locked'
<1>0. /\ TypeOK /\ DeliveriesHeld /\ Working(p) /\ pc[p] \in {"record", "insert"}
      /\ UNCHANGED <<github, pointer, note, lock, discord, job, manual, book>>
      /\ job[p] \in 1 .. gh
  BY DEF Calm, OwedInv, Working, Record, Insert, TypeOK, Places
<1>1. ~Redoes(p) /\ ~ToBeShut(p) /\ shown[p] = 0 /\ ~rebuild[p]
  BY <1>0, Found DEF Redoes, Writing, Opening, ToBeShut, Judged, Carries
<1>2. NULL \notin live BY <1>0, SyncAssumption DEF TypeOK, ThreadKinds
<1>3. ASSUME NEW x \in {"insert", "settle"}, Goto(p, x), UNCHANGED stored PROVE Locked'
  <2>1. \A q \in Syncs : pc'[q] = IF q = p THEN x ELSE pc[q] BY <1>0, <1>3 DEF TypeOK, SyncKinds, Goto
  <2>2. Locks(p)' BY <2>1 DEF Locks
  <2>. QED BY <1>0, <1>1, <1>3, <2>1, <2>2, LockFound, LockAlone DEF Right, github, discord
<1>4. CASE Apply(p)
  <2>. DEFINE x == AfterRecord(job[p], pointer)
  <2>1. /\ stored' = job[p] /\ Goto(p, x) /\ UNCHANGED rebuild /\ shown'[p] = job[p]
        /\ x \in {"unlock", "write"} /\ (x = "write" /\ ~Closed[job[p]] => pointer = NULL)
    BY <1>0, <1>4 DEF Apply, TypeOK, SyncKinds, AfterRecord
  <2>2. \A q \in Syncs : pc'[q] = IF q = p THEN x ELSE pc[q] BY <1>0, <2>1 DEF TypeOK, SyncKinds, Goto
  <2>3. Locks(p)' BY <1>0, <1>2, <2>1, <2>2 DEF Locks, discord
  <2>4. ~manual[p] => stored' \in owed' BY <1>0, <2>1 DEF DeliveriesHeld, github
  <2>5. manual[p] => ToBeShut(p)' /\ Redoes(p)'
    BY <1>0, <1>1, <2>1, <2>2 DEF ToBeShut, Judged, Redoes, Writing, Applied
  <2>. QED BY <1>0, <2>2, <2>3, <2>4, <2>5, LockAlone
<1>5. CASE RebuildFromRow(p) /\ pointer = NULL
  <2>1. \A q \in Syncs : pc'[q] = IF q = p THEN "write" ELSE pc[q]
    BY <1>0, <1>5 DEF TypeOK, SyncKinds, Goto, RebuildFromRow
  <2>2. pointer' \notin live' BY <1>0, <1>2, <1>5 DEF discord
  <2>3. Locks(p)' BY <2>1, <2>2 DEF Locks
  <2>. QED BY <1>0, <2>1, <2>2, <2>3, LockAlone DEF Right
<1>. QED BY <1>3, <1>4, <1>5 DEF Record, Insert, AskAgain, Judge, TurnAway

\* While the sync past the lock writes the row's payload, the lock is its own.
LEMMA LockWriting ==
  ASSUME Calm, NEW p \in Syncs, Writing(p), ~rebuild[p],
         NEW x \in PCs \ {"done", "idle", "waiting", "record", "insert"},
         \A q \in Syncs : pc'[q] = IF q = p THEN x ELSE pc[q],
         UNCHANGED <<owed, stored, job, manual, shown, rebuild>>,
         Locks(p)',
         pointer' \in live' /\ shut'[pointer'] /\ ~Closed[stored] => stored \in owed \/ Redoes(p)'
  PROVE  Locked'
<1>1. Working(p) /\ shown[p] # 0 /\ (~manual[p] => stored \in owed) BY Brought
<1>2. manual[p] => ToBeShut(p)' BY <1>1 DEF ToBeShut, Judged
<1>. QED BY <1>1, <1>2, LockAlone

LEMMA LockUnlock ==
  ASSUME Calm, Locked, NEW p \in Syncs, Unlock(p) \/ NoteOpen(p) \/ Update(p) PROVE Locked'
<1>0. /\ TypeOK /\ Working(p) /\ Writing(p) /\ NULL \notin live
      /\ pc[p] \in {"unlock", "note_open", "write"} /\ (pc[p] = "write" <=> Update(p))
      /\ UNCHANGED <<github, stored, last, pointer, live, used, job, manual, target, shown, rebuild>>
  BY SyncAssumption DEF Calm, OwedInv, Working, Unlock, NoteOpen, Update, row, discord, local, Writing,
    TypeOK, ThreadKinds
<1>1. Points(p) /\ Carries(p) /\ shown[p] # 0 /\ ~rebuild[p]
  <2>1. Points(p) /\ Carries(p) /\ shown[p] # 0 BY <1>0, Found, Brought
  <2>. QED BY <1>0, <2>1 DEF Carries, Points, Update, TypeOK, FlagKinds
<1>2. Locks(p) /\ (pointer \in live /\ shut[pointer] /\ ~Closed[stored] => stored \in owed \/ Redoes(p))
  BY <1>0, LockFound
<1>3. PICK x \in {"note_open", "write", "closing"} : Goto(p, x) BY DEF Unlock, NoteOpen, Update
<1>4. \A q \in Syncs : pc'[q] = IF q = p THEN x ELSE pc[q] BY <1>0, <1>3 DEF Goto, TypeOK, SyncKinds
<1>5. ASSUME pointer \in live PROVE pointer = target[p] /\ pointer \in Threads
  BY <1>0, <1>1, <1>5 DEF Points, Update, TypeOK, ThreadKinds
<1>6. CASE Unlock(p)
  <2>1. x = IF target[p] \in live THEN "note_open" ELSE "write"
    BY <1>0, <1>4, <1>6 DEF Unlock, Goto, TypeOK, SyncKinds
  <2>2. Locks(p)' BY <1>0, <1>4, <1>5, <2>1 DEF Locks
  <2>3. pointer \in live => ~shut'[pointer] BY <1>0, <1>5, <1>6 DEF Unlock, TypeOK, ThreadKinds
  <2>. QED BY <1>0, <1>1, <1>3, <1>4, <2>2, <2>3, LockWriting DEF PCs, Opening, github
<1>7. CASE NoteOpen(p)
  <2>1. x = "write" /\ UNCHANGED discord /\ (pointer = target[p] => note' = "open")
    BY <1>0, <1>4, <1>7 DEF NoteOpen, Goto, TypeOK, SyncKinds, NoteTheLock, Guarded
  <2>2. Locks(p)' BY <1>0, <1>4, <1>5, <2>1 DEF Locks
  <2>3. Redoes(p) => Redoes(p)' BY <1>0, <1>4, <2>1 DEF Redoes, Writing, Applied
  <2>. QED BY <1>0, <1>1, <1>2, <1>4, <2>1, <2>2, <2>3, LockWriting DEF PCs, Opening, github, discord
<1>8. CASE Update(p)
  <2>1. x = "closing" /\ UNCHANGED note /\ ~shut'[target[p]] /\ handle'[p] = target[p]
    BY <1>0, <1>4, <1>8 DEF Update, Goto, TypeOK, SyncKinds, ThreadKinds, row
  <2>2. Locks(p)' BY <1>0, <1>2, <1>4, <1>8, <2>1 DEF Locks, Update
  <2>. QED BY <1>0, <1>1, <1>4, <1>5, <2>1, <2>2, LockWriting DEF PCs, Opening, github
<1>. QED BY <1>6, <1>7, <1>8

\* No thread of the item is there to be shut.
LEMMA LockNoThread ==
  ASSUME Calm, NEW p \in Syncs, Working(p), NEW x \in PCs \ {"done", "shut", "note_shut", "closing"},
         \A q \in Syncs : pc'[q] = IF q = p THEN x ELSE pc[q],
         pointer' \notin live'
  PROVE  Locked'
<1>1. Locks(p)' BY DEF Locks
<1>. QED BY <1>1, LockAlone DEF Right

LEMMA LockOpen ==
  ASSUME Calm, NEW p \in Syncs, NEW t \in Threads, Open(p, t) PROVE Locked'
<1>0. /\ TypeOK /\ Working(p) /\ pc[p] = "write" /\ NULL \notin Threads /\ t \notin used
      /\ live' = live \cup {t} /\ target[p] \notin live /\ target[p] \in used \cup {NULL}
      /\ UNCHANGED pointer /\ Points(p)
  BY Found, SyncAssumption DEF Calm, OwedInv, Working, Open, TypeOK, ThreadKinds, row
<1>1. \A q \in Syncs : pc'[q] = IF q = p THEN "claim" ELSE pc[q] BY <1>0 DEF Open, Goto, TypeOK, SyncKinds
<1>2. pointer' \notin live' BY <1>0 DEF Points, TypeOK, ThreadKinds
<1>. QED BY <1>0, <1>1, <1>2, LockNoThread DEF PCs, Opening

\* A delivery's sync raises: it is owed still, and the thread is as it was.
LEMMA LockRaise ==
  ASSUME Calm, Locked, NEW p \in Syncs, Working(p), Rest(p), ~manual[p],
         UNCHANGED <<owed, stored>>,
         pointer' \in live' /\ shut'[pointer'] /\ ~Closed[stored] => stored \in owed,
         pointer' \in live' /\ note' = "shut" => shut'[pointer'] \/ stored \in owed
  PROVE  Locked'
<1>1. \A q \in Syncs : pc'[q] = IF q = p THEN "idle" ELSE pc[q] BY Resting DEF Calm, OwedInv
<1>2. Locks(p)' BY <1>1 DEF Locks
<1>3. owed # {} BY LockFound
<1>. QED BY <1>1, <1>2, <1>3, LockAlone

LEMMA LockClaim ==
  ASSUME Calm, Locked, NEW p \in Syncs, Claim(p) \/ Reclaim(p), excuses' = {} PROVE Locked'
<1>0. /\ TypeOK /\ pc[p] \in {"claim", "reclaim"} /\ pc[p] \in Opening /\ ReadBack(p)
      /\ UNCHANGED <<github, stored, last, discord, counts, lost>>
  BY DEF Calm, OwedInv, Claim, Reclaim, Opening
<1>1. /\ Working(p) /\ Writing(p) /\ Points(p) /\ Writes(p) /\ shown[p] # 0
  BY <1>0, Found, Brought DEF Working, Writing, Opening
<1>2. handle[p] # NULL /\ NULL \notin live BY <1>0, SyncAssumption DEF TypeOK, Places, ThreadKinds
<1>3. /\ pointer \notin live /\ pointer' \in {handle[p], NULL}
      /\ (pc[p] = "reclaim" => pointer' = handle[p])
      /\ pointer' = handle[p] => note' = "unknown"
  BY <1>0, <1>1, <1>2 DEF Claim, Reclaim, Swap, Points
<1>4. ~shut[handle[p]] BY <1>0, <1>1 DEF Writes
<1>5. CASE pointer' = handle[p] /\ Goto(p, "closing") /\ UNCHANGED local
  <2>1. \A q \in Syncs : pc'[q] = IF q = p THEN "closing" ELSE pc[q] BY <1>0, <1>5 DEF TypeOK, SyncKinds, Goto
  <2>2. Locks(p)' BY <1>0, <1>3, <1>4, <1>5, <2>1 DEF Locks, local, discord
  <2>3. manual[p] => ToBeShut(p)' BY <1>1, <1>5, <2>1 DEF ToBeShut, Judged, local
  <2>4. ~manual[p] => owed' # {} BY <1>0, <1>1, LockFound DEF github
  <2>. QED BY <1>0, <1>1, <1>3, <1>4, <1>5, <2>1, <2>2, <2>3, <2>4, LockAlone DEF discord
<1>6. CASE pointer' = handle[p] /\ Raise(p)
  <2>1. ~manual[p] /\ Rest(p) BY <1>6 DEF Raise
  <2>. QED BY <1>0, <1>1, <1>3, <1>4, <1>6, <2>1, LockRaise DEF github, discord
<1>7. CASE pointer' = NULL /\ Goto(p, "reclaim")
  <2>1. \A q \in Syncs : pc'[q] = IF q = p THEN "reclaim" ELSE pc[q] BY <1>0, <1>7 DEF TypeOK, SyncKinds, Goto
  <2>. QED BY <1>0, <1>1, <1>2, <1>7, <2>1, LockNoThread DEF PCs, Opening, discord
<1>. QED BY <1>0, <1>3, <1>5, <1>6, <1>7 DEF ReadBack

LEMMA LockClaimFails ==
  ASSUME Calm, Locked, NEW p \in Syncs, ClaimFails(p) PROVE Locked'
<1>0. /\ TypeOK /\ pc[p] \in {"claim", "reclaim"} /\ pc[p] \in Opening
      /\ UNCHANGED <<github, stored, last, lock, discord, local, excuses, lost>>
      /\ \A q \in Syncs : pc'[q] = IF q = p THEN "take_back" ELSE pc[q]
  BY DEF Calm, OwedInv, ClaimFails, Opening, Goto, TypeOK, SyncKinds
<1>1. /\ Working(p) /\ Writing(p) /\ Points(p) /\ Writes(p) /\ shown[p] # 0
  BY <1>0, Found, Brought DEF Working, Writing, Opening
<1>2. pointer' \in live => pointer' = handle[p] /\ note' = "unknown"
  BY <1>0, <1>1, SyncAssumption DEF ClaimFails, Swap, Points, TypeOK, ThreadKinds
<1>3. ~shut[handle[p]] BY <1>0, <1>1 DEF Writes
<1>4. Locks(p)' BY <1>0 DEF Locks
<1>5. manual[p] => ToBeShut(p)' BY <1>0, <1>1 DEF ToBeShut, Judged, local
<1>6. ~manual[p] => owed' # {} BY <1>0, <1>1, LockFound DEF github
<1>. QED BY <1>0, <1>1, <1>2, <1>3, <1>4, <1>5, <1>6, LockAlone DEF discord

LEMMA LockTakeBack ==
  ASSUME Calm, Locked, NEW p \in Syncs, TakeBack(p), excuses' = {} PROVE Locked'
<1>0. /\ TypeOK /\ pc[p] = "take_back" /\ TakeAway(p) /\ Rest(p) /\ ~manual[p]
      /\ UNCHANGED <<github, row>> BY DEF Calm, OwedInv, TakeBack, Raise
<1>1. /\ Working(p) /\ pc[p] \in Opening /\ Points(p) /\ Writes(p) BY <1>0, Found DEF Working, Opening
<1>2. pointer \in live' => pointer = handle[p] /\ UNCHANGED discord
  BY <1>0, <1>1 DEF TakeAway, Remove, Points, discord
<1>3. pointer \in live /\ note = "shut" => shut[pointer] \/ stored \in owed
  BY <1>0, <1>1, LockFound DEF ToBeShut
<1>. QED BY <1>0, <1>1, <1>2, <1>3, LockRaise DEF Writes, github, row, discord

\* Whether the thread is to be shut is read off the payload it shows.
LEMMA LockClosing ==
  ASSUME Calm, Locked, NEW p \in Syncs, Closing(p) PROVE Locked'
<1>. DEFINE x == IF Closed[shown[p]] /\ (rebuild[p] \/ StillCurrent(p)) THEN "shut" ELSE "done"
<1>0. /\ TypeOK /\ Working(p) /\ pc[p] = "closing" /\ shown[p] # 0
      /\ UNCHANGED <<github, row, lock, discord, local, book>>
      /\ \A q \in Syncs : pc'[q] = IF q = p THEN x ELSE pc[q]
  BY DEF Calm, OwedInv, Working, Closing, Goto, TypeOK, SyncKinds, Places
<1>1. Locks(p) /\ (Applied(p) \/ Rebuilding(p)) /\ ~Redoes(p)
  BY <1>0, Found, LockFound DEF Carries, Written, Redoes, Writing, Opening
<1>2. shown[p] = stored /\ (x = "shut" <=> Closed[stored])
  <2>1. stored \in Versions /\ Stamp[stored] \in Nat
    BY <1>0, <1>1, SyncAssumption DEF TypeOK, RowKinds, Versions, Applied, Rebuilding
  <2>2. Stamp[stored] >= Stamp[stored] BY <2>1
  <2>. QED BY <1>1, <2>2 DEF Applied, Rebuilding, StillCurrent
<1>. HIDE DEF x
<1>3. pc'[p] = x /\ x \in {"shut", "done"} BY <1>0 DEF x
<1>4. CASE x = "shut"
  <2>1. Locks(p)' BY <1>0, <1>2, <1>3, <1>4 DEF Locks, row
  <2>2. ToBeShut(p) => ToBeShut(p)' BY <1>0, <1>3, <1>4 DEF ToBeShut, Judged, local
  <2>. QED BY <1>0, <1>1, <1>2, <2>1, <2>2, LockFound, LockAlone DEF Right, github, row, discord
<1>5. CASE x = "done"
  <2>0. ~Closed[stored] BY <1>2, <1>5
  <2>1. Locks(p)' BY <1>0, <1>1, <1>2, <1>3, <2>0 DEF Locks, Right, row, discord, local
  <2>. QED BY <1>0, <1>1, <1>2, <2>0, <2>1, LockFound, LockAlone DEF Locks, Right, github, row, discord
<1>. QED BY <1>3, <1>4, <1>5

\* A delivery turned away looks at the row alone.
LEMMA LockSettle ==
  ASSUME Calm, Locked, NEW p \in Syncs, Settle(p) PROVE Locked'
<1>. DEFINE x == IF LockOwed THEN "shut" ELSE "done"
<1>0. /\ TypeOK /\ Working(p) /\ pc[p] = "settle"
      /\ UNCHANGED <<github, row, lock, discord, local, book>>
      /\ \A q \in Syncs : pc'[q] = IF q = p THEN x ELSE pc[q]
  BY DEF Calm, OwedInv, Working, Settle, Goto, TypeOK, SyncKinds
<1>1. TurnedAway(p) /\ ~Redoes(p) /\ ~ToBeShut(p)
  BY <1>0, Found DEF Carries, TurnedAway, ToBeShut, Redoes, Writing, Opening
<1>2. /\ pointer \in live /\ shut[pointer] /\ ~Closed[stored] => stored \in owed
      /\ pointer \in live /\ note = "shut" => shut[pointer] \/ stored \in owed
      /\ Right \/ owed # {} BY <1>0, <1>1, LockFound
<1>3. job[p] # stored /\ shown[p] = 0
  BY <1>0, <1>1, SyncAssumption DEF TurnedAway, TypeOK, RowKinds, SyncKinds
<1>. HIDE DEF x
<1>4. pc'[p] = x /\ x \in {"shut", "done"} /\ (x = "shut" => Closed[stored])
      /\ (x = "done" => note = "shut" \/ ~Closed[stored])
  BY <1>0 DEF x, LockOwed
<1>5. Locks(p)' BY <1>0, <1>2, <1>3, <1>4 DEF Locks, Right, row, discord, local, github
<1>. QED BY <1>0, <1>2, <1>5, LockAlone DEF Right, github, row, discord

LEMMA LockShut ==
  ASSUME Calm, Locked, NEW p \in Syncs, Shut(p), excuses' = {} PROVE Locked'
<1>0. /\ TypeOK /\ Working(p) /\ pc[p] = "shut" /\ NULL \notin live
      /\ UNCHANGED <<github, row, live, used, block, counts, lost>>
  BY SyncAssumption DEF Calm, OwedInv, Working, Shut, TypeOK, ThreadKinds
<1>1. Points(p) /\ Closed[stored] BY <1>0, Found, LockFound DEF Locks
<1>2. CASE handle[p] \in live /\ shut' = [shut EXCEPT ![handle[p]] = TRUE] /\ UNCHANGED local
          /\ Goto(p, "note_shut")
  <2>1. \A q \in Syncs : pc'[q] = IF q = p THEN "note_shut" ELSE pc[q]
    BY <1>0, <1>2 DEF Goto, TypeOK, SyncKinds
  <2>2. shut'[handle[p]] BY <1>0, <1>2 DEF TypeOK, ThreadKinds
  <2>3. pointer' \in live' => shut'[pointer'] BY <1>0, <1>1, <2>2 DEF Points, row
  <2>4. Locks(p)' BY <1>0, <1>1, <1>2, <2>1, <2>2 DEF Locks, row, local
  <2>. QED BY <1>0, <1>1, <2>1, <2>3, <2>4, LockAlone DEF Right, row
<1>3. CASE handle[p] \notin live /\ Raise(p)
  <2>1. ~manual[p] /\ Rest(p) BY <1>3 DEF Raise
  <2>2. pointer' \notin live' BY <1>0, <1>1, <1>3 DEF Points, row
  <2>. QED BY <1>0, <2>1, <2>2, LockRaise DEF github, row
<1>. QED BY <1>2, <1>3 DEF Shut

LEMMA LockNoteShut ==
  ASSUME Calm, Locked, NEW p \in Syncs, NoteShut(p) PROVE Locked'
<1>0. /\ TypeOK /\ Working(p) /\ pc[p] = "note_shut" /\ NULL \notin live
      /\ UNCHANGED <<github, stored, last, pointer, lock, discord, local, book>>
      /\ \A q \in Syncs : pc'[q] = IF q = p THEN "done" ELSE pc[q]
  BY SyncAssumption DEF Calm, OwedInv, Working, NoteShut, TypeOK, ThreadKinds, SyncKinds, Goto
<1>1. Points(p) /\ Closed[stored] /\ (shut[handle[p]] \/ handle[p] \notin live)
  BY <1>0, Found, LockFound DEF Locks
<1>2. pointer \in live => shut[pointer] BY <1>0, <1>1 DEF Points
<1>3. Locks(p)' BY <1>0, <1>1, <1>2 DEF Locks, Right, discord
<1>. QED BY <1>0, <1>1, <1>2, <1>3, LockAlone DEF Right, discord

LEMMA LockFinish ==
  ASSUME Calm, Locked, NEW p \in Syncs, Finish(p) PROVE Locked'
<1>0. /\ TypeOK /\ Working(p) /\ pc[p] = "done" /\ Rest(p) /\ UNCHANGED <<gh, row, discord, book>>
      /\ owed \ {job[p]} \subseteq owed' /\ NULL \notin live
  BY SyncAssumption DEF Calm, OwedInv, Working, Finish, TypeOK, ThreadKinds
<1>1. Points(p) /\ Carries(p) /\ Locks(p) /\ ~Redoes(p) /\ ~ToBeShut(p)
  BY <1>0, Found, LockFound DEF Redoes, Writing, Opening, ToBeShut
<1>2. \A q \in Syncs : pc'[q] = IF q = p THEN "idle" ELSE pc[q] BY <1>0, Resting
<1>3. Locks(p)' BY <1>2 DEF Locks
<1>4. stored \in Nat /\ job[p] \in Nat BY <1>0, SyncAssumption DEF TypeOK, RowKinds, SyncKinds
<1>5. job[p] # stored \/ (Applied(p) /\ shown[p] # 0)
  BY <1>0, <1>1, <1>4 DEF Carries, Judged, Writing, Opening, Written, Rebuilding, TurnedAway
<1>6. /\ pointer \in live /\ shut[pointer] /\ ~Closed[stored] => stored \in owed'
      /\ pointer \in live /\ note = "shut" => shut[pointer] \/ stored \in owed'
  BY <1>0, <1>1, <1>5, LockFound DEF Locks, Points, Right
<1>7. Right \/ owed' # {} BY <1>0, <1>1 DEF Locks
<1>. QED BY <1>0, <1>2, <1>3, <1>6, <1>7, LockAlone DEF Right, row, discord

LEMMA LockCut ==
  ASSUME Calm, Locked, NEW p \in Syncs, Abort(p) \/ Busy(p), excuses' = {} PROVE Locked'
<1>0. TypeOK /\ Rest(p) /\ UNCHANGED <<github, row, discord>> BY DEF Calm, OwedInv, Abort, Busy, Raise
<1>1. CASE ~Working(p)
  <2>1. pc[p] \in {"idle", "waiting"} /\ pc'[p] = "idle" BY <1>0, <1>1, Resting DEF Working
  <2>. QED BY <1>0, <2>1, Resting, LockWaiting
<1>2. CASE Working(p)
  <2>1. ~manual[p] BY <1>2 DEF Abort, Busy, Raise, Working
  <2>. QED BY <1>0, <1>2, <2>1, LockFound, LockRaise DEF Redoes, ToBeShut, github, row, discord
<1>. QED BY <1>1, <1>2

LEMMA LockStep ==
  ASSUME OwedInv, ShownInv, LockInv, [Next]_vars PROVE LockInv'
<1>. SUFFICES ASSUME excuses' = {} PROVE Locked' BY DEF LockInv
<1>0. Calm /\ Locked BY ExcusesGrow DEF Calm, ShownInv, LockInv
<1>1. CASE UNCHANGED vars BY <1>0, <1>1
  DEF Locked, Locks, GivenBack, NoteRight, LockRight, Right, BroughtAgain, Redoes, Writing, Applied,
      ToBeShut, Judged, vars, github, row, discord, local, book
<1>2. CASE Environment BY <1>0, <1>2, LockEnvironment
<1>3. ASSUME NEW p \in Syncs, Take(p) PROVE Locked'
  <2>1. /\ pc[p] = "idle" /\ pc'[p] = "waiting"
        /\ \A q \in Syncs \ {p} : pc'[q] = pc[q] /\ job'[q] = job[q]
        /\ UNCHANGED <<github, row, discord, target, handle, shown, rebuild>>
    BY <1>0, <1>3 DEF Take, SyncByHand, Deliver, Begin, Goto, Calm, OwedInv, TypeOK, SyncKinds
  <2>2. \A q \in Syncs \ {p} : manual'[q] = manual[q]
    BY <1>0, <1>3 DEF Take, SyncByHand, Deliver, Begin, Calm, OwedInv, TypeOK, FlagKinds
  <2>. QED BY <1>0, <2>1, <2>2, LockWaiting
<1>4. ASSUME NEW p \in Syncs, Discard(p) PROVE FALSE BY <1>0, <1>4, Found DEF Discard, Points, Working
<1>5. ASSUME NEW p \in Syncs, Step(p) PROVE Locked'
  BY <1>0, <1>4, <1>5, LockTakeLock, LockVerdict, LockUnlock, LockOpen, LockClaim, LockTakeBack, LockClosing,
    LockSettle, LockShut, LockNoteShut, LockFinish DEF Step
<1>6. ASSUME NEW p \in Syncs, LoseLock(p) \/ UnlockRefused(p) \/ ShutRefused(p)
      PROVE  FALSE BY <1>6 DEF LoseLock, UnlockRefused, ShutRefused
<1>7. ASSUME NEW p \in Syncs, Trouble(p)
      PROVE  Locked' BY <1>0, <1>6, <1>7, LockCut, LockClaimFails DEF Trouble
<1>. QED BY <1>1, <1>2, <1>3, <1>5, <1>7 DEF Next

MirrorInv == OwedInv /\ ShownInv /\ LockInv

\* For every number of versions, syncs, threads, deleted threads and crashes the
\* thread ends as GitHub has the issue: it shows it, and is shut exactly when it
\* is closed, whatever order deliveries come in.  Apart from the excuses the
\* property lists it asks one thing: where commands sync too, no two versions
\* share a second (ItemThreads.write, is_superseded, _settle_a_lock_still_owed).
THEOREM MirroredAtRest ==
  ASSUME MaxManual = 0 \/ OwnSecondEach PROVE Spec => []MirroredWhenQuiet
<1>1. Init => MirrorInv BY OwedInit, ShownInit, LockInit DEF MirrorInv, ShownInv
<1>2. MirrorInv /\ [Next]_vars => MirrorInv' BY OwedStep, ShownStep, LockStep DEF MirrorInv
<1>3. MirrorInv => MirroredWhenQuiet
  <2>. SUFFICES ASSUME MirrorInv, Quiet PROVE MirroredWhenQuiet
    BY DEF MirroredWhenQuiet, ShownWhenQuiet, LockedWhenQuiet
  <2>1. /\ owed = {} /\ ~BroughtAgain /\ (\A p \in Syncs : ~ToBeShut(p)) /\ TypeOK /\ Ordered
        /\ NULL \notin live BY SyncAssumption
    DEF MirrorInv, OwedInv, Quiet, BroughtAgain, Redoes, Writing, Opening, ToBeShut, Judged, TypeOK,
        ThreadKinds
  <2>2. stored = gh BY <2>1, SyncAssumption DEF Ordered, TypeOK, RowKinds
  <2>3. ShownWhenQuiet BY <2>1, <2>2 DEF ShownWhenQuiet, MirrorInv, ShownInv, Shown, ThreadThere, BlockRight
  <2>4. LockedWhenQuiet
    <3>. SUFFICES ASSUME excuses = {}, pointer \in live
                  PROVE  shut[pointer] = Closed[gh] /\ (note = "shut" => shut[pointer])
      BY DEF LockedWhenQuiet
    <3>1. gh \in Versions /\ pointer \in Threads
      BY <2>1, <2>2, SyncAssumption DEF Ordered, TypeOK, RowKinds, ThreadKinds, Versions
    <3>2. shut[pointer] \in BOOLEAN /\ Closed[gh] \in BOOLEAN
      BY <2>1, <3>1, SyncAssumption DEF TypeOK, ThreadKinds
    <3>3. Locked BY DEF MirrorInv, LockInv
    <3>. QED BY <2>1, <2>2, <3>2, <3>3 DEF Locked, GivenBack, NoteRight, LockRight, Right
  <2>. QED BY <2>3, <2>4 DEF MirroredWhenQuiet
<1>. QED BY <1>1, <1>2, <1>3, PTL DEF Spec


----
(* The process, from start to stop. *)

\* Before the stop, what a task needs is open, and none was cancelled.
BeforeTheStop ==
    phase \in {"starting", "serving"} =>
        /\ ~asked /\ cut = {} /\ balked = {} /\ "container" \in opened
        /\ \A t \in Running!Tasks : jobs[t] # "cancelled"
        /\ phase = "starting" => (\A t \in Running!Tasks : jobs[t] = "none") /\ reported = {}
        /\ jobs["bot"] # "none" => "client" \in opened
        /\ reported # {} => halted

\* The stop goes down Steps: the tasks before it have ended, what they need is closed after
\* them, and what is closed by then is closed but for what refused.
DuringTheStop ==
    phase = "closing" =>
        /\ asked /\ step \in 1 .. 9
        /\ (step > 1 => Running!Ended("worker")) /\ (step > 2 => Running!Ended("poller"))
        /\ (step > 3 => Running!Ended("flusher")) /\ (step > 4 => Running!Ended("reminders"))
        /\ (step > 6 => Running!Ended("bot"))
        /\ step <= 5 => (jobs["bot"] # "none" => "client" \in opened)
        /\ step <= 7 => "container" \in opened
        /\ step > 5 => opened \cap {"client"} \subseteq balked
        /\ step > 7 => opened \cap {"container"} \subseteq balked
        /\ step > 8 => opened \cap {"probes"} \subseteq balked
        /\ ("client" \in balked => step > 5) /\ ("container" \in balked => step > 7)
        /\ ("probes" \in balked => step > 8)

AfterTheStop ==
    phase = "closed" =>
        /\ \A t \in Running!Tasks : Running!Ended(t)
        /\ asked => opened \subseteq balked

ProcessKinds ==
    /\ Running!TypeOK
    /\ jobs["bot"] # "busy"

ProcessInv == ProcessKinds /\ BeforeTheStop /\ DuringTheStop /\ AfterTheStop /\ ~strayed

LEMMA ProcessInit == Running!Init => ProcessInv
<1>. SUFFICES ASSUME Running!Init PROVE ProcessInv OBVIOUS
<1>. USE ThreadsAssumption DEF Running!ProcessAssumption, Running!Init
<1>1. Len(Running!Steps) = 8 BY DEF Running!Steps
<1>2. jobs["bot"] = "none" /\ \A t \in Running!Tasks : jobs[t] = "none" BY DEF Running!Tasks
<1>3. Running!TypeOK
  <2>1. /\ jobs \in [Running!Tasks -> {"none", "waiting", "idle", "busy", "over", "died", "cancelled"}]
        /\ opened \subseteq {"client", "container", "probes"} /\ balked \subseteq opened
        /\ cut \subseteq Running!Tasks /\ reported \subseteq Running!Vital
    OBVIOUS
  <2>2. step \in 1 .. (Len(Running!Steps) + 1) /\ deaths \in 0 .. MaxDeaths /\ drops \in 0 .. MaxDrops BY <1>1
  <2>. QED BY <2>1, <2>2 DEF Running!TypeOK
<1>4. BeforeTheStop BY <1>2 DEF BeforeTheStop
<1>. QED BY <1>2, <1>3, <1>4 DEF ProcessInv, ProcessKinds, DuringTheStop, AfterTheStop

LEMMA EightSteps ==
  /\ Len(Running!Steps) = 8 /\ DOMAIN Running!Steps = 1 .. 8
  /\ Running!Steps[1] = "worker" /\ Running!Steps[2] = "poller" /\ Running!Steps[3] = "flusher"
       /\ Running!Steps[4] = "reminders"
  /\ Running!Steps[5] = "client" /\ Running!Steps[6] = "bot" /\ Running!Steps[7] = "container"
       /\ Running!Steps[8] = "probes" BY DEF Running!Steps

\* Which step a stop is at tells what it closes.
LEMMA WhichStep ==
  ASSUME step \in 1 .. 9, NEW s, Running!Closing(s)
  PROVE  /\ phase = "closing" /\ step \in 1 .. 8
         /\ step = 1 => s = "worker"
         /\ step = 2 => s = "poller"
         /\ step = 3 => s = "flusher"
         /\ step = 4 => s = "reminders"
         /\ step = 5 => s = "client"
         /\ step = 6 => s = "bot"
         /\ step = 7 => s = "container"
         /\ step = 8 => s = "probes" BY EightSteps DEF Running!Closing

LEMMA TaskNames ==
    /\ {"worker", "poller", "flusher", "reminders", "bot"} \subseteq Running!Tasks
    /\ \A t \in Running!Tasks : t \in {"worker", "poller", "flusher", "reminders", "bot"}
    /\ Running!Vital \subseteq Running!Tasks
BY DEF Running!Tasks, Running!Loops, Running!Vital

\* A task that becomes something else.
LEMMA BecomesOf ==
  ASSUME ProcessInv, NEW t \in Running!Tasks, NEW what \in {"waiting", "idle", "busy", "over", "died",
         "cancelled"},
         Running!Becomes(t, what), ~Running!Ended(t),
         t = "bot" => what # "busy",
         what = "cancelled" => t \in cut,
         deaths' \in 0 .. MaxDeaths, drops' \in 0 .. MaxDrops, gateway' \in {"away", "up"}, strayed' = FALSE
  PROVE  ProcessInv'
<1>. USE DEF ProcessInv
<1>1. /\ jobs' = [jobs EXCEPT ![t] = what] /\ jobs \in [Running!Tasks -> {"none", "waiting", "idle", "busy",
         "over", "died", "cancelled"}]
      /\ UNCHANGED <<phase, cut, reported, asked, halted, step, opened, balked>>
  BY DEF Running!Becomes, ProcessKinds, Running!TypeOK
<1>2. /\ jobs'[t] = what /\ \A u \in Running!Tasks : u # t => jobs'[u] = jobs[u]
      /\ jobs' \in [Running!Tasks -> {"none", "waiting", "idle", "busy", "over", "died", "cancelled"}]
  BY <1>1
<1>3. jobs[t] # "none" /\ \A u \in Running!Tasks : Running!Ended(u) => Running!Ended(u)'
  BY <1>1, <1>2 DEF Running!Ended
<1>4. ProcessKinds'
  <2>1. jobs'["bot"] # "busy" BY <1>2, TaskNames DEF ProcessKinds
  <2>2. strayed' \in BOOLEAN OBVIOUS
  <2>3. /\ phase' \in {"starting", "serving", "closing", "closed"} /\ cut' \subseteq Running!Tasks
        /\ reported' \subseteq Running!Vital /\ asked' \in BOOLEAN /\ halted' \in BOOLEAN
        /\ step' \in 1 .. (Len(Running!Steps) + 1)
        /\ opened' \subseteq {"client", "container", "probes"} /\ balked' \subseteq opened'
    BY <1>1 DEF Running!TypeOK, ProcessKinds
  <2>4. Running!TypeOK' BY <1>2, <2>2, <2>3 DEF Running!TypeOK
  <2>. QED BY <2>1, <2>4 DEF ProcessKinds
<1>5. BeforeTheStop' BY <1>1, <1>2, <1>3, TaskNames DEF BeforeTheStop
<1>6. DuringTheStop' BY <1>1, <1>2, <1>3, TaskNames DEF DuringTheStop
<1>7. AfterTheStop' BY <1>1, <1>2, <1>3, TaskNames DEF AfterTheStop
<1>. QED BY <1>4, <1>5, <1>6, <1>7

LEMMA ProcessStep == ProcessInv /\ [Running!Next]_(Running!vars) => ProcessInv'
<1>. SUFFICES ASSUME ProcessInv, [Running!Next]_(Running!vars) PROVE ProcessInv' OBVIOUS
<1>. USE ThreadsAssumption DEF Running!ProcessAssumption, ProcessInv
<1>0. /\ deaths \in 0 .. MaxDeaths /\ drops \in 0 .. MaxDrops /\ gateway \in {"away", "up"}
      /\ jobs \in [Running!Tasks -> {"none", "waiting", "idle", "busy", "over", "died", "cancelled"}]
      /\ step \in 1 .. 9 BY EightSteps DEF ProcessKinds, Running!TypeOK
<1>00. strayed = FALSE BY DEF ProcessKinds, Running!TypeOK
<1>1. CASE UNCHANGED Running!vars
  BY <1>1 DEF Running!vars, ProcessKinds, Running!TypeOK, BeforeTheStop, DuringTheStop, AfterTheStop,
    Running!Ended
<1>2. CASE Running!Refuse
  <2>1. ProcessKinds' BY <1>2 DEF Running!Refuse, ProcessKinds, Running!TypeOK
  <2>2. BeforeTheStop' /\ DuringTheStop' BY <1>2 DEF Running!Refuse, BeforeTheStop, DuringTheStop
  <2>3. AfterTheStop' BY <1>2 DEF Running!Refuse, BeforeTheStop, AfterTheStop, Running!Ended
  <2>. QED BY <1>2, <2>1, <2>2, <2>3 DEF Running!Refuse
<1>3. ASSUME NEW token \in BOOLEAN, NEW polling \in BOOLEAN, Running!Start(token, polling) PROVE ProcessInv'
  <2>1. /\ \A t \in Running!Tasks : jobs'[t] \in {"none", "waiting", "idle"}
        /\ jobs' \in [Running!Tasks -> {"none", "waiting", "idle", "busy", "over", "died", "cancelled"}]
        /\ jobs'["bot"] = IF token THEN "waiting" ELSE "none"
    <3>. DEFINE j(t) == CASE t \in {"bot", "reminders"} -> IF token THEN "waiting" ELSE "none"
                         [] t = "worker" -> IF token THEN "waiting" ELSE "idle"
                         [] t = "poller" -> IF polling THEN "idle" ELSE "none"
                         [] t = "flusher" -> "idle"
    <3>1. jobs' = [t \in Running!Tasks |-> j(t)] BY <1>3 DEF Running!Start
    <3>2. \A t \in Running!Tasks : j(t) \in {"none", "waiting", "idle"} BY TaskNames
    <3>3. j("bot") = IF token THEN "waiting" ELSE "none" OBVIOUS
    <3>. HIDE DEF j
    <3>. QED BY <3>1, <3>2, <3>3, TaskNames
  <2>2. ProcessKinds'
    <3>1. jobs'["bot"] # "busy" BY <2>1
    <3>2. opened' \subseteq {"client", "container", "probes"} /\ balked' \subseteq opened'
      BY <1>3 DEF Running!Start, ProcessKinds, Running!TypeOK
    <3>3. Running!TypeOK' BY <1>3, <2>1, <3>2 DEF Running!Start, ProcessKinds, Running!TypeOK
    <3>. QED BY <3>1, <3>3 DEF ProcessKinds
  <2>3. BeforeTheStop'
    <3>1. /\ "container" \in opened' /\ (token => "client" \in opened')
          /\ phase' = "serving" /\ ~asked' /\ cut' = {} /\ balked' = {} /\ reported' = {}
      BY <1>3 DEF Running!Start, BeforeTheStop
    <3>. QED BY <2>1, <3>1 DEF BeforeTheStop
  <2>4. DuringTheStop' /\ AfterTheStop' /\ ~strayed' BY <1>3 DEF Running!Start, DuringTheStop, AfterTheStop
  <2>. QED BY <2>2, <2>3, <2>4
<1>4. CASE Running!Connects
  <2>1. "bot" \in Running!Tasks /\ Running!Becomes("bot", "idle") /\ ~Running!Ended("bot")
    BY <1>4, TaskNames DEF Running!Connects, Running!Ended
  <2>. QED BY <1>00, <1>0, <1>4, <2>1, BecomesOf DEF Running!Connects
<1>5. CASE Running!Loses
  <2>1. "bot" \in Running!Tasks /\ Running!Becomes("bot", "waiting") /\ ~Running!Ended("bot")
    BY <1>5, TaskNames DEF Running!Loses, Running!Ended
  <2>2. drops' \in 0 .. MaxDrops BY <1>0, <1>5 DEF Running!Loses
  <2>. QED BY <1>00, <1>0, <1>5, <2>1, <2>2, BecomesOf DEF Running!Loses
<1>6. ASSUME NEW t \in Running!Tasks, Running!Readies(t) PROVE ProcessInv'
  <2>1. Running!Becomes(t, "idle") /\ ~Running!Ended(t) BY <1>6 DEF Running!Readies, Running!Ended
  <2>. QED BY <1>00, <1>0, <1>6, <2>1, BecomesOf DEF Running!Readies
<1>7. ASSUME NEW t \in Running!Tasks, Running!WaitsInVain(t) PROVE ProcessInv'
  <2>1. Running!Becomes(t, "died") /\ ~Running!Ended(t) BY <1>7 DEF Running!WaitsInVain, Running!Ended
  <2>. QED BY <1>00, <1>0, <1>7, <2>1, BecomesOf DEF Running!WaitsInVain
<1>8. ASSUME NEW t \in Running!Tasks, Running!Works(t) PROVE ProcessInv'
  <2>1. Running!Becomes(t, "busy") /\ ~Running!Ended(t) /\ t # "bot" /\ jobs[t] = "idle" /\ ~asked
    BY <1>8 DEF Running!Works, Running!Ended, Running!Loops
  <2>2. phase = "serving"
    <3>1. phase \in {"starting", "serving", "closing", "closed"} BY DEF ProcessKinds, Running!TypeOK
    <3>. QED BY <2>1, <3>1 DEF BeforeTheStop, DuringTheStop, AfterTheStop, Running!Ended
  <2>3. strayed' = FALSE BY <1>00, <1>8, <2>2 DEF Running!Works, BeforeTheStop, Running!Needs
  <2>. QED BY <1>00, <1>0, <1>8, <2>1, <2>3, BecomesOf DEF Running!Works
<1>9. ASSUME NEW t \in Running!Tasks, Running!Rests(t) PROVE ProcessInv'
  <2>1. Running!Becomes(t, "idle") /\ ~Running!Ended(t) /\ t # "bot" /\ jobs[t] = "busy"
    BY <1>9 DEF Running!Rests, Running!Ended, ProcessKinds
  <2>2. Running!Needs(t) \subseteq opened
    <3>1. CASE phase = "serving" BY <3>1 DEF BeforeTheStop, Running!Needs
    <3>2. CASE phase = "closing"
      <4>1. step <= 4 BY <1>0, <2>1, <3>2, TaskNames DEF DuringTheStop, Running!Ended
      <4>. QED BY <1>0, <3>2, <4>1 DEF DuringTheStop, Running!Needs
    <3>3. phase \in {"serving", "closing"}
      BY <2>1 DEF ProcessKinds, Running!TypeOK, BeforeTheStop, AfterTheStop, Running!Ended
    <3>. QED BY <3>1, <3>2, <3>3
  <2>3. strayed' = FALSE BY <1>00, <1>9, <2>2 DEF Running!Rests
  <2>. QED BY <1>00, <1>0, <1>9, <2>1, <2>3, BecomesOf DEF Running!Rests
<1>10. ASSUME NEW t \in Running!Tasks, Running!Stops(t) PROVE ProcessInv'
  <2>1. Running!Becomes(t, "over") /\ ~Running!Ended(t) BY <1>10 DEF Running!Stops, Running!Ended
  <2>. QED BY <1>00, <1>0, <1>10, <2>1, BecomesOf DEF Running!Stops
<1>11. ASSUME NEW t \in Running!Tasks, Running!Dies(t) PROVE ProcessInv'
  <2>1. Running!Becomes(t, "died") /\ ~Running!Ended(t) BY <1>11 DEF Running!Dies
  <2>2. deaths' \in 0 .. MaxDeaths BY <1>0, <1>11 DEF Running!Dies
  <2>. QED BY <1>00, <1>0, <1>11, <2>1, <2>2, BecomesOf DEF Running!Dies
<1>12. ASSUME NEW t \in Running!Tasks, Running!Unwinds(t) PROVE ProcessInv'
  <2>1. Running!Becomes(t, "cancelled") /\ ~Running!Ended(t) /\ t \in cut BY <1>12 DEF Running!Unwinds
  <2>2. jobs[t] = "busy" => "container" \in opened
    <3>1. phase = "closing" /\ jobs[t] = "busy" => step <= 4
      BY <1>0, TaskNames DEF DuringTheStop, Running!Ended, ProcessKinds
    <3>. QED BY <1>0, <2>1, <3>1 DEF ProcessKinds, Running!TypeOK, BeforeTheStop, DuringTheStop, AfterTheStop
  <2>3. strayed' = FALSE BY <1>00, <1>12, <2>2 DEF Running!Unwinds
  <2>. QED BY <1>00, <1>0, <1>12, <2>1, <2>3, BecomesOf DEF Running!Unwinds
<1>13. ASSUME NEW t \in Running!Tasks, Running!Reports(t) PROVE ProcessInv'
  <2>. USE <1>13 DEF Running!Reports
  <2>1. ProcessKinds'
    <3>1. halted' \in BOOLEAN BY DEF ProcessKinds, Running!TypeOK
    <3>2. reported' \subseteq Running!Vital BY DEF ProcessKinds, Running!TypeOK
    <3>. QED BY <3>1, <3>2 DEF ProcessKinds, Running!TypeOK
  <2>2. BeforeTheStop' BY DEF BeforeTheStop
  <2>3. DuringTheStop' /\ AfterTheStop' BY DEF DuringTheStop, AfterTheStop, Running!Ended
  <2>. QED BY <2>1, <2>2, <2>3
<1>14. CASE Running!Asked
  <2>. USE <1>14 DEF Running!Asked
  <2>1. ProcessKinds' BY EightSteps DEF ProcessKinds, Running!TypeOK
  <2>2. DuringTheStop' BY DEF BeforeTheStop, DuringTheStop
  <2>. QED BY <2>1, <2>2 DEF BeforeTheStop, AfterTheStop
<1>15. ASSUME NEW t \in Running!Tasks, Running!Passes(t) PROVE ProcessInv'
  <2>. USE <1>15 DEF Running!Passes, Running!Onwards
  <2>1. /\ phase = "closing" /\ step \in 1 .. 8 /\ step \notin {5, 7, 8}
        /\ (step = 1 => t = "worker") /\ (step = 2 => t = "poller") /\ (step = 3 => t = "flusher")
        /\ (step = 4 => t = "reminders") /\ (step = 6 => t = "bot") /\ step' = step + 1
    BY <1>0, WhichStep, TaskNames
  <2>2. ProcessKinds' BY <2>1, EightSteps DEF ProcessKinds, Running!TypeOK
  <2>3. DuringTheStop' BY <2>1 DEF DuringTheStop, Running!Ended
  <2>. QED BY <2>1, <2>2, <2>3 DEF BeforeTheStop, AfterTheStop
<1>16. ASSUME NEW t \in Running!Tasks, Running!Cuts(t) PROVE ProcessInv'
  <2>. USE <1>16 DEF Running!Cuts
  <2>1. phase = "closing" BY DEF Running!Closing
  <2>2. ProcessKinds' BY DEF ProcessKinds, Running!TypeOK
  <2>3. DuringTheStop' BY DEF DuringTheStop, Running!Ended
  <2>. QED BY <2>1, <2>2, <2>3 DEF BeforeTheStop, AfterTheStop
<1>17. ASSUME NEW what \in {"client", "container", "probes"}, Running!Closes(what) PROVE ProcessInv'
  <2>1. /\ phase = "closing" /\ phase' = "closing" /\ step \in {5, 7, 8} /\ step' = step + 1
        /\ (step = 5 => what = "client") /\ (step = 7 => what = "container") /\ (step = 8 => what = "probes")
    BY <1>0, <1>17, WhichStep DEF Running!Closes, Running!Onwards
  <2>2. /\ \/ opened' = opened \ {what} /\ balked' = balked
           \/ opened' = opened /\ balked' = balked \cup {what} /\ what \in opened
        /\ deaths' \in 0 .. MaxDeaths BY <1>0, <1>17 DEF Running!Closes
  <2>3. /\ jobs' \in [Running!Tasks -> {"none", "waiting", "idle", "busy", "over", "died", "cancelled"}]
        /\ \A t \in Running!Tasks : t # "bot" => jobs'[t] = jobs[t]
        /\ (jobs'["bot"] = jobs["bot"] \/ (jobs["bot"] # "none" /\ jobs'["bot"] = "over"))
    BY <1>0, <1>17, TaskNames DEF Running!Closes, Running!Ended
  <2>4. \A t \in Running!Tasks : Running!Ended(t) => Running!Ended(t)' BY <2>3 DEF Running!Ended
  <2>5. ProcessKinds'
    <3>0. opened \subseteq {"client", "container", "probes"} /\ balked \subseteq opened
      BY DEF ProcessKinds, Running!TypeOK
    <3>1. balked' \subseteq opened'
      <4>1. what \notin balked BY <1>17, <2>1 DEF DuringTheStop
      <4>2. balked \subseteq opened BY <3>0
      <4>. QED BY ONLY <2>2, <4>1, <4>2
    <3>2. step' \in 1 .. 9 BY <2>1
    <3>6. opened' \subseteq {"client", "container", "probes"} BY <2>2, <3>0
    <3>5. gateway' \in {"away", "up"} BY <1>0, <1>17 DEF Running!Closes
    <3>3. jobs'["bot"] # "busy" BY <2>3 DEF ProcessKinds
    <3>4. UNCHANGED <<phase, cut, reported, asked, halted, drops, strayed>> BY <1>17 DEF Running!Closes
    <3>. QED BY <2>2, <2>3, <3>1, <3>2, <3>3, <3>4, <3>5, <3>6, EightSteps DEF ProcessKinds, Running!TypeOK
  <2>6. DuringTheStop'
    <3>1. asked' /\ step' \in 1 .. 9 BY <1>17, <2>1 DEF Running!Closes, DuringTheStop
    <3>2. /\ (step' > 1 => Running!Ended("worker")') /\ (step' > 2 => Running!Ended("poller")')
          /\ (step' > 3 => Running!Ended("flusher")') /\ (step' > 4 => Running!Ended("reminders")')
          /\ (step' > 6 => Running!Ended("bot")')
      BY <2>1, <2>4, TaskNames DEF DuringTheStop
    <3>3. /\ step' <= 5 => (jobs'["bot"] # "none" => "client" \in opened')
          /\ step' <= 7 => "container" \in opened'
      BY <2>1, <2>2 DEF DuringTheStop
    <3>4. /\ step' > 5 => opened' \cap {"client"} \subseteq balked'
          /\ step' > 7 => opened' \cap {"container"} \subseteq balked'
          /\ step' > 8 => opened' \cap {"probes"} \subseteq balked'
      BY <2>1, <2>2 DEF DuringTheStop
    <3>5. /\ ("client" \in balked' => step' > 5) /\ ("container" \in balked' => step' > 7)
          /\ ("probes" \in balked' => step' > 8) BY <2>1, <2>2 DEF DuringTheStop
    <3>. QED BY <3>1, <3>2, <3>3, <3>4, <3>5 DEF DuringTheStop
  <2>. QED BY <1>17, <2>1, <2>5, <2>6 DEF Running!Closes, BeforeTheStop, AfterTheStop
<1>18. CASE Running!Gone
  <2>. USE <1>18 DEF Running!Gone
  <2>1. phase = "closing" /\ step = 9 BY <1>0, EightSteps
  <2>2. ProcessKinds' BY DEF ProcessKinds, Running!TypeOK
  <2>3. AfterTheStop'
    <3>1. \A t \in Running!Tasks : Running!Ended(t) BY <2>1, TaskNames DEF DuringTheStop
    <3>2. opened \subseteq balked BY <2>1 DEF DuringTheStop, ProcessKinds, Running!TypeOK
    <3>. QED BY <3>1, <3>2 DEF AfterTheStop, Running!Ended
  <2>. QED BY <2>2, <2>3 DEF BeforeTheStop, DuringTheStop
<1>. QED BY <1>1, <1>2, <1>3, <1>4, <1>5, <1>6, <1>7, <1>8, <1>9, <1>10, <1>11, <1>12, <1>13, <1>14, <1>15,
     <1>16, <1>17, <1>18 DEF Running!Next

LEMMA ProcessAre == ProcessInv => Running!TypeOK /\ Running!StopsInOrder
BY DEF ProcessInv, ProcessKinds, BeforeTheStop, AfterTheStop, Running!StopsInOrder

----
(* What /health says. *)

\* The database's last answer is of now while it answers, and its last refusal while it does not;
\* what was found at the last probe was so at that moment or later.
FoundSo ==
    /\ answered <= now /\ failing <= now
    /\ IF database = "answers" THEN answered = now ELSE failing = now
    /\ probedAt <= now
    /\ probedAt # 0 => probedAt <= IF reachable THEN answered ELSE failing

HealthInv == Probing!TypeOK /\ FoundSo /\ misled = FALSE /\ crowded = FALSE

LEMMA HealthInit == Probing!Init => HealthInv
<1>. SUFFICES ASSUME Probing!Init PROVE HealthInv OBVIOUS
<1>. USE ThreadsAssumption DEF Probing!HealthAssumption, Probing!Init
<1>1. Probing!TypeOK
  <2>1. /\ now \in 1 .. LastHour /\ swings \in 0 .. MaxTurns /\ answered \in 0 .. LastHour
        /\ failing \in 0 .. LastHour /\ probedAt \in 0 .. LastHour /\ since \in 0 .. LastHour
    OBVIOUS
  <2>2. caller \in [Callers -> {"elsewhere", "waiting", "probing"}] /\ probing \in Callers \cup {NULL} OBVIOUS
  <2>. QED BY <2>1, <2>2 DEF Probing!TypeOK
<1>. QED BY <1>1 DEF HealthInv, FoundSo

LEMMA HealthAre == HealthInv => Probing!TypeOK /\ Probing!AnswersAsItFound
BY DEF HealthInv, Probing!AnswersAsItFound

\* What is told of a database that was so a moment ago misleads nobody.
LEMMA ToldRight ==
  ASSUME HealthInv, NEW c \in Callers, NEW r \in BOOLEAN, Probing!Tells(c, r),
         (Probing!Fresh /\ r = reachable) \/ r = (database = "answers")
  PROVE  misled' = FALSE /\ caller' \in [Callers -> {"elsewhere", "waiting", "probing"}]
<1>. USE ThreadsAssumption DEF Probing!HealthAssumption, HealthInv
<1>1. /\ now \in Nat \ {0} /\ answered \in Nat /\ failing \in Nat /\ probedAt \in Nat
      /\ ProbeEvery \in Nat \ {0} /\ ProbeTimeout \in Nat \ {0}
      /\ misled \in BOOLEAN /\ caller \in [Callers -> {"elsewhere", "waiting", "probing"}]
  BY DEF Probing!TypeOK
<1>2. Probing!Lately(IF r THEN answered ELSE failing)
  <2>1. CASE Probing!Fresh /\ r = reachable
    <3>1. probedAt # 0 /\ now - probedAt < ProbeEvery /\ probedAt <= IF r THEN answered ELSE failing
      BY <2>1 DEF Probing!Fresh, FoundSo
    <3>. QED BY <1>1, <3>1 DEF Probing!Lately
  <2>2. CASE r = (database = "answers")
    <3>1. (IF r THEN answered ELSE failing) = now BY <2>2 DEF FoundSo
    <3>. QED BY <1>1, <3>1 DEF Probing!Lately
  <2>. QED BY <2>1, <2>2
<1>3. ~Probing!Misleads(r) BY <1>2 DEF Probing!Misleads, Probing!Healthy
<1>4. misled' = (misled \/ Probing!Misleads(r)) /\ caller' = [caller EXCEPT ![c] = "elsewhere"]
  BY DEF Probing!Tells
<1>5. misled' = FALSE BY <1>3, <1>4
<1>. QED BY <1>1, <1>4, <1>5

LEMMA HealthStep == HealthInv /\ [Probing!Next]_(Probing!vars) => HealthInv'
<1>. SUFFICES ASSUME HealthInv, [Probing!Next]_(Probing!vars) PROVE HealthInv' OBVIOUS
<1>. USE ThreadsAssumption DEF Probing!HealthAssumption, HealthInv
<1>0. /\ now \in 1 .. LastHour /\ now \in Nat /\ LastHour \in Nat /\ swings \in 0 .. MaxTurns
      /\ answered \in 0 .. LastHour /\ failing \in 0 .. LastHour /\ MaxTurns \in Nat
      /\ probedAt \in 0 .. LastHour /\ since \in 0 .. LastHour
  BY DEF Probing!TypeOK
<1>1. CASE UNCHANGED Probing!vars
  BY <1>1 DEF Probing!vars, Probing!world, Probing!cache, Probing!TypeOK, FoundSo
<1>2. CASE Probing!Tick
  <2>. USE <1>2 DEF Probing!Tick, Probing!Sees, Probing!cache
  <2>1. now' \in 1 .. LastHour /\ answered' \in 0 .. LastHour /\ failing' \in 0 .. LastHour BY <1>0
  <2>2. Probing!TypeOK' BY <2>1 DEF Probing!TypeOK
  <2>3. FoundSo' BY <1>0 DEF FoundSo
  <2>. QED BY <2>2, <2>3
<1>3. CASE Probing!Turn
  <2>1. swings' \in 0 .. MaxTurns /\ UNCHANGED <<now, Probing!cache, caller, misled, crowded>>
    BY <1>0, <1>3 DEF Probing!Turn
  <2>2. CASE Probing!DatabaseTurns
    <3>. USE <2>1, <2>2 DEF Probing!DatabaseTurns, Probing!Sees, Probing!cache
    <3>1. answered' \in 0 .. LastHour /\ failing' \in 0 .. LastHour BY <1>0
    <3>2. Probing!TypeOK' BY <3>1 DEF Probing!TypeOK
    <3>3. FoundSo' BY <1>0 DEF FoundSo
    <3>. QED BY <3>2, <3>3
  <2>3. CASE Probing!WorkerEnds BY <2>1, <2>3 DEF Probing!WorkerEnds, Probing!cache, Probing!TypeOK, FoundSo
  <2>4. CASE Probing!GatewayTurns
    <3>1. bot' \in {"none", "away", "up", "ended"} BY <2>4 DEF Probing!GatewayTurns
    <3>. QED BY <2>1, <2>4, <3>1 DEF Probing!GatewayTurns, Probing!cache, Probing!TypeOK, FoundSo
  <2>. QED BY <1>3, <2>2, <2>3, <2>4 DEF Probing!Turn
<1>4. ASSUME NEW c \in Callers, Probing!Asks(c) PROVE HealthInv'
  <2>. USE <1>4 DEF Probing!Asks, Probing!world, Probing!cache
  <2>1. misled' = FALSE /\ caller' \in [Callers -> {"elsewhere", "waiting", "probing"}]
    <3>1. CASE Probing!Fresh
      <4>1. reachable \in BOOLEAN BY DEF Probing!TypeOK
      <4>. QED BY <3>1, <4>1, ToldRight
    <3>2. CASE ~Probing!Fresh BY <3>2 DEF Probing!TypeOK
    <3>. QED BY <3>1, <3>2
  <2>. QED BY <2>1 DEF Probing!TypeOK, FoundSo
<1>5. ASSUME NEW c \in Callers, Probing!Enters(c) PROVE HealthInv'
  <2>. USE <1>5 DEF Probing!Enters, Probing!Answered, Probing!world
  <2>1. CASE Probing!Fresh
    <3>1. reachable \in BOOLEAN BY DEF Probing!TypeOK
    <3>2. misled' = FALSE /\ caller' \in [Callers -> {"elsewhere", "waiting", "probing"}]
      BY <2>1, <3>1, ToldRight
    <3>. QED BY <2>1, <3>2 DEF Probing!TypeOK, FoundSo, Probing!cache
  <2>2. CASE ~Probing!Fresh
    <3>1. crowded' = FALSE BY <2>2 DEF Probing!Begins
    <3>2. since' \in 0 .. LastHour BY <1>0, <2>2 DEF Probing!Begins
    <3>3. caller' \in [Callers -> {"elsewhere", "waiting", "probing"}] /\ probing' \in Callers \cup {NULL}
      BY <2>2 DEF Probing!Begins, Probing!TypeOK
    <3>. QED BY <2>2, <3>1, <3>2, <3>3 DEF Probing!Begins, Probing!TypeOK, FoundSo
  <2>. QED BY <2>1, <2>2
<1>6. ASSUME NEW c \in Callers, Probing!Finds(c) PROVE HealthInv'
  <2>. USE <1>6 DEF Probing!Finds, Probing!world
  <2>1. reachable' = (database = "answers") /\ reachable' \in BOOLEAN OBVIOUS
  <2>2. misled' = FALSE /\ caller' \in [Callers -> {"elsewhere", "waiting", "probing"}]
    <3>1. Probing!Tells(c, reachable') OBVIOUS
    <3>2. \A r \in BOOLEAN : r = (database = "answers") /\ Probing!Tells(c, r) =>
              misled' = FALSE /\ caller' \in [Callers -> {"elsewhere", "waiting", "probing"}]
      BY ToldRight
    <3>. QED BY <2>1, <3>1, <3>2
  <2>3. probedAt' \in 0 .. LastHour /\ since' \in 0 .. LastHour BY <1>0
  <2>4. Probing!TypeOK' BY <2>1, <2>2, <2>3 DEF Probing!TypeOK
  <2>5. FoundSo' BY <1>0, <2>1 DEF FoundSo
  <2>. QED BY <2>2, <2>4, <2>5
<1>7. ASSUME NEW c \in Callers, Probing!HangsUp(c) PROVE HealthInv'
  <2>. USE <1>7 DEF Probing!HangsUp, Probing!world
  <2>1. since' \in 0 .. LastHour BY <1>0
  <2>2. caller' \in [Callers -> {"elsewhere", "waiting", "probing"}] /\ probing' \in Callers \cup {NULL}
    BY DEF Probing!TypeOK
  <2>. QED BY <2>1, <2>2 DEF Probing!TypeOK, FoundSo
<1>. QED BY <1>1, <1>2, <1>3, <1>4, <1>5, <1>6, <1>7 DEF Probing!Next

----
(* What is said of checks and reviews. *)

RunKinds   == [id : Nat, state : {"none", "running", "ran", "skipped"}]
Letters    == [kind : {"suite", "approved", "removed"}, sha : Saying!Heads, of : Apps \cup Reviewers]
SuiteKeys  == {<<"checks", Saying!Cardinality(R), i>> : R \in SUBSET RunKinds, i \in Nat}
AgreedKeys == {Saying!ApprovedKey(h) : h \in Saying!Heads}
Stages     == {"idle", "listing", "claiming", "posting", "handing_back"}
Duties     == [step : Stages, letter : Letters \cup {NULL}, sha : Saying!Heads \cup {0},
               key : SuiteKeys \cup AgreedKeys \cup {Saying!NoKey}, torn : BOOLEAN]

GitHubKinds ==
    /\ head \in Saying!Heads /\ shutBy \in BOOLEAN /\ waiting \subseteq Reviewers /\ lastRun \in Nat
    /\ runs \in [Saying!Heads -> [Apps -> RunKinds]]
    /\ verdict \in [Reviewers -> {"none", "approved", "changes", "dismissed"}]
    /\ agreedOn \in 0 .. head /\ everAgreed \subseteq Saying!Heads

\* A run's id is its own, and none was started on a commit that is not there yet.
RunsAreNumbered ==
    /\ \A h \in Saying!Heads, a \in Apps :
          runs[h][a].id <= lastRun /\ (h > head => runs[h][a] = Saying!NoRun)
    /\ \A h, g \in Saying!Heads, a, b \in Apps :
          runs[h][a].id = runs[g][b].id /\ runs[h][a].id # 0 => h = g

HasKey(t)  == task[t].step \in {"claiming", "posting", "handing_back"}
Holding(t) == task[t].step \in {"posting", "handing_back"}
OfSuite(t) == task[t].letter.kind = "suite"

TaskKinds ==
    /\ letters \subseteq Letters
    /\ task \in [Handlers -> Duties]
    /\ \A t \in Handlers :
          /\ task[t].step = "idle" => task[t] = Saying!AtRest
          /\ task[t].step # "idle" => task[t].letter \in Letters /\ task[t].sha \in Saying!Heads
          /\ ~HasKey(t) => task[t].key = Saying!NoKey

\* A key is made of what was read of the commit the delivery is at.
KeysAreOfTheirCommits ==
    \A t \in Handlers :
        /\ task[t].step # "idle" /\ OfSuite(t) => task[t].letter.sha = task[t].sha
        /\ HasKey(t) /\ ~OfSuite(t) => task[t].key = Saying!ApprovedKey(task[t].sha)
        /\ HasKey(t) /\ OfSuite(t) =>
              /\ task[t].key \in SuiteKeys /\ task[t].key[3] \in 1 .. lastRun
              /\ \A h \in Saying!Heads, a \in Apps : runs[h][a].id = task[t].key[3] => h = task[t].sha

\* What was read without a change in between was so.
ReadWhole ==
    \A t \in Handlers :
        /\ task[t].step = "listing" /\ ~OfSuite(t) /\ ~task[t].torn =>
              task[t].sha = head /\ ~shutBy /\ waiting = {}
        /\ task[t].step \in {"claiming", "posting"} /\ ~OfSuite(t) /\ ~task[t].torn =>
              task[t].sha \in everAgreed

\* The agreement there is was agreed on.
Agreements ==
    /\ agreedOn # 0 => agreedOn = head /\ Saying!Agreed
    /\ Saying!Agreed => head \in everAgreed

\* A key is one delivery's while it is held, said once, and not forgotten.
ClaimsHold ==
    /\ \A t \in Handlers : Holding(t) => task[t].key \in notes
    /\ \A t, u \in Handlers : Holding(t) /\ Holding(u) /\ t # u => task[t].key # task[u].key
    /\ \A t \in Handlers : Holding(t) => task[t].key \notin DOMAIN lines \/ task[t].key \in excused

Heard(k) == k \in DOMAIN lines \cup excused

LinesHold ==
    /\ DOMAIN lines \subseteq notes \cup excused
    /\ \A k \in DOMAIN lines : lines[k] = 1 \/ k \in excused
    /\ \A k \in notes : Heard(k) \/ \E t \in Handlers : Holding(t) /\ task[t].key = k

\* What is to be said of the commit, and has not been, is on its way.
SuiteUnderWay(K) ==
    \/ \E l \in letters : l.kind = "suite" /\ l.sha = head
    \/ \E t \in Handlers : task[t].step = "listing" /\ OfSuite(t) /\ task[t].sha = head
    \/ \E t \in Handlers : HasKey(t) /\ OfSuite(t) /\ task[t].sha = head /\ task[t].key = K
SuitesAreSaid ==
    LET R == Saying!Listed(head) IN
    Saying!Reportable(R) => Heard(Saying!CheckKey(R)) \/ <<"shut", head>> \in excused
      \/ SuiteUnderWay(Saying!CheckKey(R))

AgreementUnderWay ==
    \/ \E l \in letters : l.kind # "suite"
    \/ \E t \in Handlers : task[t].step = "listing" /\ ~OfSuite(t) /\ task[t].sha = head
    \/ \E t \in Handlers : HasKey(t) /\ ~OfSuite(t) /\ task[t].sha = head
AgreementIsSaid == agreedOn # 0 => Heard(Saying!ApprovedKey(head)) \/ AgreementUnderWay

VerdictsInv ==
    /\ GitHubKinds /\ RunsAreNumbered /\ TaskKinds /\ KeysAreOfTheirCommits /\ ReadWhole
    /\ Agreements /\ ClaimsHold /\ LinesHold /\ SuitesAreSaid /\ AgreementIsSaid /\ Saying!AgreedWhenSaid

LEMMA VerdictsAre == VerdictsInv => Saying!TypeOK /\ Saying!SaidOnceWhenQuiet /\ Saying!AgreedWhenSaid
<1>. SUFFICES ASSUME VerdictsInv PROVE Saying!TypeOK /\ Saying!SaidOnceWhenQuiet /\ Saying!AgreedWhenSaid
  OBVIOUS
<1>. USE DEF VerdictsInv
<1>1. Saying!TypeOK
  <2>1. /\ head \in Saying!Heads /\ shutBy \in BOOLEAN /\ waiting \subseteq Reviewers
        /\ verdict \in [Reviewers -> {"none", "approved", "changes", "dismissed"}]
        /\ agreedOn \in 0 .. head /\ everAgreed \subseteq Saying!Heads
    BY DEF GitHubKinds
  <2>2. \A h \in Saying!Heads, a \in Apps : runs[h][a].id \in 0 .. lastRun
    BY DEF GitHubKinds, RunsAreNumbered, RunKinds
  <2>3. \A l \in letters : l.kind \in {"suite", "approved", "removed"} /\ l.sha \in Saying!Heads
    BY DEF TaskKinds, Letters
  <2>4. \A t \in Handlers : task[t].key # Saying!NoKey <=> task[t].step \in {"claiming", "posting",
        "handing_back"}
    <3>1. \A k \in SuiteKeys \cup AgreedKeys : k # Saying!NoKey
      BY DEF SuiteKeys, AgreedKeys, Saying!ApprovedKey, Saying!NoKey
    <3>2. \A t \in Handlers : HasKey(t) => task[t].key \in SuiteKeys \cup AgreedKeys
      BY DEF HasKey, TaskKinds, KeysAreOfTheirCommits, AgreedKeys
    <3>. QED BY <3>1, <3>2 DEF HasKey, TaskKinds
  <2>5. \A t \in Handlers : task[t].step \in {"posting", "handing_back"} => task[t].key \in notes
    BY DEF ClaimsHold, Holding
  <2>6. DOMAIN lines \subseteq notes \cup excused BY DEF LinesHold
  <2>. QED BY <2>1, <2>2, <2>3, <2>4, <2>5, <2>6 DEF Saying!TypeOK
<1>2. Saying!SaidOnceWhenQuiet
  <2>1. \A k \in DOMAIN lines : lines[k] = 1 \/ k \in excused BY DEF LinesHold
  <2>2. ASSUME Saying!Quiet, Saying!Reportable(Saying!Listed(head))
        PROVE  Saying!Said(Saying!CheckKey(Saying!Listed(head))) \/ {Saying!CheckKey(Saying!Listed(head)),
               <<"shut", head>>} \cap excused # {}
    <3>1. ~SuiteUnderWay(Saying!CheckKey(Saying!Listed(head))) BY <2>2 DEF Saying!Quiet, SuiteUnderWay, HasKey
    <3>. QED BY <2>2, <3>1 DEF SuitesAreSaid, Heard, Saying!Said
  <2>3. ASSUME Saying!Quiet, agreedOn # 0 PROVE Saying!Said(Saying!ApprovedKey(head))
                 \/ Saying!ApprovedKey(head) \in excused
    <3>1. ~AgreementUnderWay BY <2>3 DEF Saying!Quiet, AgreementUnderWay, HasKey
    <3>. QED BY <2>3, <3>1 DEF AgreementIsSaid, Heard, Saying!Said
  <2>. QED BY <2>1, <2>2, <2>3 DEF Saying!SaidOnceWhenQuiet
<1>. QED BY <1>1, <1>2

LEMMA VerdictsInit == Saying!Init => VerdictsInv
<1>. SUFFICES ASSUME Saying!Init PROVE VerdictsInv OBVIOUS
<1>. USE ThreadsAssumption DEF Saying!VerdictsAssumption, Saying!Init
<1>1. Saying!Heads \subseteq Nat /\ 1 \in Saying!Heads /\ \A h \in Saying!Heads : h >= 1 BY DEF Saying!Heads
<1>2. Saying!NoRun \in RunKinds /\ Saying!NoRun.id = 0 /\ Saying!NoRun.state = "none"
  BY DEF Saying!NoRun, RunKinds
<1>3. Saying!AtRest \in Duties /\ Saying!AtRest.step = "idle" /\ Saying!AtRest.key = Saying!NoKey
  BY DEF Saying!AtRest, Duties, Stages
<1>4. \A t \in Handlers : task[t] = Saying!AtRest OBVIOUS
<1>5. \A h \in Saying!Heads, a \in Apps : runs[h][a] = Saying!NoRun OBVIOUS
<1>6. GitHubKinds
  <2>1. agreedOn \in 0 .. head OBVIOUS
  <2>. QED BY <1>1, <1>2, <2>1 DEF GitHubKinds
<1>7. RunsAreNumbered
  <2>1. \A h \in Saying!Heads, a \in Apps : runs[h][a].id = 0 /\ runs[h][a] = Saying!NoRun BY <1>2, <1>5
  <2>. QED BY <2>1 DEF RunsAreNumbered
<1>8. TaskKinds /\ KeysAreOfTheirCommits /\ ReadWhole
  BY <1>3, <1>4 DEF TaskKinds, KeysAreOfTheirCommits, ReadWhole, HasKey
<1>9. ClaimsHold /\ LinesHold
  <2>1. DOMAIN lines = {} OBVIOUS
  <2>. QED BY <1>3, <1>4, <2>1 DEF ClaimsHold, LinesHold, Holding
<1>10. Agreements /\ AgreementIsSaid /\ Saying!AgreedWhenSaid
  <2>1. Saying!Verdicts = {} BY DEF Saying!Verdicts
  <2>. QED BY <2>1 DEF Agreements, Saying!Agreed, AgreementIsSaid, Saying!AgreedWhenSaid
<1>11. SuitesAreSaid
  <2>1. Saying!Listed(head) = {} BY <1>1, <1>2, <1>5 DEF Saying!Listed
  <2>. QED BY <2>1 DEF SuitesAreSaid, Saying!Reportable
<1>. QED BY <1>6, <1>7, <1>8, <1>9, <1>10, <1>11 DEF VerdictsInv

(* What keys tell. *)

\* Numbers that are bounded have a largest.
LEMMA LargestOf ==
  ASSUME NEW I, NEW n \in Nat, I \subseteq 0 .. n, I # {} PROVE \E i \in I : \A j \in I : j <= i
<1>. DEFINE short == {n - i : i \in I}
<1>1. short \subseteq Nat /\ short # {}
  <2>1. \A i \in I : n - i \in Nat OBVIOUS
  <2>. QED BY <2>1
<1>2. PICK m \in short : \A k \in short : <<k, m>> \notin OpToRel(<, Nat)
  BY <1>1, NatLessThanWellFounded, WFMin
<1>3. \A k \in short : ~(k < m) BY <1>1, <1>2 DEF OpToRel
<1>4. PICK i \in I : m = n - i BY <1>2
<1>5. \A j \in I : n - j \in short OBVIOUS
<1>6. \A j \in I : j <= i
  <2>1. \A j \in I : ~(n - j < n - i) BY <1>3, <1>4, <1>5
  <2>. QED BY <2>1
<1>. QED BY <1>6

LEMMA KeysDiffer ==
  /\ \A k \in SuiteKeys : k[1] = "checks"
  /\ \A h : Saying!ApprovedKey(h)[1] = "approved" /\ Saying!ApprovedKey(h)[2] = h
  /\ \A k \in SuiteKeys, h \in Saying!Heads : k # Saying!ApprovedKey(h)
<1>1. \A k \in SuiteKeys : k[1] = "checks" BY DEF SuiteKeys
<1>2. \A h : Saying!ApprovedKey(h)[1] = "approved" /\ Saying!ApprovedKey(h)[2] = h BY DEF Saying!ApprovedKey
<1>. QED BY <1>1, <1>2

\* The key of a commit's checks carries the id of a run on it.
LEMMA KeyOfCommit ==
  ASSUME GitHubKinds, RunsAreNumbered, NEW h \in Saying!Heads, Saying!Reportable(Saying!Listed(h))
  PROVE  /\ Saying!CheckKey(Saying!Listed(h)) \in SuiteKeys
              /\ Saying!CheckKey(Saying!Listed(h))[3] \in 1 .. lastRun
         /\ \E a \in Apps : runs[h][a].id = Saying!CheckKey(Saying!Listed(h))[3]
         /\ \A g \in Saying!Heads, a \in Apps : runs[g][a].id = Saying!CheckKey(Saying!Listed(h))[3]
              => g = h
<1>. DEFINE R == Saying!Listed(h)  I == {r.id : r \in R}
<1>1. \A a \in Apps : runs[h][a] \in RunKinds /\ runs[h][a].id \in Nat /\ runs[h][a].id <= lastRun
  BY DEF GitHubKinds, RunsAreNumbered, RunKinds
<1>2. R # {} /\ R \subseteq RunKinds /\ \A r \in R : r.id # 0 BY <1>1 DEF Saying!Listed, Saying!Reportable
<1>3. lastRun \in Nat /\ I \subseteq 0 .. lastRun /\ I # {} /\ \A i \in I : i # 0
  <2>1. \A r \in R : r.id \in 0 .. lastRun BY <1>1 DEF Saying!Listed, GitHubKinds
  <2>2. lastRun \in Nat BY DEF GitHubKinds
  <2>. QED BY <1>2, <2>1, <2>2
<1>4. PICK i \in I : \A j \in I : j <= i BY <1>3, LargestOf
<1>5. Saying!Newest(R) \in I
  <2>1. \E j \in I : \A r \in R : r.id <= j BY <1>4
  <2>. QED BY <2>1 DEF Saying!Newest
<1>6. Saying!CheckKey(R) = <<"checks", Saying!Cardinality(R), Saying!Newest(R)>>
        /\ Saying!CheckKey(R)[3] = Saying!Newest(R) BY DEF Saying!CheckKey
<1>7. Saying!Newest(R) \in Nat /\ Saying!Newest(R) \in 1 .. lastRun BY <1>3, <1>5
<1>8. Saying!CheckKey(R) \in SuiteKeys BY <1>2, <1>6, <1>7 DEF SuiteKeys
<1>9. \E a \in Apps : runs[h][a].id = Saying!Newest(R) BY <1>5 DEF Saying!Listed
<1>10. \A g \in Saying!Heads, a \in Apps : runs[g][a].id = Saying!Newest(R) => g = h
  BY <1>7, <1>9 DEF RunsAreNumbered
<1>. QED BY <1>6, <1>7, <1>8, <1>9, <1>10

(* GitHub's steps. *)

LEMMA TornIs ==
  ASSUME TaskKinds
  PROVE  /\ Saying!Torn \in [Handlers -> Duties]
         /\ \A t \in Handlers :
               /\ Saying!Torn[t].step = task[t].step /\ Saying!Torn[t].letter = task[t].letter
               /\ Saying!Torn[t].sha = task[t].sha /\ Saying!Torn[t].key = task[t].key
               /\ task[t].step # "listing" => Saying!Torn[t] = task[t]
               /\ task[t].step = "listing" => Saying!Torn[t].torn = TRUE
<1>1. \A t \in Handlers : task[t] \in Duties BY DEF TaskKinds
<1>2. \A t \in Handlers : Saying!Torn[t] = IF task[t].step = "listing" THEN [task[t] EXCEPT !.torn = TRUE] ELSE task[t]
  BY DEF Saying!Torn
<1>3. \A t \in Handlers : Saying!Torn[t] \in Duties BY <1>1, <1>2 DEF Duties
<1>4. Saying!Torn \in [Handlers -> Duties] BY <1>3 DEF Saying!Torn
<1>5. \A t \in Handlers : task[t].step = "listing" =>
          /\ Saying!Torn[t] = [task[t] EXCEPT !.torn = TRUE] /\ Saying!Torn[t].step = task[t].step
          /\ Saying!Torn[t].letter = task[t].letter
          /\ Saying!Torn[t].sha = task[t].sha /\ Saying!Torn[t].key = task[t].key
               /\ Saying!Torn[t].torn = TRUE BY <1>1, <1>2 DEF Duties
<1>. QED BY <1>2, <1>4, <1>5

\* A step of GitHub's sends letters, and leaves what is done about them alone.
LEMMA Elsewhere ==
  ASSUME VerdictsInv, letters \subseteq letters', letters' \subseteq Letters,
         UNCHANGED <<notes, lines, excused>>,
         task' = task \/ task' = Saying!Torn,
         everAgreed \subseteq everAgreed'
  PROVE  /\ TaskKinds' /\ ClaimsHold' /\ LinesHold' /\ Saying!AgreedWhenSaid'
         /\ \A t \in Handlers :
               /\ task'[t].step = task[t].step /\ task'[t].letter = task[t].letter
               /\ task'[t].sha = task[t].sha /\ task'[t].key = task[t].key
               /\ task[t].step # "listing" => task'[t] = task[t]
               /\ task[t].step = "listing" => task'[t] = task[t] \/ task'[t].torn
         /\ \A t \in Handlers : HasKey(t)' = HasKey(t) /\ OfSuite(t)' = OfSuite(t)
<1>. USE DEF VerdictsInv
<1>1. /\ task' \in [Handlers -> Duties]
      /\ \A t \in Handlers :
                 /\ task'[t].step = task[t].step /\ task'[t].letter = task[t].letter
                 /\ task'[t].sha = task[t].sha /\ task'[t].key = task[t].key
                 /\ task[t].step # "listing" => task'[t] = task[t]
                 /\ task[t].step = "listing" => task'[t] = task[t] \/ task'[t].torn
  <2>1. CASE task' = task BY <2>1 DEF TaskKinds
  <2>2. CASE task' = Saying!Torn BY <2>2, TornIs
  <2>. QED BY <2>1, <2>2
<1>2. \A t \in Handlers : HasKey(t)' = HasKey(t) /\ OfSuite(t)' = OfSuite(t) /\ Holding(t)' = Holding(t)
  BY <1>1 DEF HasKey, OfSuite, Holding
<1>3. TaskKinds' BY <1>1, <1>2 DEF TaskKinds
<1>4. ClaimsHold' BY <1>1, <1>2 DEF ClaimsHold
<1>5. LinesHold' BY <1>1, <1>2 DEF LinesHold, Heard
<1>6. Saying!AgreedWhenSaid' BY DEF Saying!AgreedWhenSaid
<1>. QED BY <1>1, <1>2, <1>3, <1>4, <1>5, <1>6

LEMMA Reconsiders ==
  ASSUME VerdictsInv, NEW b \in BOOLEAN, Saying!Reconsidered(b), head' \in Saying!Heads
  PROVE  /\ Agreements' /\ agreedOn' \in 0 .. head' /\ everAgreed \subseteq everAgreed'
              /\ everAgreed' \subseteq Saying!Heads
         /\ agreedOn' # 0 => b \/ (agreedOn # 0 /\ head' = head)
<1>. USE DEF VerdictsInv
<1>0. head' \in Nat \ {0} /\ head \in Nat /\ head \in Saying!Heads
  BY ThreadsAssumption DEF Saying!Heads, GitHubKinds, Saying!VerdictsAssumption
<1>1. /\ agreedOn' = IF ~Saying!Agreed' THEN 0 ELSE IF b THEN head' ELSE IF Saying!Agreed
           /\ head' = head THEN agreedOn ELSE 0
      /\ everAgreed' = everAgreed \cup (IF Saying!Agreed' THEN {head'} ELSE {})
  BY DEF Saying!Reconsidered
<1>2. everAgreed' \subseteq Saying!Heads /\ everAgreed \subseteq everAgreed' /\ (Saying!Agreed'
        => head' \in everAgreed') BY <1>1 DEF GitHubKinds
<1>3. agreedOn' # 0 => agreedOn' = head' /\ Saying!Agreed' BY <1>1 DEF Agreements
<1>4. agreedOn' \in 0 .. head'
  <2>1. agreedOn' = 0 \/ agreedOn' = head' BY <1>3
  <2>. QED BY <1>0, <2>1
<1>. QED BY <1>1, <1>2, <1>3, <1>4 DEF Agreements

\* Whoever asks, answers or moves the pull request.
LEMMA TornStep ==
  ASSUME VerdictsInv, NEW b \in BOOLEAN, Saying!Reconsidered(b), task' = Saying!Torn,
         head' \in Saying!Heads, head' >= head, head' # head => b = FALSE,
         shutBy' \in BOOLEAN, waiting' \subseteq Reviewers,
         verdict' \in [Reviewers -> {"none", "approved", "changes", "dismissed"}],
         letters \subseteq letters', letters' \subseteq Letters,
         b => \E l \in letters' : l.kind # "suite",
         UNCHANGED <<runs, lastRun, notes, lines, excused>>
  PROVE  VerdictsInv'
<1>. USE DEF VerdictsInv
<1>1. /\ Agreements' /\ agreedOn' \in 0 .. head' /\ everAgreed \subseteq everAgreed'
           /\ everAgreed' \subseteq Saying!Heads
      /\ agreedOn' # 0 => b \/ (agreedOn # 0 /\ head' = head) BY Reconsiders
<1>2. /\ TaskKinds' /\ ClaimsHold' /\ LinesHold' /\ Saying!AgreedWhenSaid'
      /\ \A t \in Handlers :
            /\ task'[t].step = task[t].step /\ task'[t].letter = task[t].letter
            /\ task'[t].sha = task[t].sha /\ task'[t].key = task[t].key
            /\ task[t].step # "listing" => task'[t] = task[t]
      /\ \A t \in Handlers : HasKey(t)' = HasKey(t) /\ OfSuite(t)' = OfSuite(t)
  BY <1>1, Elsewhere
<1>3. \A t \in Handlers : task[t].step = "listing" => task'[t].torn = TRUE BY TornIs
<1>4. GitHubKinds' BY <1>1 DEF GitHubKinds
<1>5. RunsAreNumbered'
  <2>1. head \in Nat /\ head' \in Nat /\ \A h \in Saying!Heads : h \in Nat
    BY ThreadsAssumption DEF Saying!Heads, Saying!VerdictsAssumption, GitHubKinds
  <2>. QED BY <2>1 DEF RunsAreNumbered
<1>6. KeysAreOfTheirCommits' BY <1>2 DEF KeysAreOfTheirCommits
<1>7. ReadWhole' BY <1>1, <1>2, <1>3 DEF ReadWhole
<1>8. SuitesAreSaid'
  <2>1. CASE head' = head
    <3>1. Saying!Listed(head)' = Saying!Listed(head) BY <2>1 DEF Saying!Listed
    <3>2. \A K : SuiteUnderWay(K) => SuiteUnderWay(K)' BY <1>2, <2>1 DEF SuiteUnderWay
    <3>3. Saying!CheckKey(Saying!Listed(head))' = Saying!CheckKey(Saying!Listed(head))
            /\ Saying!Reportable(Saying!Listed(head))' = Saying!Reportable(Saying!Listed(head))
      BY <3>1 DEF Saying!CheckKey, Saying!Reportable, Saying!Pending, Saying!WorthSaying, Saying!Newest
    <3>4. \A K : Heard(K)' = Heard(K) BY DEF Heard
    <3>. QED BY <2>1, <3>2, <3>3, <3>4 DEF SuitesAreSaid
  <2>2. CASE head' # head
    <3>1. head \in Nat /\ head' \in Nat
      BY ThreadsAssumption DEF Saying!Heads, Saying!VerdictsAssumption, GitHubKinds
    <3>2. \A a \in Apps : runs[head'][a] = Saying!NoRun BY <2>2, <3>1 DEF RunsAreNumbered
    <3>3. Saying!Listed(head)' = {} BY <3>2 DEF Saying!Listed, Saying!NoRun
    <3>. QED BY <3>3 DEF SuitesAreSaid, Saying!Reportable
  <2>. QED BY <2>1, <2>2
<1>9. AgreementIsSaid'
  <2>1. CASE agreedOn' = 0 BY <2>1 DEF AgreementIsSaid
  <2>2. CASE b BY <2>2 DEF AgreementIsSaid, AgreementUnderWay
  <2>3. CASE agreedOn # 0 /\ head' = head
    <3>1. AgreementUnderWay => AgreementUnderWay' BY <1>2, <2>3 DEF AgreementUnderWay
    <3>2. Heard(Saying!ApprovedKey(head)) => Heard(Saying!ApprovedKey(head))'
      BY <2>3 DEF Heard, Saying!ApprovedKey
    <3>. QED BY <2>3, <3>1, <3>2 DEF AgreementIsSaid
  <2>. QED BY <1>1, <2>1, <2>2, <2>3
<1>. QED BY <1>1, <1>2, <1>4, <1>5, <1>6, <1>7, <1>8, <1>9

\* An app starts a run, or finishes one.
LEMMA RunStep ==
  ASSUME VerdictsInv, NEW h \in Saying!Heads, NEW a \in Apps, NEW r \in RunKinds,
         runs' = [runs EXCEPT ![h][a] = r],
         \/ r.id = lastRun + 1 /\ lastRun' = lastRun + 1 /\ h = head /\ r.state = "running"
              /\ letters' = letters
         \/ /\ r.id = runs[h][a].id /\ lastRun' = lastRun /\ runs[h][a] # Saying!NoRun
            /\ letters' = letters \cup {[kind |-> "suite", sha |-> h, of |-> a]},
         UNCHANGED <<head, shutBy, waiting, verdict, notes, lines, task, Saying!past, excused>>
  PROVE  VerdictsInv'
<1>. USE DEF VerdictsInv, Saying!past
<1>1. letters \subseteq letters' /\ letters' \subseteq Letters BY DEF TaskKinds, Letters
<1>2. TaskKinds' /\ ClaimsHold' /\ LinesHold' /\ Saying!AgreedWhenSaid' BY <1>1, Elsewhere
<1>3. /\ runs' \in [Saying!Heads -> [Apps -> RunKinds]] /\ runs'[h][a] = r
      /\ \A g \in Saying!Heads, c \in Apps : g # h \/ c # a => runs'[g][c] = runs[g][c]
  BY DEF GitHubKinds
<1>4. head \in Nat /\ lastRun \in Nat /\ lastRun' \in Nat /\ lastRun' >= lastRun
        /\ \A g \in Saying!Heads : g \in Nat
  BY ThreadsAssumption DEF Saying!Heads, Saying!VerdictsAssumption, GitHubKinds
<1>5. \A g \in Saying!Heads, c \in Apps : runs[g][c].id \in Nat /\ runs[g][c].id <= lastRun
  BY DEF GitHubKinds, RunsAreNumbered, RunKinds
<1>6. GitHubKinds' BY <1>3, <1>4 DEF GitHubKinds
<1>7. RunsAreNumbered'
  <2>1. \A g \in Saying!Heads, c \in Apps : runs'[g][c].id <= lastRun' /\ (g > head'
          => runs'[g][c] = Saying!NoRun)
    <3>. SUFFICES ASSUME NEW g \in Saying!Heads, NEW c \in Apps
                  PROVE  runs'[g][c].id <= lastRun' /\ (g > head' => runs'[g][c] = Saying!NoRun)
      OBVIOUS
    <3>1. CASE g = h /\ c = a
      <4>1. r.id <= lastRun' BY <1>4, <1>5
      <4>2. ~(h > head) BY <1>4 DEF RunsAreNumbered
      <4>. QED BY <1>3, <3>1, <4>1, <4>2
    <3>2. CASE ~(g = h /\ c = a)
      <4>1. runs'[g][c] = runs[g][c] BY <1>3, <3>2
      <4>2. runs[g][c].id <= lastRun' BY <1>4, <1>5
      <4>. QED BY <4>1, <4>2 DEF RunsAreNumbered
    <3>. QED BY <3>1, <3>2
  <2>2. ASSUME NEW g \in Saying!Heads, NEW k \in Saying!Heads, NEW c \in Apps, NEW d \in Apps,
               runs'[g][c].id = runs'[k][d].id, runs'[g][c].id # 0
        PROVE  g = k
    <3>1. CASE r.id = lastRun + 1
      <4>1. \A x \in Saying!Heads, y \in Apps : runs'[x][y].id = lastRun + 1 => x = h /\ y = a
        BY <1>3, <1>4, <1>5
      <4>. QED BY <1>3, <2>2, <3>1, <4>1 DEF RunsAreNumbered
    <3>2. CASE r.id = runs[h][a].id
      <4>1. \A x \in Saying!Heads, y \in Apps : runs'[x][y].id = runs[x][y].id BY <1>3, <3>2
      <4>. QED BY <2>2, <4>1 DEF RunsAreNumbered
    <3>. QED BY <3>1, <3>2
  <2>. QED BY <2>1, <2>2 DEF RunsAreNumbered
<1>8. KeysAreOfTheirCommits'
  <2>. SUFFICES ASSUME NEW t \in Handlers, HasKey(t), OfSuite(t)
                PROVE  /\ task[t].key[3] \in 1 .. lastRun'
                       /\ \A g \in Saying!Heads, c \in Apps : runs'[g][c].id = task[t].key[3]
                            => g = task[t].sha
    BY DEF KeysAreOfTheirCommits, HasKey, OfSuite
  <2>1. /\ task[t].key[3] \in 1 .. lastRun
        /\ \A g \in Saying!Heads, c \in Apps : runs[g][c].id = task[t].key[3] => g = task[t].sha
    BY DEF KeysAreOfTheirCommits
  <2>2. task[t].key[3] # lastRun + 1 /\ task[t].key[3] \in 1 .. lastRun' BY <1>4, <2>1
  <2>3. ASSUME NEW g \in Saying!Heads, NEW c \in Apps, runs'[g][c].id = task[t].key[3] PROVE g = task[t].sha
    <3>1. runs'[g][c].id = runs[g][c].id \/ runs'[g][c].id = lastRun + 1 BY <1>3
    <3>. QED BY <2>1, <2>2, <2>3, <3>1
  <2>. QED BY <2>2, <2>3
<1>9. ReadWhole' BY DEF ReadWhole, OfSuite
<1>10. Agreements' BY DEF Agreements, Saying!Agreed, Saying!Verdicts
<1>11. SuitesAreSaid'
  <2>1. CASE h # head
    <3>1. \A c \in Apps : runs'[head][c] = runs[head][c] BY <1>3, <2>1 DEF GitHubKinds
    <3>2. Saying!Listed(head)' = Saying!Listed(head) BY <3>1 DEF Saying!Listed
    <3>3. \A K : SuiteUnderWay(K) => SuiteUnderWay(K)' BY <1>1 DEF SuiteUnderWay, HasKey, OfSuite
    <3>4. Saying!CheckKey(Saying!Listed(head))' = Saying!CheckKey(Saying!Listed(head))
            /\ Saying!Reportable(Saying!Listed(head))' = Saying!Reportable(Saying!Listed(head))
      BY <3>2 DEF Saying!CheckKey, Saying!Reportable, Saying!Pending, Saying!WorthSaying, Saying!Newest
    <3>5. \A K : Heard(K)' = Heard(K) BY DEF Heard
    <3>. QED BY <3>3, <3>4, <3>5 DEF SuitesAreSaid
  <2>2. CASE h = head /\ r.id = lastRun + 1 /\ r.state = "running"
    <3>1. r \in Saying!Listed(head)'
      <4>1. head' = head /\ a \in {b \in Apps : runs'[head][b].id # 0} /\ runs'[head][a] = r
        BY <1>3, <1>4, <2>2
      <4>. QED BY <4>1 DEF Saying!Listed
    <3>. QED BY <2>2, <3>1 DEF SuitesAreSaid, Saying!Reportable, Saying!Pending
  <2>3. CASE h = head /\ [kind |-> "suite", sha |-> h, of |-> a] \in letters'
    <3>1. \A K : SuiteUnderWay(K)' BY <2>3 DEF SuiteUnderWay
    <3>. QED BY <3>1 DEF SuitesAreSaid
  <2>. QED BY <2>1, <2>2, <2>3
<1>12. AgreementIsSaid'
  BY <1>1 DEF AgreementIsSaid, AgreementUnderWay, Heard, Saying!ApprovedKey, HasKey, OfSuite
<1>. QED BY <1>2, <1>6, <1>7, <1>8, <1>9, <1>10, <1>11, <1>12

(* The steps of a delivery. *)

\* What a delivery may be at.
Proper(d) ==
    /\ d \in Duties
    /\ d.step = "idle" => d = Saying!AtRest
    /\ d.step # "idle" =>
          /\ d.letter \in Letters /\ d.sha \in Saying!Heads
          /\ d.letter.kind = "suite" => d.letter.sha = d.sha
    /\ d.step \in {"idle", "listing"} => d.key = Saying!NoKey
    /\ d.step \in {"claiming", "posting", "handing_back"} /\ d.letter.kind # "suite"
         => d.key = Saying!ApprovedKey(d.sha)
    /\ d.step \in {"claiming", "posting", "handing_back"} /\ d.letter.kind = "suite" =>
          /\ d.key \in SuiteKeys /\ d.key[3] \in 1 .. lastRun
          /\ \A h \in Saying!Heads, a \in Apps : runs[h][a].id = d.key[3] => h = d.sha
    /\ d.step = "listing" /\ d.letter.kind # "suite" /\ ~d.torn => d.sha = head /\ ~shutBy /\ waiting = {}
    /\ d.step \in {"claiming", "posting"} /\ d.letter.kind # "suite" /\ ~d.torn => d.sha \in everAgreed

LEMMA ProperNow == ASSUME VerdictsInv, NEW t \in Handlers PROVE Proper(task[t])
<1>. USE DEF VerdictsInv
<1>1. task[t] \in Duties /\ task[t].step \in Stages BY DEF TaskKinds, Duties
<1>2. HasKey(t) <=> task[t].step \notin {"idle", "listing"} BY <1>1 DEF HasKey, Stages
<1>3. /\ task[t].step = "idle" => task[t] = Saying!AtRest
      /\ task[t].step # "idle" => task[t].letter \in Letters /\ task[t].sha \in Saying!Heads
      /\ task[t].step \in {"idle", "listing"} => task[t].key = Saying!NoKey
  BY <1>2 DEF TaskKinds
<1>4. /\ task[t].step # "idle" /\ OfSuite(t) => task[t].letter.sha = task[t].sha
      /\ HasKey(t) /\ ~OfSuite(t) => task[t].key = Saying!ApprovedKey(task[t].sha)
      /\ HasKey(t) /\ OfSuite(t) =>
            /\ task[t].key \in SuiteKeys /\ task[t].key[3] \in 1 .. lastRun
            /\ \A h \in Saying!Heads, a \in Apps : runs[h][a].id = task[t].key[3] => h = task[t].sha
  BY DEF KeysAreOfTheirCommits
<1>5. /\ task[t].step = "listing" /\ ~OfSuite(t) /\ ~task[t].torn =>
            task[t].sha = head /\ ~shutBy /\ waiting = {}
      /\ task[t].step \in {"claiming", "posting"} /\ ~OfSuite(t) /\ ~task[t].torn =>
            task[t].sha \in everAgreed BY DEF ReadWhole
<1>. QED BY <1>1, <1>2, <1>3, <1>4, <1>5 DEF Proper, HasKey, OfSuite

LEMMA RestIsProper ==
  Proper(Saying!AtRest) /\ Saying!AtRest.step = "idle" /\ Saying!AtRest.key = Saying!NoKey
    /\ Saying!AtRest.sha = 0 /\ Saying!AtRest.torn = FALSE
<1>1. Saying!AtRest \in Duties /\ Saying!AtRest.step = "idle" /\ Saying!AtRest.key = Saying!NoKey
        /\ Saying!AtRest.sha = 0 /\ Saying!AtRest.torn = FALSE
  BY DEF Saying!AtRest, Duties, Stages
<1>. QED BY <1>1 DEF Proper

\* One delivery moves on.
LEMMA DutyStep ==
  ASSUME VerdictsInv, NEW t \in Handlers, task' \in [Handlers -> Duties], Proper(task'[t]),
         \A u \in Handlers : u # t => task'[u] = task[u],
         letters' \subseteq Letters, UNCHANGED <<Saying!hub, Saying!past>>
  PROVE  /\ GitHubKinds' /\ RunsAreNumbered' /\ Agreements' /\ TaskKinds' /\ KeysAreOfTheirCommits'
              /\ ReadWhole'
<1>. USE DEF VerdictsInv, Saying!hub, Saying!past
<1>2. GitHubKinds' /\ RunsAreNumbered' /\ Agreements'
  <2>1. GitHubKinds' BY DEF GitHubKinds
  <2>2. RunsAreNumbered' BY DEF RunsAreNumbered
  <2>3. Saying!Agreed' = Saying!Agreed BY DEF Saying!Agreed, Saying!Verdicts
  <2>. QED BY <2>1, <2>2, <2>3 DEF Agreements
<1>3. \A u \in Handlers : Proper(task'[u]) BY ProperNow
<1>4. TaskKinds' BY <1>3 DEF TaskKinds, Proper, HasKey, Duties, Stages
<1>5. KeysAreOfTheirCommits' BY <1>3 DEF KeysAreOfTheirCommits, Proper, HasKey, OfSuite
<1>6. ReadWhole' BY <1>3 DEF ReadWhole, Proper, OfSuite
<1>. QED BY <1>2, <1>4, <1>5, <1>6

\* A delivery that claimed nothing, and has claimed nothing now.
LEMMA NothingHeld ==
  ASSUME VerdictsInv, NEW t \in Handlers, ~Holding(t), ~Holding(t)',
         \A u \in Handlers : u # t => task'[u] = task[u],
         UNCHANGED <<notes, lines, Saying!past>>, excused \subseteq excused'
  PROVE  ClaimsHold' /\ LinesHold' /\ Saying!AgreedWhenSaid'
<1>. USE DEF VerdictsInv, Saying!past
<1>1. \A u \in Handlers : Holding(u)' => u # t /\ Holding(u) /\ task'[u] = task[u] BY DEF Holding
<1>2. \A u \in Handlers : Holding(u) => u # t /\ Holding(u)' /\ task'[u] = task[u] BY DEF Holding
<1>3. ClaimsHold' BY <1>1 DEF ClaimsHold
<1>4. LinesHold' BY <1>2 DEF LinesHold, Heard
<1>. QED BY <1>3, <1>4 DEF Saying!AgreedWhenSaid

\* What is on its way stays so, or is said.
LEMMA StaysUnderWay ==
  ASSUME VerdictsInv, UNCHANGED <<Saying!hub, Saying!past>>,
         DOMAIN lines \subseteq DOMAIN lines', excused \subseteq excused',
         NEW K, K = Saying!CheckKey(Saying!Listed(head)),
         Saying!Reportable(Saying!Listed(head)) /\ SuiteUnderWay(K) => SuiteUnderWay(K)' \/ Heard(K)'
           \/ <<"shut", head>> \in excused',
         Saying!Agreed /\ AgreementUnderWay => AgreementUnderWay' \/ Heard(Saying!ApprovedKey(head))'
  PROVE  SuitesAreSaid' /\ AgreementIsSaid'
<1>. USE DEF VerdictsInv, Saying!hub, Saying!past
<1>1. /\ Saying!CheckKey(Saying!Listed(head))' = K
           /\ Saying!Reportable(Saying!Listed(head))' = Saying!Reportable(Saying!Listed(head))
      /\ head' = head /\ agreedOn' = agreedOn
  BY DEF Saying!CheckKey, Saying!Listed, Saying!Reportable, Saying!Pending, Saying!WorthSaying, Saying!Newest
<1>2. \A k : Heard(k) => Heard(k)' BY DEF Heard
<1>3. SuitesAreSaid' BY <1>1, <1>2 DEF SuitesAreSaid
<1>4. Heard(Saying!ApprovedKey(head)) => Heard(Saying!ApprovedKey(head))' BY <1>1, <1>2 DEF Saying!ApprovedKey
<1>5. AgreementIsSaid' BY <1>1, <1>4 DEF AgreementIsSaid, Agreements
<1>. QED BY <1>3, <1>5

LEMMA ReadItemStep == ASSUME VerdictsInv, NEW t \in Handlers, Saying!ReadItem(t) PROVE VerdictsInv'
<1>. USE DEF Saying!hub, Saying!past
<1>1. PICK l \in letters :
          /\ letters' = letters \ {l}
          /\ IF Saying!Continues(l)
             THEN /\ task' = [task EXCEPT ![t].step = "listing", ![t].letter = l, ![t].sha = head]
                  /\ UNCHANGED excused
             ELSE /\ excused' = IF shutBy /\ l.kind = "suite" /\ l.sha = head
                                THEN excused \cup {<<"shut", head>>} ELSE excused
                  /\ UNCHANGED task BY DEF Saying!ReadItem
<1>2. /\ task[t].step = "idle" /\ task[t] = Saying!AtRest /\ letters' \subseteq Letters /\ l \in Letters
      /\ UNCHANGED <<Saying!hub, notes, lines, turns, moves, troubles, Saying!past>>
                     /\ excused \subseteq excused'
      /\ task \in [Handlers -> Duties] /\ head \in Saying!Heads
  BY <1>1 DEF Saying!ReadItem, VerdictsInv, TaskKinds, GitHubKinds
<1>3. CASE Saying!Continues(l)
  <2>1. task' = [task EXCEPT ![t].step = "listing", ![t].letter = l, ![t].sha = head] BY <1>1, <1>3
  <2>2. /\ task'[t].step = "listing" /\ task'[t].letter = l /\ task'[t].sha = head
        /\ task'[t].key = Saying!NoKey /\ task'[t].torn = FALSE /\ task'[t] \in Duties
    <3>1. task'[t] = [task[t] EXCEPT !.step = "listing", !.letter = l, !.sha = head] BY <1>2, <2>1
    <3>2. task[t] \in Duties /\ "listing" \in Stages /\ l \in Letters \cup {NULL}
            /\ head \in Saying!Heads \cup {0} BY <1>2 DEF Stages
    <3>3. task[t].key = Saying!NoKey /\ task[t].torn = FALSE BY <1>2, RestIsProper
    <3>. QED BY <3>1, <3>2, <3>3 DEF Duties
  <2>3. Proper(task'[t]) BY <1>2, <1>3, <2>2 DEF Proper, Saying!Continues
  <2>4. /\ GitHubKinds' /\ RunsAreNumbered' /\ Agreements' /\ TaskKinds' /\ KeysAreOfTheirCommits'
             /\ ReadWhole'
        /\ \A u \in Handlers : u # t => task'[u] = task[u]
    <3>1. task' \in [Handlers -> Duties] /\ \A u \in Handlers : u # t => task'[u] = task[u]
      BY <1>2, <2>1, <2>2
    <3>. QED BY <1>2, <2>3, <3>1, DutyStep
  <2>5. ClaimsHold' /\ LinesHold' /\ Saying!AgreedWhenSaid' BY <1>2, <2>2, <2>4, NothingHeld DEF Holding
  <2>6. \A K : SuiteUnderWay(K) => SuiteUnderWay(K)'
    <3>. SUFFICES ASSUME NEW K, SuiteUnderWay(K) PROVE SuiteUnderWay(K)' OBVIOUS
    <3>1. ASSUME NEW m \in letters, m.kind = "suite", m.sha = head PROVE SuiteUnderWay(K)'
      BY <1>1, <1>2, <2>2, <2>4, <3>1 DEF SuiteUnderWay, OfSuite
    <3>2. ASSUME NEW u \in Handlers, task[u].step # "idle" PROVE task'[u] = task[u] BY <1>2, <2>4, <3>2
    <3>. QED BY <1>2, <3>1, <3>2 DEF SuiteUnderWay, HasKey, OfSuite
  <2>7. AgreementUnderWay => AgreementUnderWay'
    <3>. SUFFICES ASSUME AgreementUnderWay PROVE AgreementUnderWay' OBVIOUS
    <3>1. ASSUME NEW m \in letters, m.kind # "suite" PROVE AgreementUnderWay'
      BY <1>1, <1>2, <2>2, <2>4, <3>1 DEF AgreementUnderWay, OfSuite
    <3>2. ASSUME NEW u \in Handlers, task[u].step # "idle" PROVE task'[u] = task[u] BY <1>2, <2>4, <3>2
    <3>. QED BY <1>2, <3>1, <3>2 DEF AgreementUnderWay, HasKey, OfSuite
  <2>8. SuitesAreSaid' /\ AgreementIsSaid' BY <1>2, <2>6, <2>7, StaysUnderWay
  <2>. QED BY <2>4, <2>5, <2>8 DEF VerdictsInv
<1>4. CASE ~Saying!Continues(l)
  <2>1. task' = task BY <1>1, <1>4
  <2>2. GitHubKinds' /\ RunsAreNumbered' /\ Agreements' /\ TaskKinds' /\ KeysAreOfTheirCommits' /\ ReadWhole'
    BY <1>2, <2>1, DutyStep, RestIsProper
  <2>3. ClaimsHold' /\ LinesHold' /\ Saying!AgreedWhenSaid' BY <1>2, <2>1, NothingHeld DEF Holding
  <2>4. ASSUME NEW K, SuiteUnderWay(K) PROVE SuiteUnderWay(K)' \/ <<"shut", head>> \in excused'
    <3>1. CASE l.kind = "suite" /\ l.sha = head BY <1>1, <1>4, <3>1 DEF Saying!Continues
    <3>2. CASE ~(l.kind = "suite" /\ l.sha = head)
      BY <1>1, <1>2, <2>1, <2>4, <3>2 DEF SuiteUnderWay, HasKey, OfSuite
    <3>. QED BY <3>1, <3>2
  <2>5. Saying!Agreed /\ AgreementUnderWay => AgreementUnderWay'
    <3>1. CASE l.kind # "suite" BY <1>4, <3>1 DEF Saying!Continues, Saying!Agreed
    <3>2. CASE l.kind = "suite" BY <1>1, <1>2, <2>1, <3>2 DEF AgreementUnderWay, HasKey, OfSuite
    <3>. QED BY <3>1, <3>2
  <2>6. SuitesAreSaid' /\ AgreementIsSaid' BY <1>2, <2>4, <2>5, StaysUnderWay
  <2>. QED BY <2>2, <2>3, <2>6 DEF VerdictsInv
<1>. QED BY <1>3, <1>4

LEMMA ListStep == ASSUME VerdictsInv, NEW t \in Handlers, Saying!List(t) PROVE VerdictsInv'
<1>. USE DEF Saying!hub, Saying!past
<1>. DEFINE l == task[t].letter
            R == Saying!Listed(task[t].sha)
            found == IF l.kind = "suite" THEN Saying!Reportable(R) ELSE Saying!AllApprove(Saying!Verdicts)
            k == IF l.kind = "suite" THEN Saying!CheckKey(R) ELSE Saying!ApprovedKey(task[t].sha)
<1>1. /\ task[t].step = "listing"
      /\ task' = IF ~found THEN [task EXCEPT ![t] = Saying!AtRest]
                 ELSE [task EXCEPT ![t].step = "claiming", ![t].key = k]
      /\ UNCHANGED <<Saying!hub, letters, notes, lines, turns, moves, troubles, Saying!past, excused>>
  BY DEF Saying!List
<1>2. /\ task \in [Handlers -> Duties] /\ letters' \subseteq Letters /\ Proper(task[t])
      /\ l \in Letters /\ task[t].sha \in Saying!Heads
  BY <1>1, ProperNow DEF VerdictsInv, TaskKinds, Proper
<1>3. found => k \in SuiteKeys \cup AgreedKeys BY <1>2, KeyOfCommit DEF VerdictsInv, AgreedKeys
<1>4. /\ task' \in [Handlers -> Duties] /\ \A u \in Handlers : u # t => task'[u] = task[u]
      /\ ~found => task'[t] = Saying!AtRest
      /\ found => /\ task'[t].step = "claiming" /\ task'[t].key = k /\ task'[t].letter = l
                  /\ task'[t].sha = task[t].sha /\ task'[t].torn = task[t].torn
  <2>1. CASE ~found BY <1>1, <1>2, <2>1, RestIsProper DEF Proper
  <2>2. CASE found
    <3>. HIDE DEF k, found
    <3>1. task'[t] = [task[t] EXCEPT !.step = "claiming", !.key = k] /\ task[t] \in Duties BY <1>1, <1>2, <2>2
    <3>2. k \in SuiteKeys \cup AgreedKeys \cup {Saying!NoKey} /\ "claiming" \in Stages
      BY <1>3, <2>2 DEF Stages
    <3>3. /\ task'[t] \in Duties /\ task'[t].step = "claiming" /\ task'[t].key = k
               /\ task'[t].letter = task[t].letter
          /\ task'[t].sha = task[t].sha /\ task'[t].torn = task[t].torn
      BY <3>1, <3>2 DEF Duties
    <3>4. task' \in [Handlers -> Duties] /\ \A u \in Handlers : u # t => task'[u] = task[u]
      BY <1>1, <1>2, <2>2, <3>3
    <3>. QED BY <2>2, <3>3, <3>4
  <2>. QED BY <2>1, <2>2
<1>5. Proper(task'[t])
  <2>1. CASE ~found
    <3>1. task'[t] = Saying!AtRest /\ Saying!AtRest.step = "idle" /\ Proper(Saying!AtRest)
      BY <1>4, <2>1, RestIsProper
    <3>. QED BY <3>1
  <2>2. CASE found /\ l.kind = "suite"
    <3>1. /\ k \in SuiteKeys /\ k[3] \in 1 .. lastRun
          /\ \A h \in Saying!Heads, a \in Apps : runs[h][a].id = k[3] => h = task[t].sha
      BY <1>2, <2>2, KeyOfCommit DEF VerdictsInv
    <3>. HIDE DEF k, found
    <3>. QED BY <1>1, <1>2, <1>4, <2>2, <3>1 DEF Proper
  <2>3. CASE found /\ l.kind # "suite"
    <3>1. ~task[t].torn => task[t].sha \in everAgreed
      BY <1>1, <1>2, <2>3 DEF Proper, Saying!AllApprove, Saying!Agreed, VerdictsInv, Agreements
    <3>2. k = Saying!ApprovedKey(task[t].sha) BY <2>3
    <3>. HIDE DEF k, found
    <3>. QED BY <1>1, <1>2, <1>4, <2>3, <3>1, <3>2 DEF Proper
  <2>. QED BY <2>1, <2>2, <2>3
<1>6. GitHubKinds' /\ RunsAreNumbered' /\ Agreements' /\ TaskKinds' /\ KeysAreOfTheirCommits' /\ ReadWhole'
  BY <1>1, <1>2, <1>4, <1>5, DutyStep
<1>7. ClaimsHold' /\ LinesHold' /\ Saying!AgreedWhenSaid'
  <2>1. ~Holding(t) /\ ~Holding(t)' BY <1>1, <1>4, RestIsProper DEF Holding
  <2>. QED BY <1>1, <1>4, <2>1, NothingHeld
<1>8. ASSUME Saying!Reportable(Saying!Listed(head)), SuiteUnderWay(Saying!CheckKey(Saying!Listed(head)))
      PROVE  SuiteUnderWay(Saying!CheckKey(Saying!Listed(head)))'
  <2>0. Saying!CheckKey(Saying!Listed(head))' = Saying!CheckKey(Saying!Listed(head)) /\ head' = head
          /\ letters' = letters
    BY <1>1 DEF Saying!CheckKey, Saying!Listed, Saying!Newest
  <2>1. ASSUME NEW u \in Handlers, task[u].step = "listing", OfSuite(u), task[u].sha = head
        PROVE  SuiteUnderWay(Saying!CheckKey(Saying!Listed(head)))'
    <3>1. CASE u = t
      <4>1. found /\ k = Saying!CheckKey(Saying!Listed(head)) BY <1>8, <2>1, <3>1 DEF OfSuite
      <4>. HIDE DEF found, k
      <4>2. task'[t].step = "claiming" /\ task'[t].key = Saying!CheckKey(Saying!Listed(head)) /\ OfSuite(t)'
              /\ task'[t].sha = head BY <1>4, <2>1, <3>1, <4>1 DEF OfSuite
      <4>. QED BY <2>0, <4>2 DEF SuiteUnderWay, HasKey
    <3>2. CASE u # t
      <4>1. task'[u] = task[u] BY <1>4, <3>2
      <4>. QED BY <2>0, <2>1, <4>1 DEF SuiteUnderWay, OfSuite
    <3>. QED BY <3>1, <3>2
  <2>2. ASSUME NEW u \in Handlers, HasKey(u), OfSuite(u), task[u].sha = head,
               task[u].key = Saying!CheckKey(Saying!Listed(head))
        PROVE  SuiteUnderWay(Saying!CheckKey(Saying!Listed(head)))'
    <3>1. task'[u] = task[u] BY <1>1, <1>4, <2>2 DEF HasKey
    <3>. QED BY <2>0, <2>2, <3>1 DEF SuiteUnderWay, OfSuite, HasKey
  <2>. QED BY <1>8, <2>0, <2>1, <2>2 DEF SuiteUnderWay
<1>9. ASSUME Saying!Agreed, AgreementUnderWay PROVE AgreementUnderWay'
  <2>0. head' = head /\ letters' = letters BY <1>1
  <2>1. ASSUME NEW u \in Handlers, task[u].step = "listing", ~OfSuite(u), task[u].sha = head
        PROVE  AgreementUnderWay'
    <3>1. CASE u = t
      <4>1. found BY <1>9, <2>1, <3>1 DEF OfSuite, Saying!Agreed, Saying!AllApprove
      <4>. HIDE DEF found, k
      <4>2. task'[t].step = "claiming" /\ ~OfSuite(t)' /\ task'[t].sha = head
        BY <1>4, <2>1, <3>1, <4>1 DEF OfSuite
      <4>. QED BY <2>0, <4>2 DEF AgreementUnderWay, HasKey
    <3>2. CASE u # t
      <4>1. task'[u] = task[u] BY <1>4, <3>2
      <4>. QED BY <2>0, <2>1, <4>1 DEF AgreementUnderWay, OfSuite
    <3>. QED BY <3>1, <3>2
  <2>2. ASSUME NEW u \in Handlers, HasKey(u), ~OfSuite(u), task[u].sha = head PROVE AgreementUnderWay'
    <3>1. task'[u] = task[u] BY <1>1, <1>4, <2>2 DEF HasKey
    <3>. QED BY <2>0, <2>2, <3>1 DEF AgreementUnderWay, OfSuite, HasKey
  <2>. QED BY <1>9, <2>0, <2>1, <2>2 DEF AgreementUnderWay
<1>10. SuitesAreSaid' /\ AgreementIsSaid'
  <2>. DEFINE K == Saying!CheckKey(Saying!Listed(head))
  <2>1. K' = K BY <1>1 DEF Saying!CheckKey, Saying!Listed, Saying!Newest
  <2>2. Saying!Reportable(Saying!Listed(head)) /\ SuiteUnderWay(K) => SuiteUnderWay(K)' BY <1>8
  <2>. HIDE DEF found, k
  <2>. QED BY <1>1, <1>9, <2>1, <2>2, StaysUnderWay
<1>. QED BY <1>6, <1>7, <1>10 DEF VerdictsInv

\* A suite's key is of one commit.
LEMMA SameCommit ==
  ASSUME VerdictsInv, NEW u \in Handlers, HasKey(u), Saying!Reportable(Saying!Listed(head)),
         task[u].key = Saying!CheckKey(Saying!Listed(head))
  PROVE  OfSuite(u) /\ task[u].sha = head
<1>. USE DEF VerdictsInv
<1>1. head \in Saying!Heads BY DEF GitHubKinds
<1>2. Saying!CheckKey(Saying!Listed(head)) \in SuiteKeys
        /\ \E a \in Apps : runs[head][a].id = Saying!CheckKey(Saying!Listed(head))[3]
  BY <1>1, KeyOfCommit
<1>3. Proper(task[u]) BY ProperNow
<1>4. OfSuite(u)
  <2>1. ~OfSuite(u) => task[u].key = Saying!ApprovedKey(task[u].sha) /\ task[u].sha \in Saying!Heads
    BY <1>3 DEF Proper, OfSuite, HasKey
  <2>. QED BY <1>2, <2>1, KeysDiffer
<1>5. \A h \in Saying!Heads, a \in Apps : runs[h][a].id = task[u].key[3] => h = task[u].sha
  BY <1>3, <1>4 DEF Proper, OfSuite, HasKey
<1>. QED BY <1>1, <1>2, <1>4, <1>5

LEMMA SameAgreement ==
  ASSUME VerdictsInv, NEW u \in Handlers, HasKey(u), task[u].key = Saying!ApprovedKey(head)
  PROVE  ~OfSuite(u) /\ task[u].sha = head
<1>1. Proper(task[u]) /\ head \in Saying!Heads BY ProperNow DEF VerdictsInv, GitHubKinds
<1>2. ~OfSuite(u)
  <2>1. OfSuite(u) => task[u].key \in SuiteKeys BY <1>1 DEF Proper, OfSuite, HasKey
  <2>. QED BY <1>1, <2>1, KeysDiffer
<1>3. task[u].key = Saying!ApprovedKey(task[u].sha) BY <1>1, <1>2 DEF Proper, OfSuite, HasKey
<1>4. Saying!ApprovedKey(task[u].sha)[2] = task[u].sha /\ Saying!ApprovedKey(head)[2] = head BY KeysDiffer
<1>. QED BY <1>2, <1>3, <1>4

LEMMA ClaimStep == ASSUME VerdictsInv, NEW t \in Handlers, Saying!Claim(t) PROVE VerdictsInv'
<1>. USE DEF Saying!hub, Saying!past
<1>. DEFINE k == task[t].key
<1>1. /\ task[t].step = "claiming"
      /\ IF k \in notes THEN task' = [task EXCEPT ![t] = Saying!AtRest] /\ UNCHANGED notes
         ELSE notes' = notes \cup {k} /\ task' = [task EXCEPT ![t].step = "posting"]
      /\ UNCHANGED <<Saying!hub, letters, lines, turns, moves, troubles, Saying!past, excused>>
  BY DEF Saying!Claim, Saying!Over
<1>2. /\ task \in [Handlers -> Duties] /\ letters' \subseteq Letters /\ Proper(task[t])
      /\ HasKey(t) /\ ~Holding(t)
  BY <1>1, ProperNow DEF VerdictsInv, TaskKinds, HasKey, Holding
<1>3. /\ Saying!CheckKey(Saying!Listed(head))' = Saying!CheckKey(Saying!Listed(head)) /\ head' = head
           /\ letters' = letters
      /\ lines' = lines /\ excused' = excused
  BY <1>1 DEF Saying!CheckKey, Saying!Listed, Saying!Newest
<1>4. \A K : Heard(K)' = Heard(K) BY <1>3 DEF Heard
<1>5. CASE k \in notes
  <2>1. /\ task' \in [Handlers -> Duties] /\ task'[t] = Saying!AtRest
        /\ \A u \in Handlers : u # t => task'[u] = task[u]
    BY <1>1, <1>2, <1>5, RestIsProper DEF Proper
  <2>2. Proper(task'[t]) /\ ~Holding(t)'
    <3>1. Proper(Saying!AtRest) /\ Saying!AtRest.step = "idle" BY RestIsProper
    <3>. QED BY <2>1, <3>1 DEF Holding
  <2>3. GitHubKinds' /\ RunsAreNumbered' /\ Agreements' /\ TaskKinds' /\ KeysAreOfTheirCommits' /\ ReadWhole'
    BY <1>1, <1>2, <2>1, <2>2, DutyStep
  <2>4. ClaimsHold' /\ LinesHold' /\ Saying!AgreedWhenSaid' BY <1>1, <1>2, <1>3, <1>5, <2>1, <2>2, NothingHeld
  <2>5. Heard(k) \/ \E u \in Handlers : u # t /\ HasKey(u) /\ task[u].key = k /\ task'[u] = task[u]
    BY <1>2, <1>5, <2>1 DEF VerdictsInv, LinesHold, Holding, HasKey
  <2>. HIDE DEF k
  <2>6. ASSUME Saying!Reportable(Saying!Listed(head)), SuiteUnderWay(Saying!CheckKey(Saying!Listed(head)))
        PROVE  SuiteUnderWay(Saying!CheckKey(Saying!Listed(head)))'
                 \/ Heard(Saying!CheckKey(Saying!Listed(head)))'
    <3>1. CASE \E l \in letters : l.kind = "suite" /\ l.sha = head BY <1>3, <3>1 DEF SuiteUnderWay
    <3>2. ASSUME NEW u \in Handlers, task[u].step = "listing", OfSuite(u), task[u].sha = head
          PROVE  SuiteUnderWay(Saying!CheckKey(Saying!Listed(head)))'
      <4>1. task'[u] = task[u] BY <1>1, <2>1, <3>2
      <4>. QED BY <1>3, <3>2, <4>1 DEF SuiteUnderWay, OfSuite
    <3>3. ASSUME NEW u \in Handlers, HasKey(u), task[u].key = Saying!CheckKey(Saying!Listed(head)), u # t
          PROVE  SuiteUnderWay(Saying!CheckKey(Saying!Listed(head)))'
      <4>1. task'[u] = task[u] /\ OfSuite(u) /\ task[u].sha = head BY <2>1, <2>6, <3>3, SameCommit
      <4>. QED BY <1>3, <3>3, <4>1 DEF SuiteUnderWay, OfSuite, HasKey
    <3>4. CASE k = Saying!CheckKey(Saying!Listed(head)) BY <1>3, <1>4, <2>5, <3>3, <3>4
    <3>. QED BY <2>6, <3>1, <3>2, <3>3, <3>4 DEF SuiteUnderWay, k
  <2>7. ASSUME AgreementUnderWay PROVE AgreementUnderWay' \/ Heard(Saying!ApprovedKey(head))'
    <3>1. CASE \E l \in letters : l.kind # "suite" BY <1>3, <3>1 DEF AgreementUnderWay
    <3>2. ASSUME NEW u \in Handlers, task[u].step = "listing" \/ HasKey(u), ~OfSuite(u), task[u].sha = head,
                 u # t
          PROVE  AgreementUnderWay'
      <4>1. task'[u] = task[u] BY <2>1, <3>2
      <4>. QED BY <1>3, <3>2, <4>1 DEF AgreementUnderWay, OfSuite, HasKey
    <3>3. CASE ~OfSuite(t) /\ task[t].sha = head
      <4>1. k = Saying!ApprovedKey(head) BY <1>2, <3>3 DEF Proper, OfSuite, HasKey, k
      <4>2. ASSUME NEW u \in Handlers, u # t, HasKey(u), task[u].key = k PROVE AgreementUnderWay'
        BY <3>2, <4>1, <4>2, SameAgreement
      <4>3. Saying!ApprovedKey(head)' = Saying!ApprovedKey(head) BY <1>3 DEF Saying!ApprovedKey
      <4>. QED BY <1>4, <2>5, <4>1, <4>2, <4>3
    <3>. QED BY <2>7, <3>1, <3>2, <3>3 DEF AgreementUnderWay
  <2>8. SuitesAreSaid' /\ AgreementIsSaid'
    <3>. DEFINE K == Saying!CheckKey(Saying!Listed(head))
    <3>1. K' = K BY <1>3
    <3>2. Saying!Reportable(Saying!Listed(head)) /\ SuiteUnderWay(K) => SuiteUnderWay(K)' \/ Heard(K)' BY <2>6
    <3>. QED BY <1>1, <1>3, <2>7, <3>1, <3>2, StaysUnderWay
  <2>. QED BY <2>3, <2>4, <2>8 DEF VerdictsInv
<1>6. CASE k \notin notes
  <2>1. /\ task' \in [Handlers -> Duties] /\ (\A u \in Handlers : u # t => task'[u] = task[u])
        /\ task'[t].step = "posting" /\ task'[t].key = k /\ task'[t].letter = task[t].letter
        /\ task'[t].sha = task[t].sha /\ task'[t].torn = task[t].torn /\ notes' = notes \cup {k}
    <3>1. task'[t] = [task[t] EXCEPT !.step = "posting"] /\ task[t] \in Duties /\ "posting" \in Stages
      BY <1>1, <1>2, <1>6 DEF Stages
    <3>2. /\ task'[t] \in Duties /\ task'[t].step = "posting" /\ task'[t].key = k
               /\ task'[t].letter = task[t].letter
          /\ task'[t].sha = task[t].sha /\ task'[t].torn = task[t].torn
      BY <3>1 DEF Duties
    <3>3. task' \in [Handlers -> Duties] /\ \A u \in Handlers : u # t => task'[u] = task[u]
      BY <1>1, <1>2, <1>6, <3>2
    <3>. QED BY <1>1, <1>6, <3>2, <3>3
  <2>. HIDE DEF k
  <2>2. Proper(task'[t]) BY <1>1, <1>2, <2>1 DEF Proper, k
  <2>3. GitHubKinds' /\ RunsAreNumbered' /\ Agreements' /\ TaskKinds' /\ KeysAreOfTheirCommits' /\ ReadWhole'
    BY <1>1, <1>2, <2>1, <2>2, DutyStep
  <2>4. /\ Holding(t)'
        /\ \A u \in Handlers : u # t => Holding(u)' = Holding(u) /\ HasKey(u)' = HasKey(u)
             /\ OfSuite(u)' = OfSuite(u)
        /\ HasKey(t)' /\ OfSuite(t)' = OfSuite(t)
    BY <2>1 DEF Holding, HasKey, OfSuite
  <2>5. ClaimsHold'
    <3>1. \A u \in Handlers : Holding(u)' => task'[u].key \in notes' BY <2>1, <2>4 DEF VerdictsInv, ClaimsHold
    <3>2. \A u \in Handlers : u # t /\ Holding(u)' => task'[u].key # k
      BY <1>6, <2>1, <2>4 DEF VerdictsInv, ClaimsHold
    <3>3. \A u, v \in Handlers : Holding(u)' /\ Holding(v)' /\ u # v => task'[u].key # task'[v].key
      BY <2>1, <2>4, <3>2 DEF VerdictsInv, ClaimsHold
    <3>4. k \notin DOMAIN lines \/ k \in excused BY <1>6 DEF VerdictsInv, LinesHold
    <3>5. \A u \in Handlers : Holding(u)' => task'[u].key \notin DOMAIN lines' \/ task'[u].key \in excused'
      BY <1>3, <2>1, <2>4, <3>4 DEF VerdictsInv, ClaimsHold
    <3>. QED BY <3>1, <3>3, <3>5 DEF ClaimsHold
  <2>6. LinesHold'
    <3>1. \A j \in notes' : Heard(j)' \/ \E u \in Handlers : Holding(u)' /\ task'[u].key = j
      BY <1>2, <1>4, <2>1, <2>4 DEF VerdictsInv, LinesHold
    <3>. QED BY <1>3, <2>1, <3>1 DEF VerdictsInv, LinesHold
  <2>7. Saying!AgreedWhenSaid' BY <1>1 DEF VerdictsInv, Saying!AgreedWhenSaid
  <2>8. \A K : SuiteUnderWay(K) => SuiteUnderWay(K)' BY <1>1, <1>3, <2>1, <2>4 DEF SuiteUnderWay, k
  <2>9. AgreementUnderWay => AgreementUnderWay' BY <1>1, <1>3, <2>1, <2>4 DEF AgreementUnderWay, k
  <2>10. SuitesAreSaid' /\ AgreementIsSaid' BY <1>1, <1>3, <2>8, <2>9, StaysUnderWay
  <2>. QED BY <2>3, <2>5, <2>6, <2>7, <2>10 DEF VerdictsInv
<1>. QED BY <1>5, <1>6

\* A delivery that ends, its key said or excused, or its letter with those to be handled.
LEMMA EndStep ==
  ASSUME VerdictsInv, NEW t \in Handlers, task' = [task EXCEPT ![t] = Saying!AtRest],
         UNCHANGED <<Saying!hub, Saying!past>>,
         \/ letters' = letters \cup {task[t].letter}
         \/ letters' = letters /\ HasKey(t) /\ task[t].key \in DOMAIN lines' \cup excused',
         task[t].step # "idle",
         DOMAIN lines \subseteq DOMAIN lines', excused \subseteq excused'
  PROVE  /\ GitHubKinds' /\ RunsAreNumbered' /\ Agreements' /\ TaskKinds' /\ KeysAreOfTheirCommits'
              /\ ReadWhole'
         /\ SuitesAreSaid' /\ AgreementIsSaid'
         /\ ~Holding(t)' /\ \A u \in Handlers : u # t => task'[u] = task[u] /\ Holding(u)' = Holding(u)
<1>. USE DEF Saying!hub, Saying!past
<1>1. /\ task \in [Handlers -> Duties] /\ Proper(task[t]) /\ task[t].letter \in Letters
           /\ letters \subseteq Letters
  BY ProperNow DEF VerdictsInv, TaskKinds, Proper
<1>2. /\ task' \in [Handlers -> Duties] /\ task'[t] = Saying!AtRest
      /\ \A u \in Handlers : u # t => task'[u] = task[u]
  BY <1>1, RestIsProper DEF Proper
<1>3. Proper(task'[t]) /\ ~Holding(t)' /\ \A u \in Handlers : u # t => Holding(u)' = Holding(u)
  <2>1. Proper(Saying!AtRest) /\ Saying!AtRest.step = "idle" BY RestIsProper
  <2>. QED BY <1>2, <2>1 DEF Holding
<1>4. letters \subseteq letters' /\ letters' \subseteq Letters BY <1>1
<1>5. GitHubKinds' /\ RunsAreNumbered' /\ Agreements' /\ TaskKinds' /\ KeysAreOfTheirCommits' /\ ReadWhole'
  BY <1>2, <1>3, <1>4, DutyStep
<1>6. /\ Saying!CheckKey(Saying!Listed(head))' = Saying!CheckKey(Saying!Listed(head)) /\ head' = head
           /\ Saying!ApprovedKey(head)' = Saying!ApprovedKey(head)
  BY DEF Saying!CheckKey, Saying!Listed, Saying!Newest, Saying!ApprovedKey
<1>7. ASSUME NEW K, SuiteUnderWay(K) PROVE SuiteUnderWay(K)' \/ Heard(K)'
  <2>1. ASSUME NEW u \in Handlers, u # t PROVE task'[u] = task[u] /\ OfSuite(u)' = OfSuite(u)
                 /\ HasKey(u)' = HasKey(u) BY <1>2, <2>1 DEF OfSuite, HasKey
  <2>2. OfSuite(t) /\ task[t].sha = head => task[t].letter.kind = "suite" /\ task[t].letter.sha = head
    BY <1>1 DEF OfSuite, Proper
  <2>3. CASE letters' = letters /\ HasKey(t) /\ task[t].key \in DOMAIN lines' \cup excused'
    BY <1>4, <1>6, <1>7, <2>1, <2>3 DEF SuiteUnderWay, HasKey, Heard
  <2>4. CASE letters' = letters \cup {task[t].letter} BY <1>4, <1>6, <1>7, <2>1, <2>2, <2>4 DEF SuiteUnderWay
  <2>. QED BY <2>3, <2>4
<1>8. ASSUME AgreementUnderWay PROVE AgreementUnderWay' \/ Heard(Saying!ApprovedKey(head))'
  <2>1. ASSUME NEW u \in Handlers, u # t PROVE task'[u] = task[u] /\ OfSuite(u)' = OfSuite(u)
                 /\ HasKey(u)' = HasKey(u) BY <1>2, <2>1 DEF OfSuite, HasKey
  <2>2. HasKey(t) /\ ~OfSuite(t) /\ task[t].sha = head => task[t].key = Saying!ApprovedKey(head)
    BY <1>1 DEF OfSuite, Proper, HasKey
  <2>3. CASE letters' = letters /\ HasKey(t) /\ task[t].key \in DOMAIN lines' \cup excused'
    BY <1>4, <1>6, <1>8, <2>1, <2>2, <2>3 DEF AgreementUnderWay, HasKey, Heard
  <2>4. CASE letters' = letters \cup {task[t].letter}
    BY <1>4, <1>6, <1>8, <2>1, <2>4 DEF AgreementUnderWay, OfSuite
  <2>. QED BY <2>3, <2>4
<1>9. SuitesAreSaid' /\ AgreementIsSaid'
  <2>. DEFINE K == Saying!CheckKey(Saying!Listed(head))
  <2>1. K' = K BY <1>6
  <2>2. SuiteUnderWay(K) => SuiteUnderWay(K)' \/ Heard(K)' BY <1>7, <2>1
  <2>. QED BY <1>8, <2>1, <2>2, StaysUnderWay
<1>. QED BY <1>2, <1>3, <1>5, <1>9

\* The line is there once more.
LEMMA PostedIs ==
  ASSUME NEW k
  PROVE  /\ DOMAIN Saying!Posted(k) = DOMAIN lines \cup {k}
         /\ \A j \in DOMAIN lines : j # k /\ lines[j] = 1 => Saying!Posted(k)[j] = 1
         /\ k \notin DOMAIN lines => Saying!Posted(k)[k] = 1
BY DEF Saying!Posted

\* What is posted is held, and was not said before but with leave.
LEMMA Said1 ==
  ASSUME VerdictsInv, NEW t \in Handlers, Holding(t), notes' = notes,
         \/ lines' = lines
         \/ lines' = Saying!Posted(task[t].key) /\ (task[t].key \notin DOMAIN lines
              \/ task[t].key \in excused'),
         excused \subseteq excused'
  PROVE  /\ DOMAIN lines \subseteq DOMAIN lines' /\ DOMAIN lines' \subseteq DOMAIN lines \cup {task[t].key}
         /\ DOMAIN lines' \subseteq notes' \cup excused'
         /\ \A k \in DOMAIN lines' : lines'[k] = 1 \/ k \in excused'
<1>. USE DEF VerdictsInv
<1>1. task[t].key \in notes /\ DOMAIN lines \subseteq notes \cup excused
        /\ \A k \in DOMAIN lines : lines[k] = 1 \/ k \in excused
  BY DEF ClaimsHold, LinesHold
<1>2. CASE lines' = lines BY <1>1, <1>2
<1>3. CASE lines' = Saying!Posted(task[t].key) /\ (task[t].key \notin DOMAIN lines
             \/ task[t].key \in excused')
  <2>. DEFINE k == task[t].key
  <2>1. /\ DOMAIN lines' = DOMAIN lines \cup {k}
        /\ \A j \in DOMAIN lines : j # k /\ lines[j] = 1 => lines'[j] = 1
        /\ k \notin DOMAIN lines => lines'[k] = 1 BY <1>3, PostedIs
  <2>. HIDE DEF k
  <2>2. k \in notes /\ (k \notin DOMAIN lines \/ k \in excused') BY <1>1, <1>3 DEF k
  <2>3. \A j \in DOMAIN lines' : lines'[j] = 1 \/ j \in excused' BY <1>1, <2>1, <2>2
  <2>. QED BY <1>1, <2>1, <2>2, <2>3 DEF k
<1>. QED BY <1>2, <1>3

LEMMA PostStep == ASSUME VerdictsInv, NEW t \in Handlers, Saying!Post(t) PROVE VerdictsInv'
<1>. DEFINE k == task[t].key
<1>1. /\ task[t].step = "posting" /\ lines' = Saying!Posted(k) /\ task' = [task EXCEPT ![t] = Saying!AtRest]
      /\ excused' = IF task[t].torn THEN excused \cup {k} ELSE excused
      /\ UNCHANGED <<Saying!hub, letters, notes, Saying!past>>
  BY DEF Saying!Post, Saying!Over
<1>2. HasKey(t) /\ Holding(t) /\ (k \notin DOMAIN lines \/ k \in excused) /\ Proper(task[t])
  BY <1>1, ProperNow DEF HasKey, Holding, VerdictsInv, ClaimsHold
<1>. HIDE DEF k
<1>3. /\ DOMAIN lines \subseteq DOMAIN lines' /\ DOMAIN lines' \subseteq notes' \cup excused'
      /\ DOMAIN lines' = DOMAIN lines \cup {k}
      /\ \A j \in DOMAIN lines' : lines'[j] = 1 \/ j \in excused'
  BY <1>1, <1>2, Said1, PostedIs DEF k
<1>4. /\ GitHubKinds' /\ RunsAreNumbered' /\ Agreements' /\ TaskKinds' /\ KeysAreOfTheirCommits' /\ ReadWhole'
      /\ SuitesAreSaid' /\ AgreementIsSaid'
      /\ ~Holding(t)' /\ \A u \in Handlers : u # t => task'[u] = task[u] /\ Holding(u)' = Holding(u)
  BY <1>1, <1>2, <1>3, EndStep DEF k
<1>5. ClaimsHold'
  <2>1. \A u \in Handlers : Holding(u)' => u # t /\ Holding(u) /\ task'[u] = task[u] /\ task[u].key # k
    BY <1>2, <1>4 DEF VerdictsInv, ClaimsHold, k
  <2>2. excused \subseteq excused' /\ notes' = notes BY <1>1
  <2>3. \A u \in Handlers : Holding(u)' => task'[u].key \notin DOMAIN lines' \/ task'[u].key \in excused'
    BY <1>3, <2>1, <2>2 DEF VerdictsInv, ClaimsHold
  <2>. QED BY <2>1, <2>2, <2>3 DEF VerdictsInv, ClaimsHold
<1>6. LinesHold'
  <2>1. \A j \in notes' : j \in DOMAIN lines' \cup excused' \/ \E u \in Handlers : Holding(u)'
          /\ task'[u].key = j
    <3>. SUFFICES ASSUME NEW j \in notes
                  PROVE  j \in DOMAIN lines' \cup excused' \/ \E u \in Handlers : Holding(u)'
                           /\ task'[u].key = j BY <1>1
    <3>1. CASE j \in DOMAIN lines \cup excused BY <1>1, <1>3, <3>1
    <3>2. ASSUME NEW u \in Handlers, Holding(u), task[u].key = j
          PROVE  j \in DOMAIN lines' \cup excused' \/ \E v \in Handlers : Holding(v)' /\ task'[v].key = j
      BY <1>3, <1>4, <3>2 DEF k
    <3>. QED BY <3>1, <3>2 DEF VerdictsInv, LinesHold, Heard
  <2>. QED BY <1>3, <2>1 DEF LinesHold, Heard
<1>7. Saying!AgreedWhenSaid'
  <2>1. everAgreed' = everAgreed /\ excused \subseteq excused' BY <1>1 DEF Saying!past
  <2>2. k[1] = "approved" => k[2] \in everAgreed \/ k \in excused'
    <3>1. CASE OfSuite(t)
      <4>1. k \in SuiteKeys BY <1>1, <1>2, <3>1 DEF Proper, OfSuite, k
      <4>. QED BY <4>1, KeysDiffer
    <3>2. CASE ~OfSuite(t)
      <4>1. k = Saying!ApprovedKey(task[t].sha) /\ (~task[t].torn => task[t].sha \in everAgreed)
        BY <1>1, <1>2, <3>2 DEF Proper, OfSuite, k
      <4>2. k[2] = task[t].sha BY <4>1, KeysDiffer
      <4>. QED BY <1>1, <4>1, <4>2
    <3>. QED BY <3>1, <3>2
  <2>. QED BY <1>3, <2>1, <2>2 DEF Saying!AgreedWhenSaid, VerdictsInv
<1>. QED BY <1>4, <1>5, <1>6, <1>7 DEF VerdictsInv

LEMMA PostFailsStep == ASSUME VerdictsInv, NEW t \in Handlers, Saying!PostFails(t) PROVE VerdictsInv'
<1>. DEFINE k == task[t].key
<1>1. /\ task[t].step = "posting" /\ task' = [task EXCEPT ![t].step = "handing_back"]
      /\ \/ UNCHANGED <<lines, excused>>
         \/ lines' = Saying!Posted(k) /\ excused' = excused \cup {k}
      /\ UNCHANGED <<Saying!hub, letters, notes, Saying!past>>
  BY DEF Saying!PostFails
<1>2. /\ HasKey(t) /\ Holding(t) /\ (k \notin DOMAIN lines \/ k \in excused) /\ Proper(task[t])
      /\ task \in [Handlers -> Duties] /\ letters' \subseteq Letters
  BY <1>1, ProperNow DEF HasKey, Holding, VerdictsInv, ClaimsHold, TaskKinds
<1>3. /\ task' \in [Handlers -> Duties] /\ (\A u \in Handlers : u # t => task'[u] = task[u])
      /\ task'[t].step = "handing_back" /\ task'[t].key = k /\ task'[t].letter = task[t].letter
      /\ task'[t].sha = task[t].sha
  <2>1. task'[t] = [task[t] EXCEPT !.step = "handing_back"] /\ task[t] \in Duties /\ "handing_back" \in Stages
    BY <1>1, <1>2 DEF Stages
  <2>2. /\ task'[t] \in Duties /\ task'[t].step = "handing_back" /\ task'[t].key = k
        /\ task'[t].letter = task[t].letter /\ task'[t].sha = task[t].sha
    BY <2>1 DEF Duties
  <2>. QED BY <1>1, <1>2, <2>2
<1>4. Proper(task'[t]) BY <1>1, <1>2, <1>3 DEF Proper
<1>5. GitHubKinds' /\ RunsAreNumbered' /\ Agreements' /\ TaskKinds' /\ KeysAreOfTheirCommits' /\ ReadWhole'
  BY <1>1, <1>2, <1>3, <1>4, DutyStep
<1>6. \A u \in Handlers : /\ Holding(u)' = Holding(u) /\ HasKey(u)' = HasKey(u) /\ OfSuite(u)' = OfSuite(u)
                          /\ task'[u].key = task[u].key /\ task'[u].sha = task[u].sha
                          /\ task[u].step = "listing" => task'[u] = task[u]
  BY <1>1, <1>2, <1>3 DEF Holding, HasKey, OfSuite
<1>. HIDE DEF k
<1>7. /\ DOMAIN lines \subseteq DOMAIN lines' /\ DOMAIN lines' \subseteq notes' \cup excused'
      /\ DOMAIN lines' \subseteq DOMAIN lines \cup {k}
      /\ excused \subseteq excused' /\ (lines' = lines \/ k \in excused')
      /\ \A j \in DOMAIN lines' : lines'[j] = 1 \/ j \in excused'
  BY <1>1, <1>2, Said1 DEF k
<1>8. ClaimsHold'
  <2>1. \A u \in Handlers : Holding(u)' => task'[u].key \in notes' BY <1>1, <1>6 DEF VerdictsInv, ClaimsHold
  <2>2. \A u, v \in Handlers : Holding(u)' /\ Holding(v)' /\ u # v => task'[u].key # task'[v].key
    BY <1>6 DEF VerdictsInv, ClaimsHold
  <2>3. \A u \in Handlers : Holding(u)' => task'[u].key \notin DOMAIN lines' \/ task'[u].key \in excused'
    BY <1>6, <1>7 DEF VerdictsInv, ClaimsHold
  <2>. QED BY <2>1, <2>2, <2>3 DEF ClaimsHold
<1>9. LinesHold'
  <2>1. \A j \in notes' : j \in DOMAIN lines' \cup excused' \/ \E u \in Handlers : Holding(u)'
          /\ task'[u].key = j
    BY <1>1, <1>6, <1>7 DEF VerdictsInv, LinesHold, Heard
  <2>. QED BY <1>7, <2>1 DEF LinesHold, Heard
<1>10. Saying!AgreedWhenSaid' BY <1>1, <1>7 DEF Saying!AgreedWhenSaid, VerdictsInv, Saying!past
<1>11. head' = head /\ letters' = letters BY <1>1 DEF Saying!hub
<1>12. \A K : SuiteUnderWay(K) => SuiteUnderWay(K)' BY <1>6, <1>11 DEF SuiteUnderWay, OfSuite
<1>13. AgreementUnderWay => AgreementUnderWay' BY <1>6, <1>11 DEF AgreementUnderWay, OfSuite
<1>14. SuitesAreSaid' /\ AgreementIsSaid'
  <2>. DEFINE K == Saying!CheckKey(Saying!Listed(head))
  <2>1. K' = K BY <1>1 DEF Saying!CheckKey, Saying!Listed, Saying!Newest, Saying!hub
  <2>2. SuiteUnderWay(K) => SuiteUnderWay(K)' BY <1>12, <2>1
  <2>. QED BY <1>1, <1>7, <1>13, <2>1, <2>2, StaysUnderWay
<1>. QED BY <1>5, <1>8, <1>9, <1>10, <1>14 DEF VerdictsInv

LEMMA HandBackStep == ASSUME VerdictsInv, NEW t \in Handlers, Saying!HandBack(t) PROVE VerdictsInv'
<1>. DEFINE k == task[t].key
<1>1. /\ task[t].step = "handing_back" /\ task' = [task EXCEPT ![t] = Saying!AtRest]
      /\ letters' = letters \cup {task[t].letter}
      /\ \/ notes' = notes \ {k} /\ excused' = excused
         \/ excused' = excused \cup {k} /\ notes' = notes
      /\ UNCHANGED <<Saying!hub, lines, Saying!past>>
  BY DEF Saying!HandBack, Saying!Again, Saying!Over, Saying!GivenBack
<1>2. HasKey(t) /\ Holding(t) /\ (k \notin DOMAIN lines \/ k \in excused)
  BY <1>1 DEF HasKey, Holding, VerdictsInv, ClaimsHold
<1>. HIDE DEF k
<1>3. excused \subseteq excused' /\ lines' = lines /\ (notes' = notes \ {k} \/ (notes' = notes
        /\ k \in excused')) BY <1>1
<1>4. /\ GitHubKinds' /\ RunsAreNumbered' /\ Agreements' /\ TaskKinds' /\ KeysAreOfTheirCommits' /\ ReadWhole'
      /\ SuitesAreSaid' /\ AgreementIsSaid'
      /\ ~Holding(t)' /\ \A u \in Handlers : u # t => task'[u] = task[u] /\ Holding(u)' = Holding(u)
  BY <1>1, <1>3, EndStep
<1>5. \A u \in Handlers : Holding(u)' => u # t /\ Holding(u) /\ task'[u] = task[u] /\ task[u].key # k
  BY <1>2, <1>4 DEF VerdictsInv, ClaimsHold, k
<1>6. ClaimsHold'
  <2>1. \A u \in Handlers : Holding(u)' => task'[u].key \in notes' BY <1>3, <1>5 DEF VerdictsInv, ClaimsHold
  <2>2. \A u, v \in Handlers : Holding(u)' /\ Holding(v)' /\ u # v => task'[u].key # task'[v].key
    BY <1>5 DEF VerdictsInv, ClaimsHold
  <2>3. \A u \in Handlers : Holding(u)' => task'[u].key \notin DOMAIN lines' \/ task'[u].key \in excused'
    BY <1>3, <1>5 DEF VerdictsInv, ClaimsHold
  <2>. QED BY <2>1, <2>2, <2>3 DEF ClaimsHold
<1>7. LinesHold'
  <2>1. ASSUME NEW j \in notes' PROVE j \in DOMAIN lines' \cup excused' \/ \E u \in Handlers : Holding(u)'
                 /\ task'[u].key = j
    <3>1. j \in notes BY <1>3, <2>1
    <3>2. CASE j \in DOMAIN lines \cup excused BY <1>3, <3>2
    <3>3. ASSUME NEW u \in Handlers, Holding(u), task[u].key = j, u # t
          PROVE  \E v \in Handlers : Holding(v)' /\ task'[v].key = j
      BY <1>4, <3>3
    <3>4. CASE j = k BY <1>3, <2>1, <3>4
    <3>. QED BY <3>1, <3>2, <3>3, <3>4 DEF VerdictsInv, LinesHold, Heard, k
  <2>2. DOMAIN lines' \subseteq notes' \cup excused' BY <1>2, <1>3 DEF VerdictsInv, LinesHold
  <2>3. \A j \in DOMAIN lines' : lines'[j] = 1 \/ j \in excused' BY <1>3 DEF VerdictsInv, LinesHold
  <2>. QED BY <2>1, <2>2, <2>3 DEF LinesHold, Heard
<1>8. Saying!AgreedWhenSaid' BY <1>1, <1>3 DEF Saying!AgreedWhenSaid, VerdictsInv, Saying!past
<1>. QED BY <1>4, <1>6, <1>7, <1>8 DEF VerdictsInv

LEMMA FailsStep == ASSUME VerdictsInv, NEW t \in Handlers, Saying!Fails(t) PROVE VerdictsInv'
<1>. DEFINE k == task[t].key
<1>1. /\ task[t].step # "idle" /\ task' = [task EXCEPT ![t] = Saying!AtRest]
      /\ letters' = letters \cup {task[t].letter}
      /\ excused' = IF task[t].step \in {"posting", "handing_back"} THEN excused \cup {k} ELSE excused
      /\ UNCHANGED <<Saying!hub, lines, notes, Saying!past>>
  BY DEF Saying!Fails, Saying!Again, Saying!Over
<1>. HIDE DEF k
<1>2. excused \subseteq excused' /\ lines' = lines /\ notes' = notes /\ (Holding(t) => k \in excused')
  BY <1>1 DEF Holding
<1>4. /\ GitHubKinds' /\ RunsAreNumbered' /\ Agreements' /\ TaskKinds' /\ KeysAreOfTheirCommits' /\ ReadWhole'
      /\ SuitesAreSaid' /\ AgreementIsSaid'
      /\ ~Holding(t)' /\ \A u \in Handlers : u # t => task'[u] = task[u] /\ Holding(u)' = Holding(u)
  BY <1>1, <1>2, EndStep
<1>5. \A u \in Handlers : Holding(u)' => u # t /\ Holding(u) /\ task'[u] = task[u] BY <1>4
<1>6. ClaimsHold' BY <1>2, <1>5 DEF VerdictsInv, ClaimsHold
<1>7. LinesHold'
  <2>1. ASSUME NEW j \in notes' PROVE j \in DOMAIN lines' \cup excused' \/ \E u \in Handlers : Holding(u)'
                 /\ task'[u].key = j
    <3>1. CASE j \in DOMAIN lines \cup excused BY <1>2, <3>1
    <3>2. ASSUME NEW u \in Handlers, Holding(u), task[u].key = j
          PROVE  j \in excused' \/ \E v \in Handlers : Holding(v)' /\ task'[v].key = j
      BY <1>2, <1>4, <3>2 DEF k
    <3>. QED BY <1>2, <2>1, <3>1, <3>2 DEF VerdictsInv, LinesHold, Heard
  <2>. QED BY <1>2, <2>1 DEF VerdictsInv, LinesHold, Heard
<1>8. Saying!AgreedWhenSaid' BY <1>1, <1>2 DEF Saying!AgreedWhenSaid, VerdictsInv, Saying!past
<1>. QED BY <1>4, <1>6, <1>7, <1>8 DEF VerdictsInv

LEMMA VerdictsStep == VerdictsInv /\ [Saying!Next]_(Saying!verdictsVars) => VerdictsInv'
<1>. SUFFICES ASSUME VerdictsInv, [Saying!Next]_(Saying!verdictsVars) PROVE VerdictsInv' OBVIOUS
<1>0. /\ head \in Saying!Heads /\ shutBy \in BOOLEAN /\ waiting \subseteq Reviewers /\ lastRun \in Nat
           /\ letters \subseteq Letters
      /\ runs \in [Saying!Heads -> [Apps -> RunKinds]]
      /\ verdict \in [Reviewers -> {"none", "approved", "changes", "dismissed"}]
  BY DEF VerdictsInv, GitHubKinds, TaskKinds
<1>00. head \in Nat /\ head >= head /\ \A h \in Saying!Heads : h \in Nat
  BY <1>0, ThreadsAssumption DEF Saying!Heads, Saying!VerdictsAssumption
<1>1. CASE UNCHANGED Saying!verdictsVars
  <2>. USE <1>1 DEF Saying!verdictsVars, Saying!hub, Saying!past, VerdictsInv
  <2>1. GitHubKinds' /\ RunsAreNumbered' BY DEF GitHubKinds, RunsAreNumbered
  <2>2. TaskKinds' /\ KeysAreOfTheirCommits' /\ ReadWhole'
    BY DEF TaskKinds, KeysAreOfTheirCommits, ReadWhole, HasKey, OfSuite
  <2>3. Agreements' /\ Saying!AgreedWhenSaid'
    BY DEF Agreements, Saying!Agreed, Saying!Verdicts, Saying!AgreedWhenSaid
  <2>4. ClaimsHold' /\ LinesHold' BY DEF ClaimsHold, LinesHold, Holding, Heard
  <2>5. SuitesAreSaid' /\ AgreementIsSaid'
    <3>. DEFINE K == Saying!CheckKey(Saying!Listed(head))
    <3>1. K' = K BY DEF Saying!CheckKey, Saying!Listed, Saying!Newest
    <3>2. SuiteUnderWay(K) => SuiteUnderWay(K)' BY <3>1 DEF SuiteUnderWay, HasKey, OfSuite
    <3>3. AgreementUnderWay => AgreementUnderWay' BY DEF AgreementUnderWay, HasKey, OfSuite
    <3>. QED BY <3>1, <3>2, <3>3, StaysUnderWay
  <2>. QED BY <2>1, <2>2, <2>3, <2>4, <2>5
<1>2. CASE Saying!Push
  <2>1. head' \in Saying!Heads /\ head' >= head /\ head' # head
    BY <1>0, <1>2, ThreadsAssumption DEF Saying!Push, Saying!Heads, Saying!VerdictsAssumption
  <2>. QED BY <1>0, <1>2, <2>1, TornStep DEF Saying!Push
<1>3. CASE Saying!CloseOrOpen BY <1>0, <1>00, <1>3, TornStep DEF Saying!CloseOrOpen
<1>4. ASSUME NEW a \in Apps, Saying!StartRun(a) PROVE VerdictsInv'
  <2>. DEFINE r == [id |-> lastRun + 1, state |-> "running"]
  <2>1. r \in RunKinds /\ r.id = lastRun + 1 /\ r.state = "running" BY <1>0 DEF RunKinds
  <2>2. runs' = [runs EXCEPT ![head][a] = r] /\ lastRun' = lastRun + 1 /\ letters' = letters
    BY <1>4 DEF Saying!StartRun
  <2>. HIDE DEF r
  <2>. QED BY <1>0, <1>4, <2>1, <2>2, RunStep DEF Saying!StartRun
<1>5. ASSUME NEW a \in Apps, NEW h \in Saying!Heads, Saying!FinishRun(h, a) PROVE VerdictsInv'
  <2>1. PICK how \in {"ran", "skipped"} : runs' = [runs EXCEPT ![h][a].state = how]
    BY <1>5 DEF Saying!FinishRun
  <2>. DEFINE r == [runs[h][a] EXCEPT !.state = how]
  <2>2. runs[h][a] \in RunKinds /\ runs[h][a] # Saying!NoRun
    <3>1. runs[h][a].state = "running" BY <1>5 DEF Saying!FinishRun
    <3>. QED BY <1>0, <3>1 DEF Saying!NoRun
  <2>3. r \in RunKinds /\ r.id = runs[h][a].id BY <2>2 DEF RunKinds
  <2>4. runs' = [runs EXCEPT ![h][a] = r] BY <1>0, <2>1
  <2>. HIDE DEF r
  <2>. QED BY <1>5, <2>2, <2>3, <2>4, RunStep DEF Saying!FinishRun
<1>6. ASSUME NEW r \in Reviewers, Saying!Ask(r) PROVE VerdictsInv'
  BY <1>0, <1>00, <1>6, TornStep DEF Saying!Ask
<1>7. ASSUME NEW r \in Reviewers PROVE \A what \in {"approved", "removed"} :
          Saying!About(what, r) \in Letters /\ Saying!About(what, r).kind # "suite"
  BY <1>0 DEF Saying!About, Letters
<1>8. ASSUME NEW r \in Reviewers, Saying!Withdraw(r) PROVE VerdictsInv'
  <2>1. waiting' \subseteq Reviewers /\ letters' = letters \cup {Saying!About("removed", r)}
    BY <1>0, <1>8 DEF Saying!Withdraw
  <2>. HIDE DEF Saying!About
  <2>. QED BY <1>0, <1>00, <1>7, <1>8, <2>1, TornStep DEF Saying!Withdraw
<1>9. ASSUME NEW r \in Reviewers, Saying!Dismiss(r) PROVE VerdictsInv'
  <2>1. verdict' \in [Reviewers -> {"none", "approved", "changes", "dismissed"}]
    BY <1>0, <1>9 DEF Saying!Dismiss
  <2>. QED BY <1>0, <1>00, <1>9, <2>1, TornStep DEF Saying!Dismiss
<1>10. ASSUME NEW r \in Reviewers, NEW v \in {"approved", "changes", "commented"}, Saying!Review(r,
              v) PROVE VerdictsInv'
  <2>1. verdict' \in [Reviewers -> {"none", "approved", "changes", "dismissed"}]
          /\ waiting' \subseteq Reviewers BY <1>0, <1>10 DEF Saying!Review
  <2>2. letters' = IF v = "approved" THEN letters \cup {Saying!About("approved", r)} ELSE letters
    BY <1>10 DEF Saying!Review
  <2>3. /\ Saying!Reconsidered(v = "approved") /\ task' = Saying!Torn
        /\ UNCHANGED <<head, shutBy, runs, lastRun, notes, lines, excused>>
    BY <1>10 DEF Saying!Review
  <2>4. CASE v = "approved"
    <3>1. Saying!Reconsidered(TRUE) BY <2>3, <2>4
    <3>. QED BY <1>0, <1>00, <1>7, <2>1, <2>2, <2>3, <2>4, <3>1, TornStep
  <2>5. CASE v # "approved"
    <3>1. Saying!Reconsidered(FALSE) BY <2>3, <2>5
    <3>. QED BY <1>0, <1>00, <2>1, <2>2, <2>3, <2>5, <3>1, TornStep
  <2>. QED BY <2>4, <2>5
<1>11. ASSUME NEW t \in Handlers,
              Saying!ReadItem(t) \/ Saying!List(t) \/ Saying!Claim(t) \/ Saying!Post(t) \/ Saying!PostFails(t)
                \/ Saying!HandBack(t) \/ Saying!Fails(t)
       PROVE  VerdictsInv'
  BY <1>11, ReadItemStep, ListStep, ClaimStep, PostStep, PostFailsStep, HandBackStep, FailsStep
<1>. QED BY <1>1, <1>2, <1>3, <1>4, <1>5, <1>6, <1>8, <1>9, <1>10, <1>11 DEF Saying!Next

----
(* Where the thread is. *)

Numbers == Nat \cup {NULL}
Rooms  == Channels \cup {NULL}
Errands == [step : {"idle", "waiting", "borrowing", "recording", "writing", "opening", "claiming",
                    "claiming_again", "discarding"},
            moves : BOOLEAN, version : Nat, binding : Nat, to : Rooms, old : Numbers, oldAt : Rooms,
            new : Numbers, empty : BOOLEAN]
Orders  == [step : {"idle", "listing", "asking", "noting", "moving", "syncing", "posting"},
            kind : Placing!Kinds, to : Rooms, thread : Numbers, at : Rooms]

\* The threads there are, or none.
Known == (1 .. Len(threads)) \cup {NULL}

\* While a server is registered pull requests have a channel, and else nothing is left of it.
ServerKinds ==
    /\ kind \in Placing!Kinds /\ breaks \in 0 .. MaxBreaks /\ lastId \in Nat \ {0}
    /\ binding \in {0, lastId} /\ lastId <= breaks + 1 /\ (binding = 0 => lastId <= breaks)
    /\ mapped \in [Placing!Kinds -> Rooms]
    /\ binding # 0 => mapped["pr"] # NULL
    /\ binding = 0 => entry = NULL /\ \A k \in Placing!Kinds : mapped[k] = NULL

\* The row is of a thread that was opened, and where it says.
EntryKinds ==
    /\ edits \in 0 .. MaxEdits /\ version \in 0 .. edits /\ unread \subseteq 1 .. version
    /\ threads \in Seq(Placing!Discussions) /\ Len(threads) <= MaxThreads
    /\ entry = NULL \/ /\ entry \in Placing!Rows /\ entry.thread \in Known /\ entry.stamp <= version
                       /\ entry.thread # NULL /\ entry.at # NULL => entry.at = threads[entry.thread].channel
    /\ unmoved \in BOOLEAN /\ late \subseteq 1 .. Len(threads) /\ alone \subseteq 1 .. Len(threads)

\* A thread of T that has not been deleted; and the item as written down in n has the thread t.
Alive(T, t)   == t # NULL /\ T[t].live
Attached(n, t) == n # NULL /\ n.thread = t

Claiming == {"claiming", "claiming_again", "discarding"}
UnderWay   == Claiming \cup {"recording", "writing", "opening"}

\* What a sync of p may be at, of an item of the kind k at version v, with the threads T.
GoodErrand(p, e, k, v, T) ==
    /\ e.old \in (1 .. Len(T)) \cup {NULL} /\ e.new \in (1 .. Len(T)) \cup {NULL} /\ e.version <= v
    /\ e.moves => p \in Movers
    /\ p \in Visits /\ k # "ticket" /\ e.step # "idle" => e.version # 0
    /\ e.step = "borrowing" => e.binding # 0 /\ k = "issue"
    /\ e.step \in UnderWay => e.to # NULL /\ e.binding # 0
    /\ e.step \in Claiming => e.new # NULL /\ T[e.new].channel = e.to
    /\ e.step \in Claiming \cup {"opening"} =>
          ~Alive(T, e.old) \/ (e.moves /\ e.oldAt # NULL /\ e.oldAt # e.to)

ErrandKinds ==
    errand \in [Placing!Procs -> Errands] /\ \A p \in Placing!Procs : GoodErrand(p, errand[p], kind, version,
    threads)

\* What a command may be at, with the threads T and the row n.
GoodOrder(o, T, n) ==
    /\ o.thread \in (1 .. Len(T)) \cup {NULL}
    /\ o.step \in {"asking", "noting", "moving", "syncing", "posting"} => o.thread # NULL
    /\ o.step = "noting" /\ o.at = NULL => ~Alive(T, o.thread)
    /\ o.step = "noting" /\ o.at # NULL => o.at = T[o.thread].channel
    /\ o.step \in {"moving", "syncing"} /\ Attached(n, o.thread) => n.at # NULL

OrderKinds == cmd \in [Movers -> Orders] /\ \A m \in Movers : GoodOrder(cmd[m], threads, entry)

LocksHold ==
    /\ holder \in Placing!Procs \cup {NULL}
    /\ \A p \in Placing!Procs : holder = p <=> errand[p].step \notin {"idle", "waiting"}
    /\ \A m \in Movers : errand[m].step # "idle" <=> cmd[m].step = "syncing"

\* A thread is the item's, has been told of, or somebody has it in hand.
SeenTo(t) ==
    \/ Placing!PointsAt(t) \/ (threads[t].told /\ threads[t].shut) \/ t \in alone
    \/ \E p \in Placing!Procs : errand[p].new = t /\ errand[p].step \in Claiming
    \/ \E m \in Movers : cmd[m].thread = t /\ cmd[m].step = "posting"
NoneForgotten == \A t \in 1 .. Len(threads) : threads[t].live => SeenTo(t)

\* A command of the item's kind, made after every other, is about to move the thread it has.
Pursues(m) ==
    LET e == errand[m]  t == entry.thread IN
    /\ cmd[m].kind = kind /\ mapped[kind] # NULL
    /\ \/ cmd[m].step = "listing" /\ cmd[m].to = mapped[kind]
       \/ cmd[m].step \in {"asking", "noting", "moving"} /\ cmd[m].to = mapped[kind] /\ cmd[m].thread = t
       \/ /\ cmd[m].step = "syncing" /\ cmd[m].thread = t /\ e.moves
          /\ \/ e.step = "waiting"
             \/ e.step = "recording" /\ e.to = mapped[kind] /\ e.binding = binding
             \/ /\ e.step \in {"writing", "opening", "claiming"} /\ e.to = mapped[kind] /\ e.binding = binding
                /\ e.old = t /\ e.oldAt = threads[t].channel
Placed ==
    entry # NULL =>
        (Placing!Live(entry.thread) =>
            \/ threads[entry.thread].channel = Placing!InForce \/ unmoved \/ entry.thread \in late
            \/ \E m \in Movers : Pursues(m))

PlacementInv ==
    /\ ServerKinds /\ EntryKinds /\ ErrandKinds /\ OrderKinds /\ LocksHold
    /\ NoneForgotten /\ Placed

LEMMA Sorts ==
  /\ NULL \notin Nat /\ NULL \notin Placing!Kinds /\ NULL \notin Channels /\ NULL \notin Placing!Procs
       /\ NULL \notin Placing!Rows
  /\ MaxMappings \in Nat /\ MaxEdits \in Nat /\ MaxBreaks \in Nat
  /\ MaxThreads \in Nat /\ MaxThreads >= 1
  /\ Movers \cap Visits = {} /\ Movers \subseteq Placing!Procs /\ Visits \subseteq Placing!Procs
<1>1. /\ NULL \notin Nat /\ NULL \notin Placing!Kinds /\ NULL \notin Channels /\ NULL \notin Placing!Procs
           /\ NULL \notin Placing!Rows
      /\ MaxMappings \in Nat /\ MaxEdits \in Nat /\ MaxBreaks \in Nat
      /\ MaxThreads \in Nat \ {0} /\ Movers \cap Visits = {}
  BY ThreadsAssumption DEF Placing!PlacementAssumption
<1>2. MaxThreads \in Nat /\ MaxThreads >= 1
  <2>1. \A n \in Nat \ {0} : n \in Nat /\ n >= 1 OBVIOUS
  <2>. QED BY <1>1, <2>1
<1>. QED BY <1>1, <1>2 DEF Placing!Procs


LEMMA PlacementAre == PlacementInv => Placing!TypeOK /\ Placing!NoThreadLeftBehind
  /\ Placing!WhereItsKindBelongs
<1>. SUFFICES ASSUME PlacementInv PROVE Placing!TypeOK /\ Placing!NoThreadLeftBehind
                       /\ Placing!WhereItsKindBelongs OBVIOUS
<1>. USE Sorts DEF PlacementInv
<1>1. Placing!TypeOK
  <2>1. kind \in Placing!Kinds /\ binding \in {0, lastId}
          /\ mapped \in [Placing!Kinds -> Channels \cup {NULL}]
    BY DEF ServerKinds, Rooms
  <2>2. lastId \in 1 .. (MaxBreaks + 1) BY DEF ServerKinds
  <2>3. /\ entry = NULL \/ entry \in Placing!Rows
        /\ threads \in Seq(Placing!Discussions) /\ unmoved \in BOOLEAN
    BY DEF EntryKinds
  <2>4. unread \subseteq 1 .. MaxEdits BY DEF EntryKinds
  <2>5. late \subseteq DOMAIN threads /\ alone \subseteq DOMAIN threads BY <2>3 DEF EntryKinds
  <2>6. /\ \A p \in Placing!Procs : holder = p <=> errand[p].step \notin {"idle", "waiting"}
        /\ \A m \in Movers : errand[m].step # "idle" <=> cmd[m].step = "syncing"
    BY DEF LocksHold
  <2>. QED BY <2>1, <2>2, <2>3, <2>4, <2>5, <2>6 DEF Placing!TypeOK
<1>2. Placing!NoThreadLeftBehind
  <2>1. threads \in Seq(Placing!Discussions) BY DEF EntryKinds
  <2>2. ASSUME Placing!Quiet, NEW t \in DOMAIN threads, threads[t].live
        PROVE  Placing!PointsAt(t) \/ (threads[t].told /\ threads[t].shut) \/ t \in alone
    <3>1. SeenTo(t) BY <2>1, <2>2 DEF NoneForgotten
    <3>. QED BY <2>2, <3>1 DEF SeenTo, Placing!Quiet, Claiming
  <2>. QED BY <2>2 DEF Placing!NoThreadLeftBehind
<1>3. Placing!WhereItsKindBelongs
  <2>1. Placing!Quiet => \A m \in Movers : ~Pursues(m) BY DEF Placing!Quiet, Pursues
  <2>. QED BY <2>1 DEF Placing!WhereItsKindBelongs, Placed
<1>. QED BY <1>1, <1>2, <1>3

LEMMA PlacementInit == Placing!Init => PlacementInv
<1>. SUFFICES ASSUME Placing!Init PROVE PlacementInv OBVIOUS
<1>. USE Sorts
<1>1. PICK c \in Channels :
          /\ mapped = [k \in Placing!Kinds |-> IF k = "issue" THEN NULL ELSE c]
          /\ \/ entry = NULL /\ threads = <<>>
             \/ /\ \E at \in {NULL, c} : entry = [thread |-> 1, at |-> at, stamp |-> 0]
                /\ threads = <<Placing!NewThread(c)>> BY DEF Placing!Init
<1>2. /\ kind \in Placing!Kinds /\ binding = 1 /\ lastId = 1 /\ holder = NULL /\ version = 0 /\ unread = {}
      /\ errand = [p \in Placing!Procs |-> Placing!Resting] /\ cmd = [m \in Movers |-> Placing!NoOrder]
      /\ mappings = 0 /\ edits = 0 /\ breaks = 0 /\ unmoved = FALSE /\ late = {} /\ alone = {}
  BY DEF Placing!Init
<1>3. /\ Placing!NewThread(c) \in Placing!Discussions /\ Placing!NewThread(c).channel = c
           /\ threads \in Seq(Placing!Discussions)
      /\ Len(threads) \in 0 .. 1 /\ (Len(threads) = 1 => threads[1] = Placing!NewThread(c))
  <2>1. Placing!NewThread(c) \in Placing!Discussions /\ Placing!NewThread(c).channel = c
    BY DEF Placing!NewThread, Placing!Discussions
  <2>2. CASE threads = <<>> BY <2>1, <2>2
  <2>3. CASE threads = <<Placing!NewThread(c)>>
    <3>. DEFINE d == Placing!NewThread(c)
    <3>1. d \in Placing!Discussions BY <2>1
    <3>. HIDE DEF d
    <3>2. threads = <<d>> BY <2>3 DEF d
    <3>3. threads \in Seq(Placing!Discussions) /\ Len(threads) = 1 /\ threads[1] = d BY <3>1, <3>2
    <3>. QED BY <2>1, <3>3 DEF d
  <2>. QED BY <1>1, <2>1, <2>2, <2>3
<1>4. ServerKinds
  <2>1. mapped \in [Placing!Kinds -> Rooms] /\ mapped["pr"] # NULL BY <1>1 DEF Placing!Kinds, Rooms
  <2>. QED BY <1>2, <2>1 DEF ServerKinds
<1>5. EntryKinds
  <2>0. Len(threads) <= MaxThreads
    <3>1. Len(threads) = 0 \/ Len(threads) = 1 BY ONLY <1>3
    <3>2. MaxThreads \in Nat /\ MaxThreads >= 1 OBVIOUS
    <3>. QED BY ONLY <3>1, <3>2
  <2>1. /\ edits \in 0 .. MaxEdits /\ version \in 0 .. edits /\ unread \subseteq 1 .. version
        /\ Len(threads) <= MaxThreads /\ unmoved \in BOOLEAN
        /\ late \subseteq 1 .. Len(threads) /\ alone \subseteq 1 .. Len(threads)
    <3>1. MaxEdits \in Nat /\ MaxEdits >= 0 OBVIOUS
    <3>2. /\ edits = 0 /\ version = 0 /\ unread = {} /\ unmoved = FALSE /\ late = {} /\ alone = {} BY <1>2
    <3>3. edits \in 0 .. MaxEdits /\ version \in 0 .. edits BY ONLY <3>1, <3>2
    <3>. QED BY <2>0, <3>2, <3>3
  <2>2. ASSUME entry # NULL
        PROVE  /\ entry \in Placing!Rows /\ entry.thread \in Known /\ entry.stamp <= version
               /\ (entry.at # NULL => entry.at = threads[entry.thread].channel)
    <3>1. PICK at \in {NULL, c} : entry = [thread |-> 1, at |-> at, stamp |-> 0]
            /\ threads = <<Placing!NewThread(c)>> BY <1>1, <2>2
    <3>2. Len(threads) = 1 /\ threads[1] = Placing!NewThread(c) BY <3>1
    <3>3. entry.thread = 1 /\ entry.at = at /\ entry.stamp = 0 BY <3>1
    <3>4. entry \in Placing!Rows BY <3>1 DEF Placing!Rows
    <3>. QED BY <1>2, <1>3, <3>2, <3>3, <3>4 DEF Known
  <2>. QED BY <1>3, <2>1, <2>2 DEF EntryKinds
<1>6. /\ \A p \in Placing!Procs : errand[p] = Placing!Resting
      /\ \A m \in Movers : cmd[m] = Placing!NoOrder BY <1>2
<1>7. /\ Placing!Resting \in Errands /\ Placing!Resting.step = "idle" /\ Placing!Resting.old = NULL
           /\ Placing!Resting.new = NULL
      /\ Placing!Resting.version = 0 /\ Placing!Resting.moves = FALSE
  BY DEF Placing!Resting, Errands, Numbers, Rooms
<1>8. Placing!NoOrder \in Orders /\ Placing!NoOrder.step = "idle" /\ Placing!NoOrder.thread = NULL
  BY DEF Placing!NoOrder, Orders, Placing!Kinds, Numbers, Rooms
<1>9. ErrandKinds BY <1>2, <1>6, <1>7 DEF ErrandKinds, GoodErrand, UnderWay, Claiming
<1>10. OrderKinds BY <1>2, <1>6, <1>8 DEF OrderKinds, GoodOrder
<1>11. LocksHold
  <2>1. \A m \in Movers : m \in Placing!Procs BY DEF Placing!Procs
  <2>. QED BY <1>2, <1>6, <1>7, <1>8, <2>1 DEF LocksHold
<1>12. NoneForgotten
  <2>1. ASSUME NEW t \in 1 .. Len(threads) PROVE Placing!PointsAt(t)
    <3>0. t = 1 /\ Len(threads) = 1 BY ONLY <1>3, <2>1
    <3>1. threads # <<>> BY <3>0
    <3>2. \E at \in {NULL, c} : entry = [thread |-> 1, at |-> at, stamp |-> 0] BY <1>1, <3>1
    <3>3. [thread |-> 1, at |-> NULL, stamp |-> 0] \in Placing!Rows /\ [thread |-> 1, at |-> c,
          stamp |-> 0] \in Placing!Rows BY DEF Placing!Rows
    <3>. QED BY <3>0, <3>2, <3>3 DEF Placing!PointsAt
  <2>. QED BY <2>1 DEF NoneForgotten, SeenTo
<1>13. Placed
  <2>1. ASSUME entry # NULL PROVE threads[entry.thread].channel = Placing!InForce
    <3>1. PICK at \in {NULL, c} : entry = [thread |-> 1, at |-> at, stamp |-> 0]
            /\ threads = <<Placing!NewThread(c)>> BY <1>1, <2>1
    <3>2. Placing!InForce = c
      <4>1. mapped["pr"] = c /\ mapped["issue"] = NULL /\ mapped["ticket"] = c /\ c # NULL
        BY <1>1 DEF Placing!Kinds
      <4>2. kind = "pr" \/ kind = "issue" \/ kind = "ticket" BY <1>2 DEF Placing!Kinds
      <4>3. "pr" # NULL /\ "issue" # NULL BY DEF Placing!Kinds
      <4>4. CASE kind = "issue" BY <4>1, <4>3, <4>4 DEF Placing!InForce, Placing!Lender
      <4>5. CASE kind # "issue" BY <4>1, <4>2, <4>3, <4>5 DEF Placing!InForce, Placing!Lender
      <4>. QED BY <4>4, <4>5
    <3>. QED BY <1>3, <3>1, <3>2
  <2>. QED BY <2>1 DEF Placed
<1>. QED BY <1>4, <1>5, <1>9, <1>10, <1>11, <1>12, <1>13 DEF PlacementInv

(* What every step leaves as it was. *)

\* U has the threads of T and perhaps more, none brought back, moved or opened again.
Grows(T, U) ==
    /\ Len(T) <= Len(U)
    /\ \A t \in 1 .. Len(T) :
          /\ U[t].channel = T[t].channel
          /\ U[t].live => T[t].live
          /\ T[t].told => U[t].told
          /\ T[t].shut => U[t].shut

\* The row u says where its thread is, or says as little as n did.
Settled(n, u) ==
    u = NULL \/ u.thread = NULL \/ u.at # NULL \/ (n # NULL /\ u.thread = n.thread /\ u.at = n.at)

LEMMA SameThreads ==
  ASSUME PlacementInv
  PROVE  threads \in Seq(Placing!Discussions) /\ Len(threads) \in Nat /\ Grows(threads, threads)
           /\ Settled(entry, entry)
<1>1. threads \in Seq(Placing!Discussions) BY DEF PlacementInv, EntryKinds
<1>. QED BY <1>1 DEF Grows, Settled

LEMMA ErrandStays ==
  ASSUME NEW T \in Seq(Placing!Discussions), NEW U \in Seq(Placing!Discussions), Grows(T, U), NEW p, NEW k,
         NEW v \in Nat, NEW w \in Nat, v <= w, NEW e \in Errands, GoodErrand(p, e, k, v, T)
  PROVE  GoodErrand(p, e, k, w, U)
<1>. USE Sorts
<1>1. /\ Len(T) \in Nat /\ Len(U) \in Nat /\ Len(T) <= Len(U)
      /\ \A n \in (1 .. Len(T)) \cup {NULL} : n \in (1 .. Len(U)) \cup {NULL}
      /\ \A n \in (1 .. Len(T)) \cup {NULL} : n # NULL => n \in 1 .. Len(T)
  BY DEF Grows
<1>2. e.version \in Nat /\ e.version <= w BY DEF Errands, GoodErrand
<1>3. e.step \in Claiming => e.new # NULL /\ U[e.new].channel = e.to BY <1>1 DEF GoodErrand, Grows
<1>4. ~Alive(T, e.old) => ~Alive(U, e.old) BY <1>1 DEF GoodErrand, Grows, Alive
<1>. QED BY <1>1, <1>2, <1>3, <1>4 DEF GoodErrand

LEMMA OrderStays ==
  ASSUME NEW T \in Seq(Placing!Discussions), NEW U \in Seq(Placing!Discussions), Grows(T, U), NEW n, NEW u,
         Settled(n, u),
         NEW o \in Orders, GoodOrder(o, T, n)
  PROVE  GoodOrder(o, U, u)
<1>. USE Sorts
<1>1. /\ Len(T) \in Nat /\ Len(U) \in Nat /\ Len(T) <= Len(U)
      /\ \A t \in (1 .. Len(T)) \cup {NULL} : t \in (1 .. Len(U)) \cup {NULL}
      /\ \A t \in (1 .. Len(T)) \cup {NULL} : t # NULL => t \in 1 .. Len(T)
  BY DEF Grows
<1>2. o.thread \in (1 .. Len(T)) \cup {NULL} BY DEF GoodOrder
<1>3. o.thread # NULL => /\ U[o.thread].channel = T[o.thread].channel
                         /\ U[o.thread].live => T[o.thread].live
  BY <1>1, <1>2 DEF Grows
<1>4. o.step \in {"moving", "syncing"} /\ Attached(u, o.thread) => u.at # NULL
  BY DEF Settled, Attached, GoodOrder
<1>5. o.step = "noting" => o.thread # NULL BY DEF GoodOrder
<1>. QED BY <1>1, <1>2, <1>3, <1>4, <1>5 DEF GoodOrder, Alive

LEMMA OneErrand ==
  ASSUME PlacementInv, NEW p \in Placing!Procs, NEW e \in Errands, errand' = [errand EXCEPT ![p] = e],
         threads' \in Seq(Placing!Discussions), Grows(threads, threads'), kind' = kind,
         version' \in Nat, version <= version', GoodErrand(p, e, kind, version', threads')
  PROVE  /\ ErrandKinds' /\ errand'[p] = e
         /\ \A q \in Placing!Procs \ {p} : errand'[q] = errand[q]
<1>1. /\ errand \in [Placing!Procs -> Errands] /\ \A q \in Placing!Procs : GoodErrand(q, errand[q], kind,
         version, threads)
      /\ version \in Nat BY DEF PlacementInv, ErrandKinds, EntryKinds
<1>2. errand' \in [Placing!Procs -> Errands] /\ errand'[p] = e
        /\ \A q \in Placing!Procs \ {p} : errand'[q] = errand[q] BY <1>1
<1>3. ASSUME NEW q \in Placing!Procs PROVE GoodErrand(q, errand'[q], kind, version', threads')
  <2>1. CASE q = p BY <1>2, <2>1
  <2>2. CASE q # p
    <3>1. errand'[q] = errand[q] /\ errand[q] \in Errands BY <1>1, <1>2, <2>2
    <3>2. GoodErrand(q, errand[q], kind, version', threads') BY <1>1, <3>1, SameThreads, ErrandStays
    <3>. QED BY <3>1, <3>2
  <2>. QED BY <2>1, <2>2
<1>. QED BY <1>2, <1>3 DEF ErrandKinds

LEMMA SameErrands ==
  ASSUME PlacementInv, errand' = errand,
         threads' \in Seq(Placing!Discussions), Grows(threads, threads'), kind' = kind,
         version' \in Nat, version <= version'
  PROVE  ErrandKinds'
<1>1. /\ errand \in [Placing!Procs -> Errands] /\ \A q \in Placing!Procs : GoodErrand(q, errand[q], kind,
         version, threads)
      /\ version \in Nat BY DEF PlacementInv, ErrandKinds, EntryKinds
<1>2. ASSUME NEW q \in Placing!Procs PROVE GoodErrand(q, errand[q], kind, version', threads')
  BY <1>1, SameThreads, ErrandStays
<1>. QED BY <1>1, <1>2 DEF ErrandKinds

LEMMA OneOrder ==
  ASSUME PlacementInv, NEW m \in Movers, NEW o \in Orders, cmd' = [cmd EXCEPT ![m] = o],
         threads' \in Seq(Placing!Discussions), Grows(threads, threads'), Settled(entry, entry'),
         GoodOrder(o, threads', entry')
  PROVE  /\ OrderKinds' /\ cmd'[m] = o
         /\ \A q \in Movers \ {m} : cmd'[q] = cmd[q]
<1>1. cmd \in [Movers -> Orders] /\ \A q \in Movers : GoodOrder(cmd[q], threads, entry)
  BY DEF PlacementInv, OrderKinds
<1>2. cmd' \in [Movers -> Orders] /\ cmd'[m] = o /\ \A q \in Movers \ {m} : cmd'[q] = cmd[q] BY <1>1
<1>3. ASSUME NEW q \in Movers PROVE GoodOrder(cmd'[q], threads', entry')
  <2>1. CASE q = m BY <1>2, <2>1
  <2>2. CASE q # m
    <3>1. cmd'[q] = cmd[q] /\ cmd[q] \in Orders BY <1>1, <1>2, <2>2
    <3>2. GoodOrder(cmd[q], threads', entry') BY <1>1, <3>1, SameThreads, OrderStays
    <3>. QED BY <3>1, <3>2
  <2>. QED BY <2>1, <2>2
<1>. QED BY <1>2, <1>3 DEF OrderKinds

LEMMA SameOrders ==
  ASSUME PlacementInv, cmd' = cmd,
         threads' \in Seq(Placing!Discussions), Grows(threads, threads'), Settled(entry, entry')
  PROVE  OrderKinds'
<1>1. cmd \in [Movers -> Orders] /\ \A q \in Movers : GoodOrder(cmd[q], threads, entry)
  BY DEF PlacementInv, OrderKinds
<1>2. ASSUME NEW q \in Movers PROVE GoodOrder(cmd[q], threads', entry') BY <1>1, SameThreads, OrderStays
<1>. QED BY <1>1, <1>2 DEF OrderKinds

LEMMA ServerStays ==
  ASSUME PlacementInv, UNCHANGED <<kind, binding, lastId, mapped>>, breaks' = breaks \/ Placing!Break,
         binding = 0 => entry' = NULL
  PROVE  ServerKinds'
<1>. USE Sorts
<1>1. breaks' \in 0 .. MaxBreaks /\ breaks' >= breaks /\ breaks \in Nat
  BY DEF PlacementInv, ServerKinds, Placing!Break
<1>2. lastId \in Nat /\ (lastId <= breaks + 1 => lastId <= breaks' + 1) /\ (lastId <= breaks
        => lastId <= breaks')
  <2>1. lastId \in Nat /\ breaks' \in Nat BY <1>1 DEF PlacementInv, ServerKinds
  <2>2. breaks \in Nat /\ breaks <= breaks' BY <1>1
  <2>3. ASSUME NEW a \in Nat, NEW b \in Nat, NEW c \in Nat, b <= c
        PROVE  (a <= b + 1 => a <= c + 1) /\ (a <= b => a <= c) BY ONLY <2>3
  <2>. QED BY ONLY <2>1, <2>2, <2>3
<1>. QED BY <1>1, <1>2 DEF PlacementInv, ServerKinds

\* A row of the threads T, at version v.
GoodRow(n, T, v) ==
    n = NULL \/ /\ n \in Placing!Rows /\ n.thread \in (1 .. Len(T)) \cup {NULL} /\ n.stamp <= v
                /\ n.thread # NULL /\ n.at # NULL => n.at = T[n.thread].channel

LEMMA RowStays ==
  ASSUME NEW T \in Seq(Placing!Discussions), NEW U \in Seq(Placing!Discussions), Grows(T, U),
         NEW v \in Nat, NEW w \in Nat, v <= w, NEW n, GoodRow(n, T, v)
  PROVE  GoodRow(n, U, w)
<1>. USE Sorts
<1>1. /\ Len(T) \in Nat /\ Len(U) \in Nat /\ Len(T) <= Len(U)
      /\ \A t \in (1 .. Len(T)) \cup {NULL} : t \in (1 .. Len(U)) \cup {NULL}
      /\ \A t \in (1 .. Len(T)) \cup {NULL} : t # NULL => t \in 1 .. Len(T)
  BY DEF Grows
<1>2. CASE n = NULL BY <1>2 DEF GoodRow
<1>3. CASE n # NULL
  <2>1. n \in Placing!Rows /\ n.thread \in (1 .. Len(T)) \cup {NULL} /\ n.stamp <= v BY <1>3 DEF GoodRow
  <2>2. n.stamp \in Nat BY <2>1 DEF Placing!Rows
  <2>3. n.stamp <= w BY <2>1, <2>2
  <2>4. n.thread # NULL /\ n.at # NULL => n.at = U[n.thread].channel BY <1>1, <1>3, <2>1 DEF GoodRow, Grows
  <2>. QED BY <1>1, <2>1, <2>3, <2>4 DEF GoodRow
<1>. QED BY <1>2, <1>3

LEMMA EntryStays ==
  ASSUME PlacementInv, edits' \in 0 .. MaxEdits, version' \in 0 .. edits', unread' \subseteq 1 .. version',
         threads' \in Seq(Placing!Discussions), Len(threads') <= MaxThreads, GoodRow(entry', threads',
         version'),
         unmoved' \in BOOLEAN, late' \subseteq 1 .. Len(threads'), alone' \subseteq 1 .. Len(threads')
  PROVE  EntryKinds' BY DEF EntryKinds, GoodRow, Known

LEMMA RowIs ==
  ASSUME PlacementInv
  PROVE  /\ GoodRow(entry, threads, version)
         /\ edits \in 0 .. MaxEdits /\ edits \in Nat /\ version \in 0 .. edits /\ version \in Nat
         /\ unread \subseteq 1 .. version
         /\ threads \in Seq(Placing!Discussions) /\ Len(threads) \in Nat /\ Len(threads) <= MaxThreads
         /\ entry # NULL => /\ entry.thread \in (1 .. Len(threads)) \cup {NULL}
                            /\ entry.thread # NULL => entry.thread \in 1 .. Len(threads)
         /\ unmoved \in BOOLEAN /\ late \subseteq 1 .. Len(threads) /\ alone \subseteq 1 .. Len(threads)
<1>. USE Sorts DEF PlacementInv
<1>1. /\ edits \in 0 .. MaxEdits /\ version \in 0 .. edits /\ unread \subseteq 1 .. version
      /\ threads \in Seq(Placing!Discussions) /\ Len(threads) \in Nat /\ Len(threads) <= MaxThreads
      /\ unmoved \in BOOLEAN /\ late \subseteq 1 .. Len(threads) /\ alone \subseteq 1 .. Len(threads)
  BY DEF EntryKinds
<1>2. edits \in Nat /\ version \in Nat BY <1>1
<1>3. GoodRow(entry, threads, version) BY DEF EntryKinds, GoodRow, Known
<1>4. entry # NULL => entry.thread \in (1 .. Len(threads)) \cup {NULL} BY <1>3 DEF GoodRow
<1>. QED BY <1>1, <1>2, <1>3, <1>4

\* The step is of p, and of nobody else.
StepOf(p) ==
    /\ \A q \in Placing!Procs \ {p} : errand'[q] = errand[q]
    /\ \A m \in Movers \ {p} : cmd'[m] = cmd[m]

LEMMA NoneForgottenStays ==
  ASSUME PlacementInv, NEW p, StepOf(p), Grows(threads, threads'),
         alone \subseteq alone',
         \A t \in 1 .. Len(threads) :
            (/\ threads'[t].live
             /\ \/ Placing!PointsAt(t)
                \/ p \in Placing!Procs /\ errand[p].new = t /\ errand[p].step \in Claiming
                \/ p \in Movers /\ cmd[p].thread = t /\ cmd[p].step = "posting")
            => SeenTo(t)'
  PROVE  /\ \A t \in 1 .. Len(threads) : threads'[t].live => SeenTo(t)'
         /\ Len(threads') = Len(threads) => NoneForgotten'
<1>. SUFFICES ASSUME NEW t \in 1 .. Len(threads), threads'[t].live PROVE SeenTo(t)' BY DEF NoneForgotten
<1>1. SeenTo(t) BY DEF Grows, PlacementInv, NoneForgotten
<1>2. CASE Placing!PointsAt(t) BY <1>2
<1>3. CASE t \in alone \/ (threads[t].told /\ threads[t].shut) BY <1>3 DEF Grows, SeenTo
<1>4. ASSUME NEW q \in Placing!Procs, errand[q].new = t, errand[q].step \in Claiming PROVE SeenTo(t)'
  <2>1. CASE q = p BY <1>4, <2>1
  <2>2. CASE q # p BY <1>4, <2>2 DEF StepOf, SeenTo
  <2>. QED BY <2>1, <2>2
<1>5. ASSUME NEW m \in Movers, cmd[m].thread = t, cmd[m].step = "posting" PROVE SeenTo(t)'
  <2>1. CASE m = p BY <1>5, <2>1
  <2>2. CASE m # p BY <1>5, <2>2 DEF StepOf, SeenTo
  <2>. QED BY <2>1, <2>2
<1>. QED BY <1>1, <1>2, <1>3, <1>4, <1>5 DEF SeenTo

LEMMA PursuesStays ==
  ASSUME PlacementInv, NEW m \in Movers, Pursues(m), errand'[m] = errand[m], cmd'[m] = cmd[m],
         entry # NULL, entry.thread # NULL, entry'.thread = entry.thread, UNCHANGED <<kind, binding>>,
         mapped'[kind] = mapped[kind], Grows(threads, threads')
  PROVE  Pursues(m)'
<1>1. threads'[entry.thread].channel = threads[entry.thread].channel BY RowIs DEF Grows
<1>. QED BY <1>1 DEF Pursues

LEMMA PlacedStays ==
  ASSUME PlacementInv, NEW p, StepOf(p), UNCHANGED <<kind, binding, mapped>>, Grows(threads, threads'),
         entry' # NULL => entry'.thread = NULL \/ (entry # NULL /\ entry'.thread = entry.thread),
         unmoved => unmoved', late \subseteq late',
         (/\ p \in Movers /\ Pursues(p) /\ entry # NULL /\ entry' # NULL
          /\ Alive(threads, entry.thread) /\ entry'.thread = entry.thread)
            => (unmoved' \/ Pursues(p)' \/ threads[entry.thread].channel = Placing!InForce)
  PROVE  Placed'
<1>. SUFFICES ASSUME entry' # NULL, Placing!Live(entry.thread)'
              PROVE  \/ (threads[entry.thread].channel = Placing!InForce)' \/ unmoved'
                          \/ (entry.thread \in late)'
                     \/ \E m \in Movers : Pursues(m)' BY DEF Placed
<1>1. entry # NULL /\ entry'.thread = entry.thread /\ entry.thread # NULL BY DEF Placing!Live
<1>2. /\ threads'[entry.thread].channel = threads[entry.thread].channel
      /\ threads[entry.thread].live BY <1>1, RowIs DEF Grows, Placing!Live
<1>3. Placing!InForce' = Placing!InForce BY DEF Placing!InForce
<1>4. \/ threads[entry.thread].channel = Placing!InForce \/ unmoved \/ entry.thread \in late
      \/ \E m \in Movers : Pursues(m)
  BY <1>1, <1>2 DEF PlacementInv, Placed, Placing!Live
<1>5. ASSUME NEW m \in Movers, Pursues(m)
      PROVE  Pursues(m)' \/ unmoved' \/ threads[entry.thread].channel = Placing!InForce
  <2>1. CASE m = p BY <1>1, <1>2, <1>5, <2>1 DEF Alive
  <2>2. CASE m # p BY <1>1, <1>5, <2>2, PursuesStays, Sorts DEF StepOf
  <2>. QED BY <2>1, <2>2
<1>. QED BY <1>1, <1>2, <1>3, <1>4, <1>5

(* How a sync ends. *)

LEMMA RestingIs ==
  /\ Placing!Resting \in Errands /\ Placing!Resting.step = "idle"
  /\ \A p, k : \A v \in Nat, T \in Seq(Placing!Discussions) : GoodErrand(p, Placing!Resting, k, v, T)
<1>. USE Sorts
<1>1. /\ Placing!Resting \in Errands /\ Placing!Resting.step = "idle" /\ Placing!Resting.old = NULL
           /\ Placing!Resting.new = NULL
      /\ Placing!Resting.version = 0 /\ Placing!Resting.moves = FALSE
  BY DEF Placing!Resting, Errands, Numbers, Rooms
<1>. QED BY <1>1 DEF GoodErrand, UnderWay, Claiming

LEMMA NoOrderIs ==
  /\ Placing!NoOrder \in Orders /\ Placing!NoOrder.step = "idle"
  /\ \A T, n : GoodOrder(Placing!NoOrder, T, n)
<1>. USE Sorts
<1>1. Placing!NoOrder \in Orders /\ Placing!NoOrder.step = "idle" /\ Placing!NoOrder.thread = NULL
  BY DEF Placing!NoOrder, Orders, Placing!Kinds, Numbers, Rooms
<1>. QED BY <1>1 DEF GoodOrder

LEMMA FreedIs ==
  ASSUME PlacementInv, NEW p \in Placing!Procs, errand' = [errand EXCEPT ![p] = Placing!Resting],
         Placing!Freed(p),
         \A m \in Movers \ {p} : cmd'[m] = cmd[m],
         p \in Movers => cmd'[p].step # "syncing"
  PROVE  LocksHold'
<1>. USE Sorts DEF PlacementInv, LocksHold
<1>1. /\ errand'[p].step = "idle" /\ \A q \in Placing!Procs \ {p} : errand'[q] = errand[q]
  BY RestingIs DEF ErrandKinds
<1>2. holder' = IF holder = p THEN NULL ELSE holder BY DEF Placing!Freed
<1>3. \A q \in Placing!Procs : holder' = q <=> errand'[q].step \notin {"idle", "waiting"} BY <1>1, <1>2
<1>4. \A m \in Movers : errand'[m].step # "idle" <=> cmd'[m].step = "syncing" BY <1>1
<1>. QED BY <1>2, <1>3, <1>4

LEMMA RaisesIs ==
  ASSUME PlacementInv, NEW p \in Placing!Procs, errand[p].step # "idle", Placing!Raises(p),
         UNCHANGED <<kind, version>>, threads' \in Seq(Placing!Discussions), Grows(threads, threads'),
         Settled(entry, entry')
  PROVE  /\ ErrandKinds' /\ OrderKinds' /\ LocksHold' /\ StepOf(p)
         /\ unread' \subseteq 1 .. version /\ unmoved' \in BOOLEAN /\ (unmoved => unmoved')
         /\ p \in Movers => unmoved' = TRUE
<1>. USE Sorts DEF PlacementInv
<1>1. errand' = [errand EXCEPT ![p] = Placing!Resting] /\ Placing!Freed(p) BY DEF Placing!Raises
<1>2. ErrandKinds' /\ \A q \in Placing!Procs \ {p} : errand'[q] = errand[q]
  <2>1. version' \in Nat /\ version <= version' BY RowIs
  <2>. QED BY <1>1, <2>1, RestingIs, OneErrand
<1>3. CASE p \in Movers
  <2>1. cmd' = [cmd EXCEPT ![p] = Placing!NoOrder] /\ unmoved' = TRUE /\ UNCHANGED unread
    BY <1>3 DEF Placing!Raises
  <2>2. OrderKinds' /\ cmd'[p] = Placing!NoOrder /\ \A m \in Movers \ {p} : cmd'[m] = cmd[m]
    BY <1>3, <2>1, NoOrderIs, OneOrder
  <2>3. LocksHold' BY <1>1, <2>2, NoOrderIs, FreedIs
  <2>. QED BY <1>2, <2>1, <2>2, <2>3, RowIs DEF StepOf
<1>4. CASE p \notin Movers
  <2>1. /\ unread' = IF kind = "ticket" THEN unread ELSE unread \cup {errand[p].version}
        /\ UNCHANGED <<cmd, unmoved>> BY <1>4 DEF Placing!Raises
  <2>2. p \in Visits /\ errand[p] \in Errands /\ GoodErrand(p, errand[p], kind, version, threads)
    BY <1>4 DEF Placing!Procs, ErrandKinds
  <2>3. kind # "ticket" => errand[p].version \in 1 .. version
    <3>1. errand[p].version \in Nat /\ errand[p].version <= version BY <2>2 DEF Errands, GoodErrand
    <3>2. kind # "ticket" => errand[p].version # 0 BY <2>2 DEF GoodErrand
    <3>. QED BY <3>1, <3>2, RowIs
  <2>4. OrderKinds' BY <2>1, SameOrders
  <2>5. LocksHold' BY <1>1, <1>4, <2>1, FreedIs
  <2>6. unread' \subseteq 1 .. version BY <2>1, <2>3, RowIs
  <2>. QED BY <1>2, <1>4, <2>1, <2>4, <2>5, <2>6, RowIs DEF StepOf
<1>. QED BY <1>3, <1>4

LEMMA ReturnsIs ==
  ASSUME PlacementInv, NEW p \in Placing!Procs, NEW left, NEW turnedAway \in BOOLEAN,
         Placing!Returns(p, left, turnedAway), left \in (1 .. Len(threads)) \cup {NULL},
         errand[p].step # "idle",
         UNCHANGED <<kind, version>>, threads' \in Seq(Placing!Discussions), Grows(threads, threads'),
         Settled(entry, entry')
  PROVE  /\ ErrandKinds' /\ OrderKinds' /\ LocksHold' /\ StepOf(p)
         /\ unread' \subseteq 1 .. version /\ unmoved' \in BOOLEAN /\ (unmoved => unmoved')
         /\ p \in Movers /\ left = NULL /\ turnedAway => unmoved' = TRUE
         /\ p \in Movers /\ left # NULL => cmd'[p].step = "posting" /\ cmd'[p].thread = left
<1>. USE Sorts DEF PlacementInv
<1>1. errand' = [errand EXCEPT ![p] = Placing!Resting] /\ Placing!Freed(p) /\ UNCHANGED unread
  BY DEF Placing!Returns
<1>2. ErrandKinds' /\ \A q \in Placing!Procs \ {p} : errand'[q] = errand[q]
  <2>1. version' \in Nat /\ version <= version' BY RowIs
  <2>. QED BY <1>1, <2>1, RestingIs, OneErrand
<1>3. CASE p \notin Movers
  <2>1. UNCHANGED <<cmd, unmoved>> BY <1>3 DEF Placing!Returns
  <2>2. OrderKinds' BY <2>1, SameOrders
  <2>3. LocksHold' BY <1>1, <1>3, <2>1, FreedIs
  <2>. QED BY <1>1, <1>2, <1>3, <2>1, <2>2, <2>3, RowIs DEF StepOf
<1>4. CASE p \in Movers /\ left # NULL
  <2>. DEFINE o == [cmd[p] EXCEPT !.step = "posting", !.thread = left]
  <2>1. cmd' = [cmd EXCEPT ![p] = o] /\ UNCHANGED unmoved BY <1>4 DEF Placing!Returns
  <2>2. cmd[p] \in Orders /\ left \in 1 .. Len(threads) /\ left \in Nat BY <1>4, RowIs DEF OrderKinds
  <2>3. o \in Orders /\ o.step = "posting" /\ o.thread = left BY <2>2 DEF Orders, Numbers
  <2>4. left \in 1 .. Len(threads')
    <3>1. Len(threads) <= Len(threads') /\ Len(threads) \in Nat /\ Len(threads') \in Nat BY RowIs DEF Grows
    <3>. QED BY <2>2, <3>1
  <2>5. GoodOrder(o, threads', entry') BY <1>4, <2>3, <2>4 DEF GoodOrder
  <2>. HIDE DEF o
  <2>6. OrderKinds' /\ cmd'[p] = o /\ \A m \in Movers \ {p} : cmd'[m] = cmd[m]
    BY <1>4, <2>1, <2>3, <2>5, OneOrder
  <2>7. LocksHold' BY <1>1, <2>3, <2>6, FreedIs
  <2>. QED BY <1>1, <1>2, <1>4, <2>1, <2>3, <2>6, <2>7, RowIs DEF StepOf
<1>5. CASE p \in Movers /\ left = NULL
  <2>1. cmd' = [cmd EXCEPT ![p] = Placing!NoOrder] /\ unmoved' = (unmoved \/ turnedAway)
    BY <1>5 DEF Placing!Returns
  <2>2. OrderKinds' /\ cmd'[p] = Placing!NoOrder /\ \A m \in Movers \ {p} : cmd'[m] = cmd[m]
    BY <1>5, <2>1, NoOrderIs, OneOrder
  <2>3. LocksHold' BY <1>1, <2>2, NoOrderIs, FreedIs
  <2>4. unmoved' \in BOOLEAN /\ (unmoved => unmoved') /\ (turnedAway => unmoved' = TRUE) BY <2>1, RowIs
  <2>. QED BY <1>1, <1>2, <1>5, <2>2, <2>3, <2>4, RowIs DEF StepOf
<1>. QED BY <1>3, <1>4, <1>5

(* The world outside, and the server. *)

LEMMA EditStep == PlacementInv /\ Placing!Edit => PlacementInv'
<1>. SUFFICES ASSUME PlacementInv, Placing!Edit PROVE PlacementInv' OBVIOUS
<1>. USE Sorts
<1>1. /\ edits < MaxEdits /\ edits' = edits + 1 /\ version' = version + 1
      /\ unread' = IF kind = "ticket" THEN unread ELSE unread \cup {version + 1}
      /\ UNCHANGED <<kind, Placing!tables, threads, holder, errand, cmd, mappings, breaks, Placing!history>>
  BY DEF Placing!Edit
<1>2. UNCHANGED <<kind, binding, lastId, mapped, entry, threads, holder, errand, cmd, breaks, unmoved, late,
                alone>> BY <1>1 DEF Placing!tables, Placing!history
<1>3. /\ edits' \in 0 .. MaxEdits /\ version' \in 0 .. edits' /\ version' \in Nat /\ version <= version'
      /\ version + 1 \in 1 .. version' /\ \A v \in 1 .. version : v \in 1 .. version'
  BY <1>1, RowIs
<1>4. unread' \subseteq 1 .. version' BY <1>1, <1>3, RowIs
<1>5. Grows(threads, threads') /\ threads' \in Seq(Placing!Discussions) /\ Settled(entry, entry')
  BY <1>2, SameThreads
<1>6. GoodRow(entry', threads', version') BY <1>2, <1>3, <1>5, RowIs, RowStays
<1>7. ServerKinds' /\ LocksHold' BY <1>2 DEF PlacementInv, ServerKinds, LocksHold
<1>8. EntryKinds' BY <1>2, <1>3, <1>4, <1>5, <1>6, RowIs, EntryStays
<1>9. ErrandKinds' /\ OrderKinds' BY <1>2, <1>3, <1>5, SameErrands, SameOrders
<1>10. StepOf(NULL) BY <1>2 DEF StepOf
<1>11. NoneForgotten' BY <1>2 DEF PlacementInv, NoneForgotten, SeenTo, Placing!PointsAt
<1>12. Placed' BY <1>2, <1>5, <1>10, PlacedStays
<1>. QED BY <1>7, <1>8, <1>9, <1>11, <1>12 DEF PlacementInv

LEMMA GoneIs ==
  ASSUME PlacementInv, NEW t \in 1 .. Len(threads), threads' = [threads EXCEPT ![t].live = FALSE]
  PROVE  /\ threads' \in Seq(Placing!Discussions) /\ Len(threads') = Len(threads) /\ Grows(threads,
            threads')
         /\ ~threads'[t].live
<1>1. threads \in Seq(Placing!Discussions) /\ Len(threads) \in Nat BY RowIs
<1>2. threads[t] \in Placing!Discussions BY <1>1
<1>. DEFINE d == [threads[t] EXCEPT !.live = FALSE]
<1>3. d \in Placing!Discussions /\ d.channel = threads[t].channel /\ d.live = FALSE
      /\ d.told = threads[t].told /\ d.shut = threads[t].shut
  BY <1>2 DEF Placing!Discussions
<1>4. threads' = [threads EXCEPT ![t] = d] OBVIOUS
<1>. HIDE DEF d
<1>5. /\ threads' \in Seq(Placing!Discussions) /\ Len(threads') = Len(threads)
      /\ threads'[t] = d /\ \A u \in (1 .. Len(threads)) \ {t} : threads'[u] = threads[u]
  <2>1. threads \in [1 .. Len(threads) -> Placing!Discussions] BY <1>1
  <2>2. threads' \in [1 .. Len(threads) -> Placing!Discussions] BY ONLY <1>3, <1>4, <2>1
  <2>3. threads' \in Seq(Placing!Discussions) BY ONLY <1>1, <2>2
  <2>4. Len(threads') = Len(threads) BY ONLY <1>1, <2>2, <2>3
  <2>5. threads'[t] = d /\ \A u \in (1 .. Len(threads)) \ {t} : threads'[u] = threads[u] BY <1>4, <2>1
  <2>. QED BY <2>3, <2>4, <2>5
<1>6. Grows(threads, threads')
  <2>1. Len(threads) <= Len(threads') BY <1>1, <1>5
  <2>2. ASSUME NEW u \in 1 .. Len(threads)
        PROVE  /\ threads'[u].channel = threads[u].channel
               /\ threads'[u].live => threads[u].live
               /\ threads[u].told => threads'[u].told
               /\ threads[u].shut => threads'[u].shut
    <3>1. CASE u = t BY <1>3, <1>5, <3>1
    <3>2. CASE u # t BY <1>5, <3>2
    <3>. QED BY <3>1, <3>2
  <2>. QED BY <2>1, <2>2 DEF Grows
<1>. QED BY <1>3, <1>5, <1>6

LEMMA DeleteStep ==
  ASSUME PlacementInv, NEW t \in DOMAIN threads, Placing!Delete(t) PROVE PlacementInv'
<1>. USE Sorts
<1>1. /\ Placing!Break /\ threads[t].live /\ threads' = [threads EXCEPT ![t].live = FALSE]
      /\ \/ UNCHANGED entry
         \/ Placing!PointsAt(t) /\ entry' = [entry EXCEPT !.thread = NULL, !.at = NULL]
      /\ UNCHANGED <<kind, binding, lastId, mapped, holder, errand, cmd, Placing!hub, mappings,
                   Placing!history>> BY DEF Placing!Delete
<1>2. UNCHANGED <<kind, binding, lastId, mapped, holder, errand, cmd, edits, version, unread, unmoved, late,
                alone>> BY <1>1 DEF Placing!hub, Placing!history
<1>3. t \in 1 .. Len(threads) BY RowIs
<1>4. /\ threads' \in Seq(Placing!Discussions) /\ Len(threads') = Len(threads) /\ Grows(threads, threads')
      /\ ~threads'[t].live BY <1>1, <1>3, GoneIs
<1>5. CASE UNCHANGED entry
  <2>1. Settled(entry, entry') /\ GoodRow(entry', threads', version')
    BY <1>2, <1>4, <1>5, RowIs, RowStays, SameThreads
  <2>2. ServerKinds' BY <1>1, <1>2, <1>5, ServerStays DEF PlacementInv, ServerKinds
  <2>3. EntryKinds' BY <1>2, <1>4, <2>1, RowIs, EntryStays
  <2>4. ErrandKinds' /\ OrderKinds' BY <1>2, <1>4, <2>1, RowIs, SameErrands, SameOrders
  <2>5. LocksHold' BY <1>2 DEF PlacementInv, LocksHold
  <2>6. StepOf(NULL) BY <1>2 DEF StepOf
  <2>7. NoneForgotten'
    <3>1. \A u \in 1 .. Len(threads) : Placing!PointsAt(u) => SeenTo(u)' BY <1>5 DEF Placing!PointsAt, SeenTo
    <3>. QED BY <1>2, <1>4, <2>6, <3>1, NoneForgottenStays
  <2>8. Placed' BY <1>2, <1>4, <1>5, <2>6, PlacedStays
  <2>. QED BY <2>2, <2>3, <2>4, <2>5, <2>7, <2>8 DEF PlacementInv
<1>6. CASE Placing!PointsAt(t) /\ entry' = [entry EXCEPT !.thread = NULL, !.at = NULL]
  <2>0. entry \in Placing!Rows /\ entry.stamp <= version /\ entry.thread = t /\ entry # NULL
    BY <1>6, RowIs DEF Placing!PointsAt, GoodRow
  <2>1. /\ entry' \in Placing!Rows /\ entry'.thread = NULL /\ entry'.at = NULL /\ entry'.stamp <= version
        /\ entry' # NULL BY <1>6, <2>0 DEF Placing!Rows
  <2>2. Settled(entry, entry') /\ GoodRow(entry', threads', version') BY <1>2, <2>1 DEF Settled, GoodRow
  <2>3. ServerKinds' BY <1>1, <1>2, <2>0, ServerStays DEF PlacementInv, ServerKinds
  <2>4. EntryKinds' BY <1>2, <1>4, <2>2, RowIs, EntryStays
  <2>5. ErrandKinds' /\ OrderKinds' BY <1>2, <1>4, <2>2, RowIs, SameErrands, SameOrders
  <2>6. LocksHold' BY <1>2 DEF PlacementInv, LocksHold
  <2>7. StepOf(NULL) BY <1>2 DEF StepOf
  <2>8. NoneForgotten'
    <3>1. \A u \in 1 .. Len(threads) : Placing!PointsAt(u) => u = t BY <2>0 DEF Placing!PointsAt
    <3>. QED BY <1>2, <1>4, <2>7, <3>1, NoneForgottenStays
  <2>9. Placed' BY <2>1 DEF Placed, Placing!Live
  <2>. QED BY <2>3, <2>4, <2>5, <2>6, <2>8, <2>9 DEF PlacementInv
<1>. QED BY <1>1, <1>5, <1>6

LEMMA RegisterStep ==
  ASSUME PlacementInv, NEW c \in Channels, Placing!Register(c) PROVE PlacementInv'
<1>. USE Sorts
<1>1. /\ binding = 0 /\ binding' = lastId + 1 /\ lastId' = lastId + 1
      /\ mapped' = [k \in Placing!Kinds |-> IF k = "pr" THEN c ELSE NULL]
      /\ UNCHANGED <<kind, entry, threads, holder, errand, cmd, Placing!hub, mappings, breaks,
                   Placing!history>> BY DEF Placing!Register
<1>2. UNCHANGED <<kind, entry, threads, holder, errand, cmd, edits, version, unread, breaks, unmoved, late,
                alone>> BY <1>1 DEF Placing!hub, Placing!history
<1>3. entry = NULL BY <1>1 DEF PlacementInv, ServerKinds
<1>4. ServerKinds'
  <2>1. mapped' \in [Placing!Kinds -> Rooms] /\ mapped'["pr"] = c BY <1>1 DEF Rooms, Placing!Kinds
  <2>2. lastId \in Nat /\ breaks \in Nat /\ lastId <= breaks BY <1>1 DEF PlacementInv, ServerKinds
  <2>3. lastId + 1 \in Nat \ {0} /\ lastId + 1 <= breaks + 1 /\ lastId + 1 # 0 BY ONLY <2>2
  <2>. QED BY <1>1, <1>2, <2>1, <2>3 DEF PlacementInv, ServerKinds
<1>5. EntryKinds' /\ LocksHold' BY <1>2 DEF PlacementInv, EntryKinds, LocksHold, Known
<1>6. ErrandKinds' /\ OrderKinds' BY <1>2 DEF PlacementInv, ErrandKinds, OrderKinds
<1>7. NoneForgotten' BY <1>2 DEF PlacementInv, NoneForgotten, SeenTo, Placing!PointsAt
<1>8. Placed' BY <1>2, <1>3 DEF Placed
<1>. QED BY <1>4, <1>5, <1>6, <1>7, <1>8 DEF PlacementInv

LEMMA UnregisterStep == PlacementInv /\ Placing!Unregister => PlacementInv'
<1>. SUFFICES ASSUME PlacementInv, Placing!Unregister PROVE PlacementInv' OBVIOUS
<1>. USE Sorts
<1>1. /\ Placing!Break /\ binding # 0 /\ binding' = 0
      /\ mapped' = [k \in Placing!Kinds |-> NULL] /\ entry' = NULL
      /\ Placing!Alone(IF entry = NULL THEN {} ELSE {entry.thread})
      /\ UNCHANGED <<kind, lastId, threads, holder, errand, cmd, Placing!hub, mappings, unmoved, late>>
  BY DEF Placing!Unregister
<1>2. UNCHANGED <<kind, lastId, threads, holder, errand, cmd, edits, version, unread, unmoved, late>>
  BY <1>1 DEF Placing!hub
<1>3. alone' = alone \cup ((IF entry = NULL THEN {} ELSE {entry.thread}) \ {NULL}) BY <1>1 DEF Placing!Alone
<1>4. alone \subseteq alone' /\ alone' \subseteq 1 .. Len(threads) /\ \A t \in 1 .. Len(threads) :
        Placing!PointsAt(t) => t \in alone' BY <1>3, RowIs DEF Placing!PointsAt
<1>5. ServerKinds'
  <2>1. breaks' \in 0 .. MaxBreaks /\ breaks' = breaks + 1 /\ breaks \in Nat
    BY <1>1 DEF PlacementInv, ServerKinds, Placing!Break
  <2>2. lastId \in Nat \ {0} /\ lastId <= breaks + 1 BY <1>1 DEF PlacementInv, ServerKinds
  <2>3. lastId <= breaks' /\ lastId <= breaks' + 1
    <3>1. lastId \in Nat BY <2>2
    <3>. QED BY ONLY <2>1, <2>2, <3>1
  <2>4. mapped' \in [Placing!Kinds -> Rooms] BY <1>1 DEF Rooms
  <2>5. kind' \in Placing!Kinds /\ lastId' \in Nat \ {0} BY <1>2, <2>2 DEF PlacementInv, ServerKinds
  <2>. QED BY <1>1, <1>2, <2>1, <2>3, <2>4, <2>5 DEF ServerKinds
<1>6. Settled(entry, entry') /\ GoodRow(entry', threads', version') BY <1>1 DEF Settled, GoodRow
<1>7. EntryKinds' BY <1>2, <1>4, <1>6, RowIs, EntryStays
<1>8. ErrandKinds' /\ OrderKinds'
  <2>1. threads' \in Seq(Placing!Discussions) /\ Grows(threads, threads') /\ version' \in Nat
          /\ version <= version' BY <1>2, RowIs, SameThreads
  <2>. QED BY <1>2, <1>6, <2>1, SameErrands, SameOrders
<1>9. LocksHold' BY <1>2 DEF PlacementInv, LocksHold
<1>10. NoneForgotten'
  <2>1. StepOf(NULL) BY <1>2 DEF StepOf
  <2>2. \A t \in 1 .. Len(threads) : Placing!PointsAt(t) => SeenTo(t)' BY <1>4 DEF SeenTo
  <2>. QED BY <1>2, <1>4, <2>1, <2>2, SameThreads, NoneForgottenStays
<1>11. Placed' BY <1>1 DEF Placed
<1>. QED BY <1>5, <1>7, <1>8, <1>9, <1>10, <1>11 DEF PlacementInv

(* A sync up to the thread. *)

\* A sync goes on with the lock, and the item has the thread it had.
LEMMA SyncMoves ==
  ASSUME PlacementInv, NEW p \in Placing!Procs, NEW e \in Errands, errand' = [errand EXCEPT ![p] = e],
         UNCHANGED <<kind, binding, lastId, mapped, threads, cmd, version, edits, unread, breaks, unmoved,
                   late, alone>>,
         GoodRow(entry', threads, version), Settled(entry, entry'), binding = 0 => entry' = NULL,
         entry # NULL => entry' # NULL /\ entry'.thread = entry.thread,
         entry = NULL /\ entry' # NULL => entry'.thread = NULL,
         GoodErrand(p, e, kind, version, threads),
         errand[p].step # "idle", e.step \notin {"idle", "waiting"},
         errand[p].step \in Claiming => e.step \in Claiming /\ e.new = errand[p].new,
         holder \in {p, NULL}, holder' = p,
         (p \in Movers /\ Pursues(p) /\ entry # NULL /\ Alive(threads, entry.thread))
            => (Pursues(p)' \/ threads[entry.thread].channel = Placing!InForce)
  PROVE  PlacementInv'
<1>. USE Sorts
<1>1. /\ threads' \in Seq(Placing!Discussions) /\ Grows(threads, threads') /\ Len(threads') = Len(threads)
      /\ version' \in Nat /\ version <= version' BY RowIs, SameThreads
<1>2. /\ ErrandKinds' /\ errand'[p] = e
      /\ \A q \in Placing!Procs \ {p} : errand'[q] = errand[q]
  BY <1>1, OneErrand
<1>3. StepOf(p) BY <1>2 DEF StepOf
<1>4. ServerKinds' BY ServerStays
<1>5. EntryKinds' BY <1>1, RowIs, EntryStays
<1>6. OrderKinds' BY <1>1, SameOrders
<1>7. LocksHold'
  <2>1. \A q \in Placing!Procs : holder' = q <=> errand'[q].step \notin {"idle", "waiting"}
    BY <1>2 DEF PlacementInv, LocksHold
  <2>2. \A m \in Movers : errand'[m].step # "idle" <=> cmd'[m].step = "syncing"
    BY <1>2 DEF PlacementInv, LocksHold
  <2>. QED BY <2>1, <2>2 DEF LocksHold
<1>8. NoneForgotten'
  <2>1. ASSUME NEW t \in 1 .. Len(threads)
        PROVE  /\ Placing!PointsAt(t) => SeenTo(t)'
               /\ errand[p].new = t /\ errand[p].step \in Claiming => SeenTo(t)'
               /\ p \in Movers => cmd[p].step # "posting"
    <3>1. Placing!PointsAt(t) => Placing!PointsAt(t)' BY DEF Placing!PointsAt
    <3>2. errand[p].new = t /\ errand[p].step \in Claiming => SeenTo(t)' BY <1>2 DEF SeenTo
    <3>3. p \in Movers => cmd[p].step # "posting" BY DEF PlacementInv, LocksHold
    <3>. QED BY <3>1, <3>2, <3>3 DEF SeenTo
  <2>. QED BY <1>1, <1>3, <2>1, NoneForgottenStays
<1>9. Placed' BY <1>1, <1>3, PlacedStays
<1>. QED BY <1>2, <1>4, <1>5, <1>6, <1>7, <1>8, <1>9 DEF PlacementInv

\* A sync that had opened nothing ends, and the item has the thread it had.
LEMMA SyncEnds ==
  ASSUME PlacementInv, NEW p \in Placing!Procs, NEW turnedAway \in BOOLEAN,
         errand[p].step # "idle", errand[p].step \notin Claiming,
         Placing!Raises(p) \/ Placing!Returns(p, NULL, turnedAway),
         UNCHANGED <<kind, binding, lastId, mapped, entry, threads, version, edits, late, alone>>,
         breaks' = breaks \/ Placing!Break,
         Placing!Raises(p) \/ turnedAway \/ ~(p \in Movers /\ Pursues(p))
           \/ threads[entry.thread].channel = Placing!InForce
  PROVE  PlacementInv'
<1>. USE Sorts
<1>1. /\ threads' \in Seq(Placing!Discussions) /\ Grows(threads, threads') /\ Len(threads') = Len(threads)
      /\ Settled(entry, entry') /\ GoodRow(entry', threads', version')
  BY RowIs, SameThreads
<1>2. /\ ErrandKinds' /\ OrderKinds' /\ LocksHold' /\ StepOf(p)
      /\ unread' \subseteq 1 .. version /\ unmoved' \in BOOLEAN /\ (unmoved => unmoved')
      /\ p \in Movers => \/ unmoved' = TRUE \/ ~Pursues(p) \/ threads[entry.thread].channel = Placing!InForce
  <2>1. CASE Placing!Raises(p) BY <1>1, <2>1, RaisesIs
  <2>2. CASE Placing!Returns(p, NULL, turnedAway) /\ ~Placing!Raises(p) BY <1>1, <2>2, ReturnsIs
  <2>. QED BY <2>1, <2>2
<1>3. ServerKinds' BY ServerStays DEF PlacementInv, ServerKinds
<1>4. EntryKinds' BY <1>1, <1>2, RowIs, EntryStays
<1>5. NoneForgotten'
  <2>1. ASSUME NEW t \in 1 .. Len(threads)
        PROVE  /\ Placing!PointsAt(t) => SeenTo(t)'
               /\ p \in Movers => cmd[p].step # "posting"
    <3>1. Placing!PointsAt(t) => Placing!PointsAt(t)' BY DEF Placing!PointsAt
    <3>2. p \in Movers => cmd[p].step # "posting" BY DEF PlacementInv, LocksHold
    <3>. QED BY <3>1, <3>2 DEF SeenTo
  <2>. QED BY <1>1, <1>2, <2>1, NoneForgottenStays
<1>6. Placed' BY <1>1, <1>2, PlacedStays
<1>. QED BY <1>2, <1>3, <1>4, <1>5, <1>6 DEF PlacementInv

LEMMA BeginIs ==
  ASSUME NEW v \in Nat, NEW after \in BOOLEAN
  PROVE  LET e == [Placing!Resting EXCEPT !.step = "waiting", !.version = v, !.moves = after]
         IN  /\ e \in Errands /\ e.step = "waiting" /\ e.version = v /\ e.moves = after
             /\ e.old = NULL /\ e.new = NULL
BY DEF Placing!Resting, Errands, Numbers, Rooms

LEMMA DeliverStep ==
  ASSUME PlacementInv, NEW s \in Visits, Placing!Deliver(s) PROVE PlacementInv'
<1>. USE Sorts
<1>1. PICK v \in Nat :
         /\ Placing!Begin(s, v, FALSE) /\ unread' \subseteq unread /\ v <= version
         /\ kind # "ticket" => v # 0
  <2>1. version \in Nat /\ unread \subseteq 1 .. version BY RowIs
  <2>2. CASE \E v \in unread : unread' = unread \ {v} /\ Placing!Begin(s, v, FALSE)
    <3>1. PICK v \in unread : unread' = unread \ {v} /\ Placing!Begin(s, v, FALSE) BY <2>2
    <3>2. v \in Nat /\ v <= version /\ v # 0 BY <2>1
    <3>3. unread' \subseteq unread BY <3>1
    <3>. QED BY <3>1, <3>2, <3>3 DEF Placing!Begin
  <2>3. CASE kind = "ticket" /\ Placing!Begin(s, version, FALSE) /\ UNCHANGED unread
    <3>1. version <= version BY <2>1
    <3>. QED BY <2>1, <2>3, <3>1 DEF Placing!Begin
  <2>. QED BY <2>2, <2>3 DEF Placing!Deliver
<1>2. /\ errand[s].step = "idle"
      /\ UNCHANGED <<kind, binding, lastId, mapped, entry, threads, holder, cmd, version, edits, breaks,
                   unmoved, late, alone>>
  BY DEF Placing!Deliver, Placing!tables, Placing!history
<1>. DEFINE e == [Placing!Resting EXCEPT !.step = "waiting", !.version = v, !.moves = FALSE]
<1>3. /\ e \in Errands /\ e.step = "waiting" /\ e.version = v /\ e.moves = FALSE
      /\ e.old = NULL /\ e.new = NULL BY BeginIs
<1>4. errand' = [errand EXCEPT ![s] = e] BY <1>1 DEF Placing!Begin
<1>. HIDE DEF e
<1>5. GoodErrand(s, e, kind, version, threads) BY <1>1, <1>3 DEF GoodErrand, UnderWay, Claiming
<1>6. /\ threads' \in Seq(Placing!Discussions) /\ Grows(threads, threads') /\ Len(threads') = Len(threads)
      /\ Settled(entry, entry') /\ GoodRow(entry', threads', version')
      /\ version' \in Nat /\ version <= version' BY <1>2, RowIs, SameThreads
<1>7. s \in Placing!Procs /\ s \notin Movers OBVIOUS
<1>8. /\ ErrandKinds' /\ errand'[s] = e
      /\ \A q \in Placing!Procs \ {s} : errand'[q] = errand[q]
  BY <1>2, <1>3, <1>4, <1>5, <1>6, <1>7, OneErrand
<1>9. StepOf(s) BY <1>2, <1>8 DEF StepOf
<1>10. ServerKinds' BY <1>2 DEF PlacementInv, ServerKinds
<1>11. EntryKinds' BY <1>1, <1>2, <1>6, RowIs, EntryStays
<1>12. OrderKinds' BY <1>2, <1>6, SameOrders
<1>13. LocksHold' BY <1>2, <1>3, <1>7, <1>8 DEF PlacementInv, LocksHold
<1>14. NoneForgotten'
  <2>1. \A t \in 1 .. Len(threads) : Placing!PointsAt(t) => SeenTo(t)' BY <1>2 DEF Placing!PointsAt, SeenTo
  <2>2. errand[s].step \notin Claiming BY <1>2 DEF Claiming
  <2>. QED BY <1>2, <1>6, <1>7, <1>9, <2>1, <2>2, NoneForgottenStays
<1>15. Placed' BY <1>2, <1>6, <1>7, <1>9, PlacedStays
<1>. QED BY <1>8, <1>10, <1>11, <1>12, <1>13, <1>14, <1>15 DEF PlacementInv

\* What holds of a sync that is under way.
LEMMA ErrandIs ==
  ASSUME PlacementInv, NEW p \in Placing!Procs
  PROVE  /\ errand[p] \in Errands /\ GoodErrand(p, errand[p], kind, version, threads)
         /\ errand[p].step \notin {"idle", "waiting"} => holder = p
         /\ p \in Movers => (cmd[p].step = "syncing" <=> errand[p].step # "idle")
         /\ p \in Movers => cmd[p] \in Orders /\ GoodOrder(cmd[p], threads, entry)
BY DEF PlacementInv, ErrandKinds, OrderKinds, LocksHold

LEMMA PlaceStep ==
  ASSUME PlacementInv, NEW p \in Placing!Procs, Placing!Place(p) PROVE PlacementInv'
<1>. USE Sorts
<1>1. /\ errand[p].step = "waiting" /\ holder = NULL
      /\ UNCHANGED <<kind, binding, lastId, mapped, entry, threads, version, edits, breaks, late, alone>>
  BY DEF Placing!Place, Placing!tables
<1>2. kind \in Placing!Kinds /\ mapped \in [Placing!Kinds -> Rooms] /\ binding \in Nat
  BY DEF PlacementInv, ServerKinds
<1>3. CASE mapped[kind] = NULL /\ (Placing!Lender(kind) = NULL \/ binding = 0)
  <2>1. Placing!Returns(p, NULL, TRUE) BY <1>3 DEF Placing!Place, Placing!NotTracked
  <2>. QED BY <1>1, <2>1, SyncEnds DEF Claiming
<1>4. CASE ~(mapped[kind] = NULL /\ (Placing!Lender(kind) = NULL \/ binding = 0))
  <2>. DEFINE e == [errand[p] EXCEPT !.binding = binding, !.to = mapped[kind],
                        !.step = IF mapped[kind] = NULL THEN "borrowing" ELSE "recording"]
  <2>1. /\ holder' = p /\ UNCHANGED <<cmd, unread, unmoved>>
        /\ errand' = [errand EXCEPT ![p] = e] BY <1>4 DEF Placing!Place
  <2>2. /\ errand[p] \in Errands /\ GoodErrand(p, errand[p], kind, version, threads)
        /\ (p \in Movers => cmd[p] \in Orders /\ GoodOrder(cmd[p], threads, entry))
    BY ErrandIs
  <2>3. mapped[kind] \in Rooms BY <1>2
  <2>4. /\ e \in Errands /\ e.binding = binding /\ e.to = mapped[kind]
        /\ e.step = IF mapped[kind] = NULL THEN "borrowing" ELSE "recording"
        /\ e.moves = errand[p].moves /\ e.version = errand[p].version /\ e.old = errand[p].old
        /\ e.new = errand[p].new BY <1>2, <2>2, <2>3 DEF Errands
  <2>5. mapped[kind] # NULL => binding # 0 BY <1>2 DEF PlacementInv, ServerKinds
  <2>6. mapped[kind] = NULL => binding # 0 /\ kind = "issue" BY <1>4 DEF Placing!Lender
  <2>. HIDE DEF e
  <2>7. GoodErrand(p, e, kind, version, threads)
    BY <1>1, <2>2, <2>4, <2>5, <2>6 DEF GoodErrand, UnderWay, Claiming
  <2>8. errand'[p] = e BY <2>1 DEF PlacementInv, ErrandKinds
  <2>9. p \in Movers /\ Pursues(p) => Pursues(p)' BY <1>1, <2>1, <2>4, <2>8 DEF Pursues
  <2>10. GoodRow(entry', threads, version) /\ Settled(entry, entry') /\ (binding = 0 => entry' = NULL)
    BY <1>1, RowIs, SameThreads DEF PlacementInv, ServerKinds
  <2>. QED BY <1>1, <2>1, <2>4, <2>7, <2>9, <2>10, SyncMoves DEF Claiming
<1>. QED BY <1>3, <1>4

LEMMA BorrowStep ==
  ASSUME PlacementInv, NEW p \in Placing!Procs, Placing!Borrow(p) PROVE PlacementInv'
<1>. USE Sorts
<1>1. /\ errand[p].step = "borrowing"
      /\ UNCHANGED <<kind, binding, lastId, mapped, entry, threads, version, edits, breaks, late, alone>>
  BY DEF Placing!Borrow, Placing!tables
<1>2. kind \in Placing!Kinds /\ mapped \in [Placing!Kinds -> Rooms] /\ binding \in Nat
  BY DEF PlacementInv, ServerKinds
<1>3. ~(p \in Movers /\ Pursues(p)) BY <1>1 DEF Pursues, PlacementInv, LocksHold
<1>4. CASE errand[p].binding # binding
  <2>1. Placing!Returns(p, NULL, TRUE) BY <1>4 DEF Placing!Borrow, Placing!NotTracked
  <2>. QED BY <1>1, <2>1, SyncEnds DEF Claiming
<1>5. CASE errand[p].binding = binding
  <2>. DEFINE e == [errand[p] EXCEPT !.to = mapped[Placing!Lender(kind)], !.step = "recording"]
  <2>1. /\ UNCHANGED <<holder, cmd, unread, unmoved>>
        /\ errand' = [errand EXCEPT ![p] = e] BY <1>5 DEF Placing!Borrow
  <2>2. /\ errand[p] \in Errands /\ GoodErrand(p, errand[p], kind, version, threads) /\ holder = p
    BY <1>1, ErrandIs
  <2>3. binding # 0 /\ kind = "issue" BY <1>1, <1>5, <2>2 DEF GoodErrand
  <2>4. mapped[Placing!Lender(kind)] \in Rooms /\ mapped[Placing!Lender(kind)] # NULL
    BY <1>2, <2>3 DEF Placing!Lender, PlacementInv, ServerKinds, Placing!Kinds
  <2>5. /\ e \in Errands /\ e.binding = binding /\ e.to = mapped[Placing!Lender(kind)]
        /\ e.step = "recording"
        /\ e.moves = errand[p].moves /\ e.version = errand[p].version /\ e.old = errand[p].old
        /\ e.new = errand[p].new BY <1>2, <1>5, <2>2, <2>4 DEF Errands
  <2>. HIDE DEF e
  <2>6. GoodErrand(p, e, kind, version, threads)
    BY <1>1, <2>2, <2>3, <2>4, <2>5 DEF GoodErrand, UnderWay, Claiming
  <2>7. GoodRow(entry', threads, version) /\ Settled(entry, entry') /\ (binding = 0 => entry' = NULL)
    BY <1>1, RowIs, SameThreads DEF PlacementInv, ServerKinds
  <2>. QED BY <1>1, <1>3, <2>1, <2>2, <2>5, <2>6, <2>7, SyncMoves DEF Claiming
<1>. QED BY <1>4, <1>5

LEMMA StoredIs ==
  ASSUME PlacementInv, NEW v \in Nat, v <= version
  PROVE  /\ GoodRow(Placing!Stored(v), threads, version) /\ Settled(entry, Placing!Stored(v))
              /\ Placing!Stored(v) # NULL
         /\ entry # NULL => Placing!Stored(v).thread = entry.thread /\ Placing!Stored(v).at = entry.at
         /\ entry = NULL => Placing!Stored(v).thread = NULL
<1>. USE Sorts
<1>1. version \in Nat /\ MaxEdits \in Nat /\ version <= MaxEdits BY RowIs
<1>2. v \in 0 .. MaxEdits BY <1>1
<1>3. CASE entry = NULL
  <2>1. Placing!Stored(v) = [thread |-> NULL, at |-> NULL, stamp |-> v] BY <1>3 DEF Placing!Stored
  <2>2. Placing!Stored(v) \in Placing!Rows BY <1>2, <2>1 DEF Placing!Rows
  <2>. QED BY <1>3, <2>1, <2>2 DEF GoodRow, Settled
<1>4. CASE entry # NULL
  <2>1. entry \in Placing!Rows /\ GoodRow(entry, threads, version) BY <1>4, RowIs DEF GoodRow
  <2>2. Placing!Stored(v) = [entry EXCEPT !.stamp = IF v > @ THEN v ELSE @] BY <1>4 DEF Placing!Stored
  <2>3. /\ Placing!Stored(v) \in Placing!Rows /\ Placing!Stored(v).thread = entry.thread
             /\ Placing!Stored(v).at = entry.at
        /\ Placing!Stored(v).stamp \in {v, entry.stamp}
    BY <1>2, <2>1, <2>2 DEF Placing!Rows
  <2>4. Placing!Stored(v).stamp <= version BY <1>4, <2>1, <2>3 DEF GoodRow
  <2>. QED BY <1>4, <2>1, <2>3, <2>4 DEF GoodRow, Settled
<1>. QED BY <1>3, <1>4

LEMMA RecordStep ==
  ASSUME PlacementInv, NEW p \in Placing!Procs, Placing!Record(p) PROVE PlacementInv'
<1>. USE Sorts
<1>. DEFINE v == errand[p].version
            stale == IF entry = NULL THEN FALSE ELSE v < entry.stamp /\ entry.thread # NULL
<1>1. /\ errand[p].step = "recording"
      /\ UNCHANGED <<kind, binding, lastId, mapped, threads, version, edits, breaks, late, alone>>
  BY DEF Placing!Record
<1>2. /\ errand[p] \in Errands /\ GoodErrand(p, errand[p], kind, version, threads) /\ holder = p
      /\ p \in Movers => (cmd[p].step = "syncing" /\ cmd[p] \in Orders /\ GoodOrder(cmd[p], threads, entry))
  BY <1>1, ErrandIs
<1>3. CASE Placing!Raises(p) /\ UNCHANGED entry BY <1>1, <1>3, SyncEnds DEF Claiming
<1>4. CASE Placing!Returns(p, NULL, TRUE) /\ UNCHANGED entry BY <1>1, <1>4, SyncEnds DEF Claiming
<1>5. CASE /\ errand[p].binding = binding /\ entry' = Placing!Stored(v)
           /\ errand' = [errand EXCEPT ![p].old = entry'.thread, ![p].oldAt = entry'.at,
                                       ![p].step = "writing"]
           /\ UNCHANGED <<holder, cmd, unread, unmoved>>
  <2>. DEFINE e == [errand[p] EXCEPT !.old = entry'.thread, !.oldAt = entry'.at, !.step = "writing"]
  <2>1. errand' = [errand EXCEPT ![p] = e] BY <1>5
  <2>2. v \in Nat /\ v <= version BY <1>2 DEF Errands, GoodErrand
  <2>3. /\ GoodRow(entry', threads, version) /\ Settled(entry, entry') /\ entry' # NULL
        /\ entry # NULL => entry'.thread = entry.thread /\ entry'.at = entry.at
        /\ entry = NULL => entry'.thread = NULL BY <1>5, <2>2, StoredIs
  <2>4. /\ entry' \in Placing!Rows /\ entry'.thread \in (1 .. Len(threads)) \cup {NULL} BY <2>3 DEF GoodRow
  <2>5. entry'.thread \in Numbers /\ entry'.at \in Rooms BY <2>4 DEF Placing!Rows, Numbers, Rooms
  <2>6. /\ e \in Errands /\ e.binding = binding /\ e.to = errand[p].to
        /\ e.step = "writing" /\ e.old = entry'.thread /\ e.oldAt = entry'.at
        /\ e.moves = errand[p].moves /\ e.version = errand[p].version
        /\ e.new = errand[p].new BY <1>2, <1>5, <2>5 DEF Errands
  <2>. HIDE DEF e
  <2>7. GoodErrand(p, e, kind, version, threads)
    <3>1. e.old \in (1 .. Len(threads)) \cup {NULL} BY <2>4, <2>6
    <3>2. /\ e.new \in (1 .. Len(threads)) \cup {NULL} /\ e.version <= version
          /\ e.moves => p \in Movers
          /\ p \in Visits /\ kind # "ticket" => e.version # 0
          /\ e.to # NULL /\ e.binding # 0
      BY <1>1, <1>2, <1>5, <2>6 DEF GoodErrand, UnderWay
    <3>. QED BY <2>6, <3>1, <3>2 DEF GoodErrand, UnderWay, Claiming
  <2>8. errand'[p] = e BY <2>1 DEF PlacementInv, ErrandKinds
  <2>9. binding # 0 BY <1>1, <1>2, <1>5 DEF GoodErrand, UnderWay
  <2>10. ASSUME p \in Movers, Pursues(p), entry # NULL, Alive(threads, entry.thread) PROVE Pursues(p)'
    <3>1. cmd[p].step = "syncing" /\ cmd[p].thread = entry.thread BY <1>2, <2>10 DEF Pursues
    <3>2. entry.at # NULL /\ entry.thread # NULL BY <1>2, <2>10, <3>1 DEF GoodOrder, Attached, Alive
    <3>3. entry.at = threads[entry.thread].channel BY <2>10, <3>2, RowIs DEF GoodRow
    <3>4. errand[p].to = mapped[kind] /\ errand[p].moves BY <1>1, <1>2, <2>10 DEF Pursues
    <3>. QED BY <1>1, <1>5, <2>3, <2>6, <2>8, <2>10, <3>1, <3>3, <3>4 DEF Pursues
  <2>. QED BY <1>1, <1>2, <1>5, <2>1, <2>3, <2>6, <2>7, <2>9, <2>10, SyncMoves DEF Claiming
<1>. QED BY <1>3, <1>4, <1>5 DEF Placing!Record

LEMMA WriteStep ==
  ASSUME PlacementInv, NEW p \in Placing!Procs, Placing!Write(p) PROVE PlacementInv'
<1>. USE Sorts
<1>1. /\ errand[p].step = "writing"
      /\ UNCHANGED <<kind, binding, lastId, mapped, entry, threads, version, edits, breaks, late, alone>>
  BY DEF Placing!Write, Placing!tables
<1>2. /\ errand[p] \in Errands /\ GoodErrand(p, errand[p], kind, version, threads) /\ holder = p
      /\ p \in Movers => (cmd[p].step = "syncing" /\ cmd[p] \in Orders /\ GoodOrder(cmd[p], threads, entry))
  BY <1>1, ErrandIs
<1>3. p \in Movers /\ Pursues(p) =>
         /\ errand[p].moves /\ errand[p].to = mapped[kind] /\ mapped[kind] # NULL
         /\ errand[p].old = entry.thread /\ errand[p].oldAt = threads[entry.thread].channel
  BY <1>1, <1>2 DEF Pursues
<1>4. CASE Placing!Live(errand[p].old) /\ ~(errand[p].moves /\ Placing!Stranded(p))
  <2>1. Placing!Returns(p, NULL, FALSE) BY <1>4 DEF Placing!Write
  <2>2. ASSUME p \in Movers, Pursues(p) PROVE threads[entry.thread].channel = Placing!InForce
    <3>1. errand[p].old \in 1 .. Len(threads) /\ threads \in Seq(Placing!Discussions)
      BY <1>2, <1>4, RowIs DEF Placing!Live, GoodErrand
    <3>2. threads[errand[p].old] \in Placing!Discussions BY <3>1
    <3>3. errand[p].oldAt # NULL BY <1>3, <2>2, <3>2 DEF Placing!Discussions
    <3>4. errand[p].oldAt = errand[p].to BY <1>3, <1>4, <2>2, <3>3 DEF Placing!Stranded
    <3>. QED BY <1>3, <2>2, <3>4 DEF Placing!InForce
  <2>. QED BY <1>1, <2>1, <2>2, SyncEnds DEF Claiming
<1>5. CASE ~(Placing!Live(errand[p].old) /\ ~(errand[p].moves /\ Placing!Stranded(p)))
  <2>. DEFINE e == [errand[p] EXCEPT !.step = "opening"]
  <2>1. errand' = [errand EXCEPT ![p] = e] /\ UNCHANGED <<holder, cmd, unread, unmoved>>
    BY <1>5 DEF Placing!Write, Placing!Steps
  <2>2. /\ e \in Errands /\ e.binding = errand[p].binding /\ e.to = errand[p].to
        /\ e.step = "opening" /\ e.old = errand[p].old /\ e.oldAt = errand[p].oldAt
        /\ e.moves = errand[p].moves /\ e.version = errand[p].version
        /\ e.new = errand[p].new BY <1>2 DEF Errands
  <2>. HIDE DEF e
  <2>3. GoodErrand(p, e, kind, version, threads)
    BY <1>1, <1>2, <1>5, <2>2 DEF GoodErrand, UnderWay, Claiming, Placing!Stranded, Placing!Live, Alive
  <2>4. errand'[p] = e BY <2>1 DEF PlacementInv, ErrandKinds
  <2>5. p \in Movers /\ Pursues(p) => Pursues(p)' BY <1>1, <2>1, <2>2, <2>4 DEF Pursues
  <2>6. GoodRow(entry', threads, version) /\ Settled(entry, entry') /\ (binding = 0 => entry' = NULL)
    BY <1>1, RowIs, SameThreads DEF PlacementInv, ServerKinds
  <2>. QED BY <1>1, <1>2, <2>1, <2>2, <2>3, <2>5, <2>6, SyncMoves DEF Claiming
<1>. QED BY <1>4, <1>5

LEMMA SyncFailsStep ==
  ASSUME PlacementInv, NEW p \in Placing!Procs, Placing!Fails(p) PROVE PlacementInv'
<1>1. /\ errand[p].step # "idle" /\ errand[p].step \notin Claiming /\ Placing!Break /\ Placing!Raises(p)
      /\ UNCHANGED <<kind, binding, lastId, mapped, entry, threads, version, edits, late, alone>>
  BY DEF Placing!Fails, Claiming, Placing!tables
<1>. QED BY <1>1, SyncEnds

(* A sync that opens a thread. *)

LEMMA OpenStep ==
  ASSUME PlacementInv, NEW p \in Placing!Procs, Placing!Open(p) PROVE PlacementInv'
<1>. USE Sorts
<1>1. PICK empty \in BOOLEAN :
          /\ errand' = [errand EXCEPT ![p].new = Len(threads'), ![p].empty = empty, ![p].step = "claiming"]
          /\ breaks' = breaks \/ Placing!Break BY DEF Placing!Open
<1>2. /\ errand[p].step = "opening" /\ Len(threads) < MaxThreads
      /\ threads' = Append(threads, Placing!NewThread(errand[p].to))
      /\ UNCHANGED <<kind, binding, lastId, mapped, entry, holder, cmd, version, edits, unread, mappings,
                   unmoved, late, alone>>
  BY DEF Placing!Open, Placing!tables, Placing!hub, Placing!history
<1>3. /\ errand[p] \in Errands /\ GoodErrand(p, errand[p], kind, version, threads) /\ holder = p
      /\ p \in Movers => cmd[p].step = "syncing" BY <1>2, ErrandIs
<1>4. errand[p].to \in Channels BY <1>2, <1>3 DEF Errands, Rooms, GoodErrand, UnderWay
<1>. DEFINE d == Placing!NewThread(errand[p].to)
            n == Len(threads) + 1
            e == [errand[p] EXCEPT !.new = n, !.empty = empty, !.step = "claiming"]
<1>5. d \in Placing!Discussions /\ d.channel = errand[p].to BY <1>4 DEF Placing!NewThread, Placing!Discussions
<1>6. threads \in Seq(Placing!Discussions) /\ Len(threads) \in Nat BY RowIs
<1>7. /\ threads' \in Seq(Placing!Discussions) /\ Len(threads') = n /\ threads'[n] = d
      /\ \A t \in 1 .. Len(threads) : threads'[t] = threads[t]
  <2>. HIDE DEF d
  <2>1. threads' = Append(threads, d) BY <1>2 DEF d
  <2>. QED BY <1>5, <1>6, <2>1
<1>8. errand' = [errand EXCEPT ![p] = e] BY <1>1, <1>7
<1>9. n \in Nat /\ n \in 1 .. n /\ n # NULL /\ n <= MaxThreads /\ Len(threads) <= n BY <1>2, <1>6
<1>10. /\ e \in Errands /\ e.binding = errand[p].binding /\ e.to = errand[p].to
       /\ e.step = "claiming" /\ e.old = errand[p].old /\ e.oldAt = errand[p].oldAt
       /\ e.moves = errand[p].moves /\ e.version = errand[p].version
       /\ e.new = n
  <2>1. n \in Numbers BY <1>9 DEF Numbers
  <2>. HIDE DEF n
  <2>. QED BY <1>3, <2>1 DEF Errands
<1>11. Grows(threads, threads') BY <1>7, <1>9 DEF Grows
<1>12. GoodErrand(p, e, kind, version, threads')
  <2>. HIDE DEF n, e, d
  <2>1. /\ errand[p].old \in (1 .. Len(threads)) \cup {NULL} /\ e.version <= version
        /\ e.moves => p \in Movers
        /\ p \in Visits /\ kind # "ticket" => e.version # 0
        /\ e.to # NULL /\ e.binding # 0
    BY <1>2, <1>3, <1>10 DEF GoodErrand, UnderWay
  <2>2. e.old \in (1 .. n) \cup {NULL} BY <1>6, <1>9, <1>10, <2>1 DEF n
  <2>3. threads'[e.new].channel = e.to BY <1>5, <1>7, <1>10
  <2>4. ~Alive(threads', e.old) \/ (e.moves /\ e.oldAt # NULL /\ e.oldAt # e.to)
    <3>1. ~Alive(threads, e.old) \/ (e.moves /\ e.oldAt # NULL /\ e.oldAt # e.to)
      BY <1>2, <1>3, <1>10 DEF GoodErrand
    <3>2. Alive(threads', e.old) => Alive(threads, e.old) BY <1>7, <1>10, <2>1 DEF Alive
    <3>. QED BY <3>1, <3>2
  <2>. QED BY <1>7, <1>9, <1>10, <2>1, <2>2, <2>3, <2>4 DEF GoodErrand, UnderWay, Claiming
<1>. HIDE DEF e, d
<1>13. version' \in Nat /\ version <= version' /\ Settled(entry, entry') /\ GoodRow(entry', threads',
       version')
  <2>1. version' \in Nat /\ version <= version' /\ version \in Nat BY <1>2, RowIs
  <2>2. Settled(entry, entry') BY <1>2, SameThreads
  <2>3. GoodRow(entry, threads, version) /\ threads \in Seq(Placing!Discussions) BY RowIs
  <2>4. GoodRow(entry, threads', version') BY <1>7, <1>11, <2>1, <2>3, RowStays
  <2>. QED BY <1>2, <2>1, <2>2, <2>4
<1>14. /\ ErrandKinds' /\ errand'[p] = e
       /\ \A q \in Placing!Procs \ {p} : errand'[q] = errand[q]
  BY <1>2, <1>7, <1>8, <1>10, <1>11, <1>12, <1>13, OneErrand
<1>15. StepOf(p) BY <1>2, <1>14 DEF StepOf
<1>16. ServerKinds' BY <1>1, <1>2, ServerStays DEF PlacementInv, ServerKinds
<1>17. EntryKinds'
  <2>1. late' \subseteq 1 .. Len(threads') /\ alone' \subseteq 1 .. Len(threads')
    BY <1>2, <1>6, <1>7, <1>9, RowIs
  <2>. HIDE DEF n
  <2>. QED BY <1>2, <1>7, <1>9, <1>13, <2>1, RowIs, EntryStays
<1>18. OrderKinds' BY <1>2, <1>7, <1>11, <1>13, SameOrders
<1>19. LocksHold' BY <1>2, <1>3, <1>10, <1>14 DEF PlacementInv, LocksHold
<1>20. NoneForgotten'
  <2>1. \A t \in 1 .. Len(threads) : Placing!PointsAt(t) => SeenTo(t)' BY <1>2 DEF Placing!PointsAt, SeenTo
  <2>2. errand[p].step \notin Claiming /\ (p \in Movers => cmd[p].step # "posting") BY <1>2, <1>3 DEF Claiming
  <2>3. \A t \in 1 .. Len(threads) : threads'[t].live => SeenTo(t)'
    BY <1>2, <1>11, <1>15, <2>1, <2>2, NoneForgottenStays
  <2>4. ASSUME NEW t \in 1 .. Len(threads'), t = n PROVE SeenTo(t)'
    <3>1. errand'[p].new = t /\ errand'[p].step \in Claiming BY <1>10, <1>14, <2>4 DEF Claiming
    <3>. QED BY <3>1 DEF SeenTo
  <2>5. \A t \in 1 .. n : t \in 1 .. Len(threads) \/ t = n BY <1>6
  <2>. HIDE DEF n
  <2>6. ASSUME NEW t \in 1 .. Len(threads'), threads'[t].live PROVE SeenTo(t)' BY <1>7, <2>3, <2>4, <2>5, <2>6
  <2>. QED BY <2>6 DEF NoneForgotten
<1>21. Placed'
  <2>1. ASSUME p \in Movers, Pursues(p), entry # NULL, Alive(threads, entry.thread) PROVE Pursues(p)'
    <3>1. threads'[entry.thread].channel = threads[entry.thread].channel BY <1>7, <2>1, RowIs DEF Alive
    <3>. QED BY <1>2, <1>3, <1>10, <1>14, <2>1, <3>1 DEF Pursues
  <2>. QED BY <1>2, <1>11, <1>15, <2>1, PlacedStays
<1>. QED BY <1>14, <1>16, <1>17, <1>18, <1>19, <1>20, <1>21 DEF PlacementInv

LEMMA DisplacedIs ==
  ASSUME PlacementInv, NEW p \in Placing!Procs, errand[p].step \in Claiming
  PROVE  /\ Placing!Displaced(p) \in (1 .. Len(threads)) \cup {NULL}
         /\ Placing!Displaced(p) # NULL => p \in Movers
         /\ Placing!Live(errand[p].old) => Placing!Displaced(p) = errand[p].old
         /\ errand[p].new \in 1 .. Len(threads) /\ errand[p].new # NULL
         /\ threads[errand[p].new].channel = errand[p].to /\ errand[p].to \in Channels
         /\ errand[p].binding # 0
         /\ errand[p].step # "idle" /\ holder = p
         /\ p \in Movers => cmd[p].step = "syncing"
<1>. USE Sorts
<1>1. /\ errand[p] \in Errands /\ GoodErrand(p, errand[p], kind, version, threads) /\ holder = p
      /\ p \in Movers => cmd[p].step = "syncing" BY ErrandIs DEF Claiming
<1>2. /\ Placing!Displaced(p) \in (1 .. Len(threads)) \cup {NULL}
      /\ Placing!Displaced(p) # NULL => p \in Movers
  BY <1>1 DEF GoodErrand, Placing!Displaced
<1>3. Placing!Live(errand[p].old) => Placing!Displaced(p) = errand[p].old
  BY <1>1 DEF GoodErrand, Placing!Displaced, Placing!Stranded, Placing!Live, Alive
<1>4. /\ errand[p].new \in 1 .. Len(threads) /\ errand[p].new # NULL
      /\ threads[errand[p].new].channel = errand[p].to /\ errand[p].to \in Channels
      /\ errand[p].binding # 0 /\ errand[p].step # "idle"
  BY <1>1 DEF GoodErrand, UnderWay, Claiming, Errands, Rooms
<1>. QED BY <1>1, <1>2, <1>3, <1>4

\* A sync that had opened a thread ends: with the lock, the order and the thread it left behind seen to.
LEMMA OpenedIs ==
  ASSUME PlacementInv, NEW p \in Placing!Procs, errand[p].step \in Claiming,
         \/ Placing!Raises(p) /\ Placing!Alone({Placing!Displaced(p)})
         \/ Placing!Returns(p, Placing!Displaced(p), FALSE) /\ UNCHANGED alone,
         UNCHANGED <<kind, binding, lastId, mapped, version, edits, breaks>>,
         threads' \in Seq(Placing!Discussions), Grows(threads, threads'), Len(threads') = Len(threads),
         Settled(entry, entry'), GoodRow(entry', threads', version), binding = 0 => entry' = NULL,
         late' \subseteq 1 .. Len(threads)
  PROVE  /\ ServerKinds' /\ EntryKinds' /\ ErrandKinds' /\ OrderKinds' /\ LocksHold' /\ StepOf(p)
         /\ (unmoved => unmoved') /\ alone \subseteq alone'
         /\ \A t \in 1 .. Len(threads) : t = Placing!Displaced(p) => SeenTo(t)'
<1>. USE Sorts
<1>1. /\ Placing!Displaced(p) \in (1 .. Len(threads)) \cup {NULL}
      /\ Placing!Displaced(p) # NULL => p \in Movers
      /\ errand[p].step # "idle" BY DisplacedIs
<1>2. /\ ErrandKinds' /\ OrderKinds' /\ LocksHold' /\ StepOf(p)
      /\ unread' \subseteq 1 .. version /\ unmoved' \in BOOLEAN /\ (unmoved => unmoved')
  <2>1. CASE Placing!Raises(p) BY <1>1, <2>1, RaisesIs
  <2>2. CASE Placing!Returns(p, Placing!Displaced(p), FALSE) BY <1>1, <2>2, ReturnsIs
  <2>. QED BY <2>1, <2>2
<1>3. /\ alone \subseteq alone' /\ alone' \subseteq 1 .. Len(threads)
      /\ \A t \in 1 .. Len(threads) : t = Placing!Displaced(p) => SeenTo(t)'
  <2>1. CASE Placing!Raises(p) /\ Placing!Alone({Placing!Displaced(p)})
    <3>1. alone' = alone \cup ({Placing!Displaced(p)} \ {NULL}) BY <2>1 DEF Placing!Alone
    <3>2. \A t \in 1 .. Len(threads) : t = Placing!Displaced(p) => t \in alone' BY <3>1, RowIs
    <3>. QED BY <1>1, <3>1, <3>2, RowIs DEF SeenTo
  <2>2. CASE Placing!Returns(p, Placing!Displaced(p), FALSE) /\ UNCHANGED alone
    <3>1. p \in Movers /\ Placing!Displaced(p) # NULL => cmd'[p].step = "posting"
            /\ cmd'[p].thread = Placing!Displaced(p) BY <1>1, <2>2, ReturnsIs
    <3>2. \A t \in 1 .. Len(threads) : t = Placing!Displaced(p) => SeenTo(t)' BY <1>1, <3>1, RowIs DEF SeenTo
    <3>. QED BY <2>2, <3>2, RowIs
  <2>. QED BY <2>1, <2>2
<1>4. ServerKinds' BY ServerStays
<1>5. EntryKinds' BY <1>2, <1>3, RowIs, EntryStays
<1>. QED BY <1>2, <1>3, <1>4, <1>5

LEMMA SwapStep ==
  ASSUME PlacementInv, NEW p \in Placing!Procs, NEW replacing, NEW otherwise,
         Placing!Swap(p, replacing, otherwise),
         \/ errand[p].step = "claiming" /\ replacing = errand[p].old /\ otherwise = "claiming_again"
         \/ errand[p].step = "claiming_again" /\ replacing = NULL /\ otherwise = "discarding"
  PROVE  PlacementInv'
<1>. USE Sorts
<1>. DEFINE had == IF entry = NULL \/ errand[p].binding # binding THEN NULL ELSE entry.thread
            mine == entry # NULL /\ errand[p].binding = binding
<1>1. /\ Placing!Displaced(p) \in (1 .. Len(threads)) \cup {NULL}
      /\ Placing!Displaced(p) # NULL => p \in Movers
      /\ Placing!Live(errand[p].old) => Placing!Displaced(p) = errand[p].old
      /\ errand[p].new \in 1 .. Len(threads) /\ errand[p].new # NULL
      /\ threads[errand[p].new].channel = errand[p].to /\ errand[p].to \in Channels
      /\ errand[p].binding # 0
      /\ errand[p].step # "idle" /\ holder = p
      /\ p \in Movers => cmd[p].step = "syncing" BY DisplacedIs DEF Claiming
<1>2. UNCHANGED <<kind, binding, lastId, mapped, threads, version, edits, mappings, breaks>>
  BY DEF Placing!Swap
<1>3. threads' \in Seq(Placing!Discussions) /\ Grows(threads, threads') /\ Len(threads') = Len(threads)
  BY <1>2, RowIs, SameThreads
<1>4. CASE mine /\ had = replacing
  <2>1. /\ entry' = [entry EXCEPT !.thread = errand[p].new, !.at = errand[p].to]
        /\ Placing!Opened(p)
        /\ late' = IF errand[p].to = Placing!InForce THEN late ELSE late \cup {errand[p].new}
    BY <1>4 DEF Placing!Swap
  <2>2. entry \in Placing!Rows /\ entry.stamp <= version /\ entry.thread = replacing
    BY <1>4, RowIs DEF GoodRow
  <2>3. errand[p].new \in 1 .. MaxThreads BY <1>1, RowIs
  <2>4. /\ entry' \in Placing!Rows /\ entry'.thread = errand[p].new /\ entry'.at = errand[p].to
        /\ entry'.stamp = entry.stamp /\ entry' # NULL
    BY <1>1, <2>1, <2>2, <2>3 DEF Placing!Rows
  <2>5. Settled(entry, entry') BY <1>1, <2>4 DEF Settled
  <2>6. GoodRow(entry', threads', version) BY <1>1, <1>2, <2>2, <2>4 DEF GoodRow
  <2>7. binding # 0 BY <1>1, <1>4
  <2>8. late' \subseteq 1 .. Len(threads) /\ late \subseteq late' BY <1>1, <2>1, RowIs
  <2>9. /\ ServerKinds' /\ EntryKinds' /\ ErrandKinds' /\ OrderKinds' /\ LocksHold' /\ StepOf(p)
        /\ (unmoved => unmoved') /\ alone \subseteq alone'
        /\ \A t \in 1 .. Len(threads) : t = Placing!Displaced(p) => SeenTo(t)'
    <3>1. \/ Placing!Raises(p) /\ Placing!Alone({Placing!Displaced(p)})
          \/ Placing!Returns(p, Placing!Displaced(p), FALSE) /\ UNCHANGED alone
      BY <2>1 DEF Placing!Opened
    <3>2. errand[p].step \in Claiming BY DEF Claiming
    <3>. QED BY <1>2, <1>3, <2>5, <2>6, <2>7, <2>8, <3>1, <3>2, OpenedIs
  <2>10. NoneForgotten'
    <3>1. ASSUME NEW t \in 1 .. Len(threads), threads'[t].live
          PROVE  /\ Placing!PointsAt(t) => SeenTo(t)'
                 /\ errand[p].new = t => SeenTo(t)'
                 /\ p \in Movers => cmd[p].step # "posting"
      <4>1. t # NULL BY <3>1, RowIs
      <4>2. ASSUME Placing!PointsAt(t) PROVE SeenTo(t)'
        <5>1. errand[p].old = t BY <2>2, <4>1, <4>2 DEF Placing!PointsAt
        <5>2. Placing!Live(errand[p].old) BY <1>2, <3>1, <4>1, <5>1 DEF Placing!Live
        <5>. QED BY <1>1, <2>9, <5>1, <5>2
      <4>3. errand[p].new = t => Placing!PointsAt(t)' BY <2>4 DEF Placing!PointsAt
      <4>. QED BY <1>1, <4>2, <4>3 DEF SeenTo
    <3>. QED BY <1>3, <2>9, <3>1, NoneForgottenStays
  <2>11. Placed'
    <3>1. Placing!InForce' = Placing!InForce BY <1>2 DEF Placing!InForce
    <3>2. threads'[entry'.thread].channel = errand[p].to BY <1>1, <1>2, <2>4
    <3>3. errand[p].to # Placing!InForce => entry'.thread \in late' BY <2>1, <2>4
    <3>. QED BY <3>1, <3>2, <3>3 DEF Placed
  <2>. QED BY <2>9, <2>10, <2>11 DEF PlacementInv
<1>5. CASE ~(mine /\ had = replacing)
  <2>. DEFINE s == IF had = NULL THEN otherwise ELSE "discarding"
              e == [errand[p] EXCEPT !.step = s]
  <2>1. /\ errand' = [errand EXCEPT ![p] = e]
        /\ UNCHANGED <<entry, holder, cmd, unread, unmoved, alone, late>>
    BY <1>5 DEF Placing!Swap, Placing!Steps
  <2>2. s \in {"claiming_again", "discarding"} OBVIOUS
  <2>. HIDE DEF s
  <2>3. errand[p] \in Errands /\ GoodErrand(p, errand[p], kind, version, threads) BY ErrandIs
  <2>4. /\ e \in Errands /\ e.binding = errand[p].binding /\ e.to = errand[p].to
        /\ e.step = s /\ e.old = errand[p].old /\ e.oldAt = errand[p].oldAt
        /\ e.moves = errand[p].moves /\ e.version = errand[p].version
        /\ e.new = errand[p].new BY <2>2, <2>3 DEF Errands
  <2>. HIDE DEF e
  <2>5. GoodErrand(p, e, kind, version, threads) BY <2>2, <2>3, <2>4 DEF GoodErrand, UnderWay, Claiming
  <2>6. ~(p \in Movers /\ Pursues(p) /\ entry # NULL) BY <1>1, <1>5 DEF Pursues
  <2>7. GoodRow(entry', threads, version) /\ Settled(entry, entry') /\ (binding = 0 => entry' = NULL)
    BY <1>2, <2>1, RowIs, SameThreads DEF PlacementInv, ServerKinds
  <2>8. /\ errand[p].step \in Claiming /\ e.step \in Claiming /\ e.step \notin {"idle", "waiting"}
    BY <2>2, <2>4 DEF Claiming
  <2>. QED BY <1>1, <1>2, <2>1, <2>4, <2>5, <2>6, <2>7, <2>8, SyncMoves
<1>. QED BY <1>4, <1>5

LEMMA ThreadClaimStep ==
  ASSUME PlacementInv, NEW p \in Placing!Procs, Placing!Claim(p) \/ Placing!ClaimAgain(p)
  PROVE  PlacementInv' BY SwapStep DEF Placing!Claim, Placing!ClaimAgain

LEMMA DiscardStep ==
  ASSUME PlacementInv, NEW p \in Placing!Procs, Placing!Discard(p) PROVE PlacementInv'
<1>. USE Sorts
<1>1. /\ errand[p].step = "discarding"
      /\ threads' = [threads EXCEPT ![errand[p].new].live = FALSE]
      /\ \/ Placing!Raises(p) /\ Placing!Alone({Placing!Displaced(p)})
         \/ Placing!Returns(p, Placing!Displaced(p), FALSE) /\ UNCHANGED alone
      /\ UNCHANGED <<kind, binding, lastId, mapped, entry, version, edits, mappings, breaks, late>>
  BY DEF Placing!Discard, Placing!Gone, Placing!Opened, Placing!tables
<1>2. /\ errand[p].new \in 1 .. Len(threads) /\ errand[p].step \in Claiming
      /\ p \in Movers => cmd[p].step = "syncing"
  BY <1>1, DisplacedIs DEF Claiming
<1>3. /\ threads' \in Seq(Placing!Discussions) /\ Len(threads') = Len(threads) /\ Grows(threads, threads')
      /\ ~threads'[errand[p].new].live BY <1>1, <1>2, GoneIs
<1>4. /\ Settled(entry, entry') /\ GoodRow(entry', threads', version) /\ (binding = 0 => entry' = NULL)
  <2>1. GoodRow(entry, threads, version) /\ threads \in Seq(Placing!Discussions) /\ version \in Nat
          /\ version <= version BY RowIs
  <2>2. GoodRow(entry, threads', version) BY <1>3, <2>1, RowStays
  <2>. QED BY <1>1, <2>2, SameThreads DEF PlacementInv, ServerKinds
<1>5. late' \subseteq 1 .. Len(threads) BY <1>1, RowIs
<1>6. /\ ServerKinds' /\ EntryKinds' /\ ErrandKinds' /\ OrderKinds' /\ LocksHold' /\ StepOf(p)
      /\ (unmoved => unmoved') /\ alone \subseteq alone'
  BY <1>1, <1>2, <1>3, <1>4, <1>5, OpenedIs
<1>7. NoneForgotten'
  <2>1. \A t \in 1 .. Len(threads) : Placing!PointsAt(t) => SeenTo(t)' BY <1>1 DEF Placing!PointsAt, SeenTo
  <2>. QED BY <1>2, <1>3, <1>6, <2>1, NoneForgottenStays
<1>8. Placed'
  <2>1. ~(p \in Movers /\ Pursues(p)) BY <1>1, <1>2 DEF Pursues
  <2>. QED BY <1>1, <1>3, <1>6, <2>1, PlacedStays
<1>. QED BY <1>6, <1>7, <1>8 DEF PlacementInv

LEMMA ClaimFailsStep ==
  ASSUME PlacementInv, NEW p \in Placing!Procs, Placing!ClaimFails(p) PROVE PlacementInv'
<1>. USE Sorts
<1>1. /\ errand[p].step \in Claiming /\ Placing!Break /\ Placing!Raises(p)
      /\ \/ threads' = [threads EXCEPT ![errand[p].new].live = FALSE] /\ UNCHANGED alone
         \/ Placing!Alone({errand[p].new}) /\ UNCHANGED threads
      /\ UNCHANGED <<kind, binding, lastId, mapped, entry, version, edits, mappings, late>>
  BY DEF Placing!ClaimFails, Placing!Gone, Claiming, Placing!tables
<1>2. /\ errand[p].new \in 1 .. Len(threads) /\ errand[p].new # NULL /\ errand[p].step # "idle"
      /\ p \in Movers => cmd[p].step = "syncing" BY <1>1, DisplacedIs
<1>3. /\ threads' \in Seq(Placing!Discussions) /\ Len(threads') = Len(threads) /\ Grows(threads, threads')
      /\ alone \subseteq alone' /\ alone' \subseteq 1 .. Len(threads)
      /\ threads'[errand[p].new].live => errand[p].new \in alone'
  <2>1. CASE threads' = [threads EXCEPT ![errand[p].new].live = FALSE] /\ UNCHANGED alone
    BY <1>2, <2>1, GoneIs, RowIs
  <2>2. CASE Placing!Alone({errand[p].new}) /\ UNCHANGED threads
    <3>1. alone' = alone \cup {errand[p].new} BY <1>2, <2>2 DEF Placing!Alone
    <3>. QED BY <1>2, <2>2, <3>1, SameThreads, RowIs
  <2>. QED BY <1>1, <2>1, <2>2
<1>4. Settled(entry, entry') /\ GoodRow(entry', threads', version)
  <2>1. GoodRow(entry, threads, version) /\ threads \in Seq(Placing!Discussions) /\ version \in Nat
          /\ version <= version BY RowIs
  <2>2. GoodRow(entry, threads', version) BY <1>3, <2>1, RowStays
  <2>. QED BY <1>1, <2>2, SameThreads
<1>5. /\ ErrandKinds' /\ OrderKinds' /\ LocksHold' /\ StepOf(p)
      /\ unread' \subseteq 1 .. version /\ unmoved' \in BOOLEAN /\ (unmoved => unmoved')
      /\ p \in Movers => unmoved' = TRUE BY <1>1, <1>2, <1>3, <1>4, RaisesIs
<1>6. ServerKinds' BY <1>1, ServerStays DEF PlacementInv, ServerKinds
<1>7. EntryKinds' BY <1>1, <1>3, <1>4, <1>5, RowIs, EntryStays
<1>8. NoneForgotten'
  <2>1. \A t \in 1 .. Len(threads) :
           /\ Placing!PointsAt(t) => SeenTo(t)'
           /\ threads'[t].live /\ errand[p].new = t => SeenTo(t)'
    BY <1>1, <1>3 DEF Placing!PointsAt, SeenTo
  <2>. QED BY <1>2, <1>3, <1>5, <2>1, NoneForgottenStays
<1>9. Placed' BY <1>1, <1>3, <1>5, PlacedStays
<1>. QED BY <1>5, <1>6, <1>7, <1>8, <1>9 DEF PlacementInv

LEMMA DieStep ==
  ASSUME PlacementInv, NEW p \in Placing!Procs, Placing!Die(p) PROVE PlacementInv'
<1>. USE Sorts
<1>1. /\ Placing!Break
      /\ UNCHANGED <<kind, binding, lastId, mapped, entry, threads, version, edits, mappings, late>>
      /\ alone' = alone \cup (({errand[p].new} \cup (IF p \in Movers THEN {cmd[p].thread} ELSE {})) \ {NULL})
  BY DEF Placing!Die, Placing!tables, Placing!Alone
<1>2. /\ errand[p].new \in (1 .. Len(threads)) \cup {NULL}
      /\ p \in Movers => cmd[p].thread \in (1 .. Len(threads)) \cup {NULL}
  BY ErrandIs DEF GoodErrand, GoodOrder
<1>3. /\ alone \subseteq alone' /\ alone' \subseteq 1 .. Len(threads)
      /\ \A t \in 1 .. Len(threads) : errand[p].new = t => t \in alone'
      /\ \A t \in 1 .. Len(threads) : p \in Movers /\ cmd[p].thread = t => t \in alone'
  BY <1>1, <1>2, RowIs
<1>4. /\ threads' \in Seq(Placing!Discussions) /\ Len(threads') = Len(threads) /\ Grows(threads, threads')
      /\ Settled(entry, entry') /\ GoodRow(entry', threads', version)
      /\ version' \in Nat /\ version <= version' BY <1>1, RowIs, SameThreads
<1>5. /\ ErrandKinds' /\ OrderKinds' /\ LocksHold' /\ StepOf(p)
      /\ unread' \subseteq 1 .. version /\ unmoved' \in BOOLEAN /\ (unmoved => unmoved')
      /\ p \in Movers => unmoved' = TRUE
  <2>1. CASE errand[p].step # "idle" /\ Placing!Raises(p) BY <1>1, <1>4, <2>1, RaisesIs
  <2>2. CASE /\ p \in Movers /\ errand[p].step = "idle" /\ cmd[p].step # "idle"
             /\ Placing!Done(p) /\ unmoved' = TRUE
             /\ UNCHANGED <<errand, holder, unread>>
    <3>1. cmd' = [cmd EXCEPT ![p] = Placing!NoOrder] BY <2>2 DEF Placing!Done
    <3>2. OrderKinds' /\ cmd'[p] = Placing!NoOrder /\ \A m \in Movers \ {p} : cmd'[m] = cmd[m]
      BY <1>4, <2>2, <3>1, NoOrderIs, OneOrder
    <3>3. ErrandKinds' BY <1>1, <1>4, <2>2, SameErrands
    <3>4. LocksHold' BY <2>2, <3>2, NoOrderIs DEF PlacementInv, LocksHold
    <3>. QED BY <2>2, <3>2, <3>3, <3>4, RowIs DEF StepOf
  <2>. QED BY <2>1, <2>2 DEF Placing!Die
<1>6. ServerKinds' BY <1>1, ServerStays DEF PlacementInv, ServerKinds
<1>7. EntryKinds' BY <1>1, <1>3, <1>4, <1>5, RowIs, EntryStays
<1>8. NoneForgotten'
  <2>1. \A t \in 1 .. Len(threads) :
           /\ Placing!PointsAt(t) => SeenTo(t)'
           /\ errand[p].new = t => SeenTo(t)'
           /\ p \in Movers /\ cmd[p].thread = t => SeenTo(t)'
    BY <1>1, <1>3 DEF Placing!PointsAt, SeenTo
  <2>. QED BY <1>3, <1>4, <1>5, <2>1, NoneForgottenStays
<1>9. Placed' BY <1>1, <1>4, <1>5, PlacedStays
<1>. QED BY <1>5, <1>6, <1>7, <1>8, <1>9 DEF PlacementInv

LEMMA VisitStep ==
  ASSUME PlacementInv, NEW p \in Placing!Procs, Placing!Visit(p) PROVE PlacementInv'
BY PlaceStep, BorrowStep, RecordStep, WriteStep, OpenStep, ThreadClaimStep, DiscardStep, ClaimFailsStep,
   SyncFailsStep, DieStep
   DEF Placing!Visit

(* Commands. *)

\* A command goes on outside of a sync.
LEMMA CommandMoves ==
  ASSUME PlacementInv, NEW m \in Movers, NEW o \in Orders, cmd' = [cmd EXCEPT ![m] = o],
         UNCHANGED <<kind, binding, lastId, mapped, errand, holder, version, edits, unread, late>>,
         breaks' = breaks \/ Placing!Break,
         threads' \in Seq(Placing!Discussions), Grows(threads, threads'), Len(threads') = Len(threads),
         GoodRow(entry', threads', version), Settled(entry, entry'), binding = 0 => entry' = NULL,
         entry' # NULL => entry'.thread = NULL \/ (entry # NULL /\ entry'.thread = entry.thread),
         GoodOrder(o, threads', entry'), cmd[m].step # "syncing", o.step # "syncing",
         unmoved' \in BOOLEAN, unmoved => unmoved', alone \subseteq alone',
         alone' \subseteq 1 .. Len(threads),
         \A t \in 1 .. Len(threads) :
            (threads'[t].live /\ (Placing!PointsAt(t) \/ (cmd[m].thread = t /\ cmd[m].step = "posting")))
              => SeenTo(t)',
         (/\ Pursues(m) /\ entry # NULL /\ entry' # NULL
          /\ Alive(threads, entry.thread) /\ entry'.thread = entry.thread)
            => (unmoved' \/ Pursues(m)' \/ threads[entry.thread].channel = Placing!InForce)
  PROVE  PlacementInv'
<1>. USE Sorts
<1>1. version' \in Nat /\ version <= version' /\ unread' \subseteq 1 .. version' BY RowIs
<1>2. OrderKinds' /\ cmd'[m] = o /\ \A q \in Movers \ {m} : cmd'[q] = cmd[q] BY OneOrder
<1>3. ErrandKinds' BY <1>1, SameErrands
<1>4. StepOf(m) BY <1>2 DEF StepOf
<1>5. ServerKinds' BY ServerStays
<1>6. EntryKinds' BY <1>1, RowIs, EntryStays
<1>7. LocksHold' BY <1>2 DEF PlacementInv, LocksHold
<1>8. NoneForgotten'
  <2>1. errand[m].step \notin Claiming BY DEF PlacementInv, LocksHold, Claiming
  <2>. QED BY <1>4, <2>1, NoneForgottenStays
<1>9. Placed' BY <1>4, PlacedStays
<1>. QED BY <1>2, <1>3, <1>5, <1>6, <1>7, <1>8, <1>9 DEF PlacementInv

LEMMA OrderIs ==
  ASSUME PlacementInv, NEW m \in Movers
  PROVE  /\ cmd[m] \in Orders /\ GoodOrder(cmd[m], threads, entry)
         /\ cmd[m].thread \in (1 .. Len(threads)) \cup {NULL}
         /\ cmd[m].step # "syncing" => errand[m].step = "idle"
<1>. USE Sorts
<1>. QED BY ErrandIs DEF GoodOrder

LEMMA AssignStep ==
  ASSUME PlacementInv, NEW m \in Movers, NEW k \in Placing!Kinds, NEW c \in Channels, Placing!Assign(m, k,
         c)
  PROVE  PlacementInv'
<1>. USE Sorts
<1>. DEFINE o == [Placing!NoOrder EXCEPT !.step = "listing", !.kind = k, !.to = c]
<1>1. /\ cmd[m].step = "idle" /\ binding # 0
      /\ mapped' = [Placing!Pinned(k) EXCEPT ![k] = c]
      /\ cmd' = [cmd EXCEPT ![m] = o]
      /\ unmoved' = (unmoved /\ k # kind)
      /\ UNCHANGED <<kind, binding, lastId, entry, threads, holder, errand, version, edits, unread, breaks,
                   late, alone>> BY DEF Placing!Assign, Placing!hub
<1>2. o \in Orders /\ o.step = "listing" /\ o.kind = k /\ o.to = c /\ o.thread = NULL
  BY DEF Placing!NoOrder, Orders, Numbers, Rooms
<1>. HIDE DEF o
<1>3. /\ kind \in Placing!Kinds /\ mapped \in [Placing!Kinds -> Rooms] /\ mapped["pr"] # NULL
  BY <1>1 DEF PlacementInv, ServerKinds
<1>4. /\ mapped' \in [Placing!Kinds -> Rooms] /\ mapped'[k] = c
      /\ \A b \in Placing!Kinds \ {k} :
            mapped'[b] = IF b \in Placing!Borrowers(k) /\ mapped[b] = NULL THEN mapped[k] ELSE mapped[b]
  <2>1. Placing!Pinned(k) \in [Placing!Kinds -> Rooms] BY <1>3 DEF Placing!Pinned
  <2>2. mapped' \in [Placing!Kinds -> Rooms] /\ mapped'[k] = c BY <1>1, <2>1 DEF Rooms
  <2>3. \A b \in Placing!Kinds \ {k} : mapped'[b] = Placing!Pinned(k)[b] BY <1>1, <2>1
  <2>. QED BY <2>2, <2>3 DEF Placing!Pinned
<1>5. mapped'["pr"] # NULL
  <2>1. CASE k = "pr" BY <1>4, <2>1
  <2>2. CASE k # "pr"
    <3>1. "pr" \in Placing!Kinds /\ "pr" \notin Placing!Borrowers(k)
      BY DEF Placing!Borrowers, Placing!Lender, Placing!Kinds
    <3>. QED BY <1>3, <1>4, <2>2, <3>1
  <2>. QED BY <2>1, <2>2
<1>6. ServerKinds' BY <1>1, <1>4, <1>5 DEF PlacementInv, ServerKinds
<1>7. /\ threads' \in Seq(Placing!Discussions) /\ Grows(threads, threads') /\ Settled(entry, entry')
      /\ version' \in Nat /\ version <= version' BY <1>1, RowIs, SameThreads
<1>8. EntryKinds'
  <2>1. unmoved' \in BOOLEAN BY <1>1
  <2>2. UNCHANGED <<entry, threads, version, edits, unread, late, alone>> BY <1>1
  <2>. QED BY <2>1, <2>2 DEF PlacementInv, EntryKinds, Known
<1>9. ErrandKinds' BY <1>1, <1>7, SameErrands
<1>10. OrderKinds' /\ cmd'[m] = o /\ \A q \in Movers \ {m} : cmd'[q] = cmd[q]
  <2>1. GoodOrder(o, threads', entry') BY <1>2 DEF GoodOrder
  <2>. QED BY <1>1, <1>2, <1>7, <2>1, OneOrder
<1>11. LocksHold' BY <1>1, <1>2, <1>10 DEF PlacementInv, LocksHold
<1>12. StepOf(m) BY <1>1, <1>10 DEF StepOf
<1>13. NoneForgotten'
  <2>1. \A t \in 1 .. Len(threads) : Placing!PointsAt(t) => SeenTo(t)' BY <1>1 DEF Placing!PointsAt, SeenTo
  <2>2. errand[m].step \notin Claiming BY <1>1 DEF PlacementInv, LocksHold, Claiming
  <2>. QED BY <1>1, <1>7, <1>12, <2>1, <2>2, NoneForgottenStays
<1>14. Placed'
  <2>1. CASE k = kind
    <3>1. Pursues(m)' BY <1>1, <1>2, <1>4, <1>10, <2>1 DEF Pursues
    <3>. QED BY <3>1 DEF Placed
  <2>2. CASE k # kind
    <3>1. Placing!InForce' = Placing!InForce
      <4>1. kind \in Placing!Kinds \ {k} BY <1>3, <2>2
      <4>2. mapped'[kind] = IF kind \in Placing!Borrowers(k)
              /\ mapped[kind] = NULL THEN mapped[k] ELSE mapped[kind]
        BY <1>4, <4>1
      <4>3. CASE mapped[kind] # NULL BY <1>1, <4>2, <4>3 DEF Placing!InForce
      <4>4. CASE mapped[kind] = NULL /\ Placing!Lender(kind) = NULL
        <5>1. kind \notin Placing!Borrowers(k) BY <4>4 DEF Placing!Borrowers
        <5>. QED BY <1>1, <4>2, <4>4, <5>1 DEF Placing!InForce
      <4>5. CASE mapped[kind] = NULL /\ Placing!Lender(kind) # NULL
        <5>1. kind = "issue" /\ Placing!Lender(kind) = "pr" BY <4>5 DEF Placing!Lender
        <5>2. CASE k = "pr"
          <6>1. kind \in Placing!Borrowers(k) BY <1>3, <5>1, <5>2 DEF Placing!Borrowers
          <6>2. mapped'[kind] = mapped["pr"] BY <4>2, <4>5, <5>2, <6>1
          <6>. QED BY <1>1, <1>3, <4>5, <5>1, <6>2 DEF Placing!InForce
        <5>3. CASE k # "pr"
          <6>1. kind \notin Placing!Borrowers(k) /\ "pr" \notin Placing!Borrowers(k)
                  /\ "pr" \in Placing!Kinds \ {k}
            BY <5>1, <5>3 DEF Placing!Borrowers, Placing!Lender, Placing!Kinds
          <6>2. mapped'[kind] = NULL /\ mapped'["pr"] = mapped["pr"] BY <1>4, <4>2, <4>5, <6>1
          <6>. QED BY <1>1, <4>5, <5>1, <6>2 DEF Placing!InForce
        <5>. QED BY <5>2, <5>3
      <4>. QED BY <4>3, <4>4, <4>5
    <3>2. ASSUME NEW q \in Movers, Pursues(q), entry # NULL, entry.thread # NULL PROVE Pursues(q)'
      <4>1. q # m BY <1>1, <3>2 DEF Pursues
      <4>2. mapped'[kind] = mapped[kind] BY <1>3, <1>4, <2>2, <3>2 DEF Pursues
      <4>. QED BY <1>1, <1>7, <1>10, <3>2, <4>1, <4>2, PursuesStays
    <3>3. ASSUME entry # NULL, Placing!Live(entry.thread)
          PROVE  \/ threads[entry.thread].channel = Placing!InForce \/ unmoved \/ entry.thread \in late
                 \/ \E q \in Movers : Pursues(q)'
      BY <3>2, <3>3 DEF PlacementInv, Placed, Placing!Live
    <3>4. unmoved' = unmoved BY <1>1, <2>2, RowIs
    <3>5. UNCHANGED <<entry, threads, late>> BY <1>1
    <3>. QED BY <3>1, <3>3, <3>4, <3>5 DEF Placed, Placing!Live
  <2>. QED BY <2>1, <2>2
<1>. QED BY <1>6, <1>8, <1>9, <1>10, <1>11, <1>13, <1>14 DEF PlacementInv

\* The facts a command finds as long as it changes nothing but what it has in hand.
LEMMA AsItWas ==
  ASSUME PlacementInv, UNCHANGED <<entry, threads, version, unmoved, alone>>
  PROVE  /\ threads' \in Seq(Placing!Discussions) /\ Grows(threads, threads')
              /\ Len(threads') = Len(threads)
         /\ GoodRow(entry', threads', version') /\ Settled(entry, entry')
         /\ binding = 0 => entry' = NULL
         /\ entry' # NULL => entry'.thread = NULL \/ (entry # NULL /\ entry'.thread = entry.thread)
         /\ unmoved' \in BOOLEAN /\ (unmoved => unmoved')
         /\ alone \subseteq alone' /\ alone' \subseteq 1 .. Len(threads)
         /\ \A t : Placing!PointsAt(t) => Placing!PointsAt(t)'
<1>1. GoodRow(entry', threads', version') /\ Settled(entry, entry') BY RowIs, SameThreads
<1>2. binding = 0 => entry' = NULL BY DEF PlacementInv, ServerKinds
<1>3. \A t : Placing!PointsAt(t) => Placing!PointsAt(t)' BY DEF Placing!PointsAt
<1>. QED BY <1>1, <1>2, <1>3, RowIs, SameThreads

LEMMA ListingStep ==
  ASSUME PlacementInv, NEW m \in Movers, Placing!List(m) PROVE PlacementInv'
<1>. USE Sorts
<1>1. /\ cmd[m].step = "listing"
      /\ UNCHANGED <<kind, binding, lastId, mapped, entry, threads, holder, errand, version, edits, unread,
                   breaks, unmoved, late, alone>>
  BY DEF Placing!List, Placing!tables, Placing!hub, Placing!history
<1>2. cmd[m] \in Orders BY OrderIs
<1>3. \A t \in 1 .. Len(threads) : Placing!PointsAt(t) => SeenTo(t)' BY <1>1, AsItWas DEF SeenTo
<1>4. CASE cmd[m].kind = kind /\ entry # NULL /\ entry.thread # NULL /\ entry.at # cmd[m].to
  <2>. DEFINE s == IF entry.at = NULL THEN "asking" ELSE "moving"
              o == [cmd[m] EXCEPT !.thread = entry.thread, !.at = entry.at, !.step = s]
  <2>1. cmd' = [cmd EXCEPT ![m] = o] BY <1>4 DEF Placing!List
  <2>2. entry.thread \in 1 .. Len(threads) /\ entry.thread \in Nat /\ entry \in Placing!Rows
    BY <1>4, RowIs DEF GoodRow
  <2>3. entry.thread \in Numbers /\ entry.at \in Rooms BY <2>2 DEF Placing!Rows, Numbers, Rooms
  <2>4. /\ o \in Orders /\ o.thread = entry.thread /\ o.at = entry.at /\ o.step = s
        /\ o.kind = cmd[m].kind /\ o.to = cmd[m].to BY <1>2, <2>3 DEF Orders
  <2>. HIDE DEF o
  <2>5. GoodOrder(o, threads', entry') BY <1>1, <1>4, <2>2, <2>4 DEF GoodOrder, Attached
  <2>6. cmd'[m] = o BY <2>1 DEF PlacementInv, OrderKinds
  <2>7. Pursues(m) => Pursues(m)' BY <1>1, <1>4, <2>4, <2>6 DEF Pursues
  <2>. QED BY <1>1, <1>3, <2>1, <2>4, <2>5, <2>7, AsItWas, CommandMoves
<1>5. CASE ~(cmd[m].kind = kind /\ entry # NULL /\ entry.thread # NULL /\ entry.at # cmd[m].to)
  <2>1. cmd' = [cmd EXCEPT ![m] = Placing!NoOrder] BY <1>5 DEF Placing!List, Placing!Done
  <2>2. Placing!NoOrder \in Orders /\ Placing!NoOrder.step = "idle" /\ GoodOrder(Placing!NoOrder, threads',
        entry') BY NoOrderIs
  <2>3. ASSUME Pursues(m), entry # NULL, Alive(threads, entry.thread)
        PROVE  threads[entry.thread].channel = Placing!InForce
    <3>1. cmd[m].to = mapped[kind] /\ mapped[kind] # NULL /\ cmd[m].kind = kind BY <1>1, <2>3 DEF Pursues
    <3>2. entry.thread # NULL /\ entry.at = mapped[kind] BY <1>5, <2>3, <3>1 DEF Alive
    <3>3. entry.at = threads[entry.thread].channel BY <2>3, <3>1, <3>2, RowIs DEF GoodRow
    <3>. QED BY <3>1, <3>2, <3>3 DEF Placing!InForce
  <2>. QED BY <1>1, <1>3, <2>1, <2>2, <2>3, AsItWas, CommandMoves
<1>. QED BY <1>4, <1>5

LEMMA AskDiscordStep ==
  ASSUME PlacementInv, NEW m \in Movers, Placing!AskDiscord(m) PROVE PlacementInv'
<1>. USE Sorts
<1>1. /\ cmd[m].step = "asking"
      /\ UNCHANGED <<kind, binding, lastId, mapped, entry, threads, holder, errand, version, edits, unread,
                   late, alone>>
  BY DEF Placing!AskDiscord, Placing!tables, Placing!hub
<1>2. cmd[m] \in Orders /\ GoodOrder(cmd[m], threads, entry) BY OrderIs
<1>3. \A t \in 1 .. Len(threads) : Placing!PointsAt(t) => SeenTo(t)' BY <1>1 DEF SeenTo, Placing!PointsAt
<1>4. CASE /\ cmd' = [cmd EXCEPT ![m].step = "noting", ![m].at = Placing!Whereabouts(cmd[m].thread)]
           /\ UNCHANGED <<breaks, unmoved>>
  <2>. DEFINE w == Placing!Whereabouts(cmd[m].thread)
              o == [cmd[m] EXCEPT !.step = "noting", !.at = w]
  <2>1. cmd' = [cmd EXCEPT ![m] = o] BY <1>4
  <2>2. cmd[m].thread \in 1 .. Len(threads) /\ threads[cmd[m].thread] \in Placing!Discussions
    BY <1>1, <1>2, RowIs DEF GoodOrder
  <2>3. /\ w \in Rooms
        /\ w = NULL => ~Alive(threads, cmd[m].thread)
        /\ w # NULL => w = threads[cmd[m].thread].channel
    BY <2>2 DEF Placing!Whereabouts, Placing!Live, Alive, Placing!Discussions, Rooms
  <2>. HIDE DEF w
  <2>4. /\ o \in Orders /\ o.thread = cmd[m].thread /\ o.at = w /\ o.step = "noting"
        /\ o.kind = cmd[m].kind /\ o.to = cmd[m].to BY <1>2, <2>3 DEF Orders
  <2>. HIDE DEF o
  <2>5. GoodOrder(o, threads', entry') BY <1>1, <1>2, <2>2, <2>3, <2>4 DEF GoodOrder
  <2>6. cmd'[m] = o BY <2>1 DEF PlacementInv, OrderKinds
  <2>7. Pursues(m) => Pursues(m)' BY <1>1, <2>4, <2>6 DEF Pursues
  <2>. QED BY <1>1, <1>3, <1>4, <2>1, <2>4, <2>5, <2>7, AsItWas, CommandMoves
<1>5. CASE Placing!Break /\ Placing!Done(m) /\ unmoved' = TRUE
  <2>1. cmd' = [cmd EXCEPT ![m] = Placing!NoOrder] BY <1>5 DEF Placing!Done
  <2>2. Placing!NoOrder \in Orders /\ Placing!NoOrder.step = "idle" /\ GoodOrder(Placing!NoOrder, threads',
        entry') BY NoOrderIs
  <2>3. /\ threads' \in Seq(Placing!Discussions) /\ Grows(threads, threads') /\ Len(threads') = Len(threads)
        /\ GoodRow(entry', threads', version') /\ Settled(entry, entry') /\ (binding = 0 => entry' = NULL)
        /\ alone \subseteq alone' /\ alone' \subseteq 1 .. Len(threads)
    BY <1>1, RowIs, SameThreads DEF PlacementInv, ServerKinds
  <2>. QED BY <1>1, <1>3, <1>5, <2>1, <2>2, <2>3, CommandMoves
<1>. QED BY <1>4, <1>5 DEF Placing!AskDiscord

LEMMA NoteWhereStep ==
  ASSUME PlacementInv, NEW m \in Movers, Placing!NoteWhere(m) PROVE PlacementInv'
<1>. USE Sorts
<1>. DEFINE gone == cmd[m].at = NULL
            t == cmd[m].thread
            o == IF gone \/ cmd[m].at = cmd[m].to THEN Placing!NoOrder ELSE [cmd[m] EXCEPT !.step = "moving"]
<1>1. /\ cmd[m].step = "noting"
      /\ entry' = IF ~Placing!PointsAt(t) THEN entry
                  ELSE [entry EXCEPT !.at = cmd[m].at, !.thread = IF gone THEN NULL ELSE @]
      /\ cmd' = [cmd EXCEPT ![m] = o]
      /\ UNCHANGED <<kind, binding, lastId, mapped, threads, holder, errand, version, edits, unread, breaks,
                   unmoved, late, alone>>
  BY DEF Placing!NoteWhere, Placing!Done, Placing!hub, Placing!history
<1>2. cmd[m] \in Orders /\ GoodOrder(cmd[m], threads, entry) BY OrderIs
<1>3. /\ t \in 1 .. Len(threads) /\ t # NULL
      /\ cmd[m].at \in Rooms
      /\ gone => ~Alive(threads, t)
      /\ ~gone => cmd[m].at = threads[t].channel
  BY <1>1, <1>2, RowIs DEF GoodOrder, Orders
<1>4. Placing!PointsAt(t) =>
         /\ entry # NULL /\ entry \in Placing!Rows /\ entry.thread = t /\ entry' \in Placing!Rows
              /\ entry' # NULL
         /\ entry'.at = cmd[m].at /\ entry'.stamp = entry.stamp /\ entry.stamp <= version
         /\ entry'.thread = IF gone THEN NULL ELSE t
  <2>1. ASSUME Placing!PointsAt(t) PROVE entry # NULL /\ entry \in Placing!Rows /\ entry.thread = t
                 /\ entry.stamp <= version
    BY <2>1, RowIs DEF Placing!PointsAt, GoodRow
  <2>2. ASSUME Placing!PointsAt(t)
        PROVE  /\ entry' \in Placing!Rows /\ entry'.at = cmd[m].at /\ entry'.stamp = entry.stamp
               /\ entry'.thread = IF gone THEN NULL ELSE t
    BY <1>1, <1>3, <2>1, <2>2 DEF Placing!Rows, Rooms
  <2>. QED BY <2>1, <2>2
<1>5. ~Placing!PointsAt(t) => entry' = entry BY <1>1
<1>6. GoodRow(entry', threads', version')
  <2>1. CASE Placing!PointsAt(t) BY <1>1, <1>3, <1>4, <2>1 DEF GoodRow
  <2>2. CASE ~Placing!PointsAt(t) BY <1>1, <1>5, <2>2, RowIs
  <2>. QED BY <2>1, <2>2
<1>7. Settled(entry, entry') BY <1>4, <1>5, SameThreads DEF Settled
<1>8. /\ binding = 0 => entry' = NULL
      /\ entry' # NULL => entry'.thread = NULL \/ (entry # NULL /\ entry'.thread = entry.thread)
  <2>1. binding = 0 => entry = NULL BY DEF PlacementInv, ServerKinds
  <2>. QED BY <1>4, <1>5, <2>1 DEF Placing!PointsAt
<1>9. /\ o \in Orders /\ o.step \in {"idle", "moving"}
      /\ o.step = "moving" => /\ o.thread = t /\ ~gone /\ cmd[m].at # cmd[m].to
                              /\ o.kind = cmd[m].kind /\ o.to = cmd[m].to
      /\ GoodOrder(o, threads', entry')
  <2>1. CASE gone \/ cmd[m].at = cmd[m].to BY <2>1, NoOrderIs
  <2>2. CASE ~(gone \/ cmd[m].at = cmd[m].to)
    <3>1. /\ o \in Orders /\ o.step = "moving" /\ o.thread = t /\ o.at = cmd[m].at
          /\ o.kind = cmd[m].kind /\ o.to = cmd[m].to BY <1>2, <2>2 DEF Orders
    <3>. HIDE DEF o
    <3>2. Attached(entry', t) => entry'.at # NULL BY <1>4, <1>5, <2>2 DEF Attached, Placing!PointsAt
    <3>3. GoodOrder(o, threads', entry') BY <1>1, <1>3, <3>1, <3>2 DEF GoodOrder
    <3>. QED BY <2>2, <3>1, <3>3
  <2>. QED BY <2>1, <2>2
<1>. HIDE DEF o
<1>10. cmd'[m] = o BY <1>1 DEF PlacementInv, OrderKinds
<1>11. ASSUME NEW u \in 1 .. Len(threads), threads'[u].live, Placing!PointsAt(u) PROVE SeenTo(u)'
  <2>1. Placing!PointsAt(u)' BY <1>1, <1>3, <1>4, <1>5, <1>11 DEF Placing!PointsAt, Alive
  <2>. QED BY <2>1 DEF SeenTo
<1>12. ASSUME Pursues(m), entry # NULL, Alive(threads, entry.thread)
       PROVE  Pursues(m)' \/ threads[entry.thread].channel = Placing!InForce
  <2>1. cmd[m].kind = kind /\ mapped[kind] # NULL /\ cmd[m].to = mapped[kind] /\ entry.thread = t
    BY <1>1, <1>12 DEF Pursues
  <2>2. ~gone /\ Placing!PointsAt(t) /\ entry'.thread = t BY <1>3, <1>4, <1>12, <2>1 DEF Placing!PointsAt
  <2>3. CASE cmd[m].at = cmd[m].to BY <1>3, <2>1, <2>2, <2>3 DEF Placing!InForce
  <2>4. CASE cmd[m].at # cmd[m].to
    <3>1. o.step = "moving" /\ o.thread = t /\ o.kind = cmd[m].kind /\ o.to = cmd[m].to
      BY <1>2, <2>2, <2>4 DEF o, Orders
    <3>. QED BY <1>1, <1>10, <2>1, <2>2, <3>1 DEF Pursues
  <2>. QED BY <2>3, <2>4
<1>13. /\ threads' \in Seq(Placing!Discussions) /\ Grows(threads, threads') /\ Len(threads') = Len(threads)
       /\ unmoved' \in BOOLEAN /\ (unmoved => unmoved') /\ alone \subseteq alone'
            /\ alone' \subseteq 1 .. Len(threads) BY <1>1, RowIs, SameThreads
<1>. QED BY <1>1, <1>6, <1>7, <1>8, <1>9, <1>11, <1>12, <1>13, CommandMoves

LEMMA MoveStep ==
  ASSUME PlacementInv, NEW m \in Movers, Placing!Move(m) PROVE PlacementInv'
<1>. USE Sorts
<1>. DEFINE o == [cmd[m] EXCEPT !.step = "syncing"]
            e == [Placing!Resting EXCEPT !.step = "waiting", !.version = version, !.moves = TRUE]
<1>1. /\ cmd[m].step = "moving" /\ kind # "ticket"
      /\ cmd' = [cmd EXCEPT ![m] = o] /\ errand' = [errand EXCEPT ![m] = e]
      /\ UNCHANGED <<kind, binding, lastId, mapped, entry, threads, holder, version, edits, unread, breaks,
                   unmoved, late, alone>>
  BY DEF Placing!Move, Placing!Begin, Placing!tables, Placing!hub, Placing!history
<1>2. /\ cmd[m] \in Orders /\ GoodOrder(cmd[m], threads, entry) /\ errand[m].step = "idle"
      /\ version \in Nat /\ version <= version /\ threads \in Seq(Placing!Discussions)
  BY <1>1, OrderIs, RowIs
<1>3. /\ o \in Orders /\ o.step = "syncing" /\ o.thread = cmd[m].thread /\ o.kind = cmd[m].kind
      /\ GoodOrder(o, threads', entry')
  <2>1. /\ o \in Orders /\ o.step = "syncing" /\ o.thread = cmd[m].thread /\ o.kind = cmd[m].kind
    BY <1>2 DEF Orders
  <2>. HIDE DEF o
  <2>2. GoodOrder(o, threads', entry') BY <1>1, <1>2, <2>1 DEF GoodOrder
  <2>. QED BY <2>1, <2>2
<1>4. /\ e \in Errands /\ e.step = "waiting" /\ e.version = version /\ e.moves = TRUE
      /\ e.old = NULL /\ e.new = NULL BY <1>2, BeginIs
<1>. HIDE DEF o, e
<1>5. GoodErrand(m, e, kind, version', threads') BY <1>1, <1>2, <1>4 DEF GoodErrand, UnderWay, Claiming
<1>6. /\ threads' \in Seq(Placing!Discussions) /\ Grows(threads, threads') /\ Len(threads') = Len(threads)
      /\ Settled(entry, entry') /\ version' \in Nat /\ version <= version'
  BY <1>1, <1>2, SameThreads
<1>7. OrderKinds' /\ cmd'[m] = o /\ \A q \in Movers \ {m} : cmd'[q] = cmd[q] BY <1>1, <1>3, <1>6, OneOrder
<1>8. ErrandKinds' /\ errand'[m] = e /\ \A q \in Placing!Procs \ {m} : errand'[q] = errand[q]
  BY <1>1, <1>4, <1>5, <1>6, OneErrand
<1>9. StepOf(m) BY <1>7, <1>8 DEF StepOf
<1>10. ServerKinds' /\ EntryKinds' BY <1>1 DEF PlacementInv, ServerKinds, EntryKinds, Known
<1>11. LocksHold'
  <2>1. \A q \in Placing!Procs : holder' = q <=> errand'[q].step \notin {"idle", "waiting"}
    BY <1>1, <1>2, <1>4, <1>8 DEF PlacementInv, LocksHold
  <2>2. \A q \in Movers : errand'[q].step # "idle" <=> cmd'[q].step = "syncing"
    BY <1>3, <1>4, <1>7, <1>8 DEF PlacementInv, LocksHold
  <2>. QED BY <1>1, <2>1, <2>2 DEF PlacementInv, LocksHold
<1>12. NoneForgotten'
  <2>1. \A t \in 1 .. Len(threads) : Placing!PointsAt(t) => SeenTo(t)' BY <1>1 DEF Placing!PointsAt, SeenTo
  <2>2. errand[m].step \notin Claiming BY <1>2 DEF Claiming
  <2>. QED BY <1>1, <1>6, <1>9, <2>1, <2>2, NoneForgottenStays
<1>13. Placed'
  <2>1. Pursues(m) => Pursues(m)' BY <1>1, <1>3, <1>4, <1>7, <1>8 DEF Pursues
  <2>. QED BY <1>1, <1>6, <1>9, <2>1, PlacedStays
<1>. QED BY <1>7, <1>8, <1>10, <1>11, <1>12, <1>13 DEF PlacementInv

LEMMA ReleaseStep ==
  ASSUME PlacementInv, NEW m \in Movers, Placing!ReleaseForThePoller(m) PROVE PlacementInv'
<1>. USE Sorts
<1>. DEFINE t == cmd[m].thread
            o == [cmd[m] EXCEPT !.step = "posting"]
<1>1. /\ cmd[m].step = "moving"
      /\ entry' = IF Placing!PointsAt(t) THEN [entry EXCEPT !.thread = NULL, !.at = NULL] ELSE entry
      /\ cmd' = [cmd EXCEPT ![m] = o]
      /\ UNCHANGED <<kind, binding, lastId, mapped, threads, holder, errand, version, edits, unread, breaks,
                   unmoved, late, alone>>
  BY DEF Placing!ReleaseForThePoller, Placing!hub, Placing!history
<1>2. /\ cmd[m] \in Orders /\ GoodOrder(cmd[m], threads, entry)
      /\ threads \in Seq(Placing!Discussions) /\ Len(threads) \in Nat
  BY OrderIs, RowIs
<1>3. t \in 1 .. Len(threads) /\ t # NULL BY <1>1, <1>2 DEF GoodOrder
<1>4. Placing!PointsAt(t) =>
         /\ entry # NULL /\ entry.thread = t /\ entry' \in Placing!Rows /\ entry' # NULL
         /\ entry'.at = NULL /\ entry'.thread = NULL /\ entry'.stamp = entry.stamp /\ entry.stamp <= version
  <2>1. ASSUME Placing!PointsAt(t) PROVE entry # NULL /\ entry \in Placing!Rows /\ entry.thread = t
                 /\ entry.stamp <= version
    BY <2>1, RowIs DEF Placing!PointsAt, GoodRow
  <2>2. ASSUME Placing!PointsAt(t)
        PROVE  /\ entry' \in Placing!Rows /\ entry'.at = NULL /\ entry'.thread = NULL
                    /\ entry'.stamp = entry.stamp
    BY <1>1, <2>1, <2>2 DEF Placing!Rows
  <2>. QED BY <2>1, <2>2
<1>5. ~Placing!PointsAt(t) => entry' = entry BY <1>1
<1>6. GoodRow(entry', threads', version') BY <1>1, <1>4, <1>5, RowIs DEF GoodRow
<1>7. Settled(entry, entry') BY <1>4, <1>5, SameThreads DEF Settled
<1>8. /\ binding = 0 => entry' = NULL
      /\ entry' # NULL => entry'.thread = NULL \/ (entry # NULL /\ entry'.thread = entry.thread)
  <2>1. binding = 0 => entry = NULL BY DEF PlacementInv, ServerKinds
  <2>. QED BY <1>4, <1>5, <2>1 DEF Placing!PointsAt
<1>9. /\ o \in Orders /\ o.step = "posting" /\ o.thread = t
      /\ GoodOrder(o, threads', entry')
  <2>1. o \in Orders /\ o.step = "posting" /\ o.thread = t BY <1>2 DEF Orders
  <2>. HIDE DEF o
  <2>2. GoodOrder(o, threads', entry') BY <1>1, <1>3, <2>1 DEF GoodOrder
  <2>. QED BY <2>1, <2>2
<1>. HIDE DEF o
<1>10. cmd'[m] = o BY <1>1 DEF PlacementInv, OrderKinds
<1>11. ASSUME NEW u \in 1 .. Len(threads), threads'[u].live, Placing!PointsAt(u) PROVE SeenTo(u)'
  <2>1. CASE u = t
    <3>1. cmd'[m].thread = u /\ cmd'[m].step = "posting" BY <1>9, <1>10, <2>1
    <3>. QED BY <3>1 DEF SeenTo
  <2>2. CASE u # t BY <1>1, <1>4, <1>11, <2>2 DEF SeenTo, Placing!PointsAt
  <2>. QED BY <2>1, <2>2
<1>12. ASSUME Pursues(m), entry # NULL, Alive(threads, entry.thread) PROVE entry'.thread # entry.thread
  <2>1. Placing!PointsAt(t) BY <1>1, <1>12 DEF Pursues, Placing!PointsAt
  <2>. QED BY <1>3, <1>4, <2>1
<1>13. /\ threads' \in Seq(Placing!Discussions) /\ Grows(threads, threads') /\ Len(threads') = Len(threads)
       /\ unmoved' \in BOOLEAN /\ (unmoved => unmoved') /\ alone \subseteq alone'
            /\ alone' \subseteq 1 .. Len(threads) BY <1>1, RowIs, SameThreads
<1>. QED BY <1>1, <1>6, <1>7, <1>8, <1>9, <1>11, <1>12, <1>13, CommandMoves

LEMMA SaidIs ==
  ASSUME PlacementInv, NEW t \in 1 .. Len(threads), NEW told \in BOOLEAN, NEW closed \in BOOLEAN,
         threads' = [threads EXCEPT ![t].told = @ \/ told, ![t].shut = @ \/ closed]
  PROVE  /\ threads' \in Seq(Placing!Discussions) /\ Len(threads') = Len(threads) /\ Grows(threads,
            threads')
         /\ told => threads'[t].told
         /\ closed => threads'[t].shut
<1>1. threads \in Seq(Placing!Discussions) /\ Len(threads) \in Nat BY RowIs
<1>2. threads[t] \in Placing!Discussions BY <1>1
<1>. DEFINE d == [threads[t] EXCEPT !.told = @ \/ told, !.shut = @ \/ closed]
<1>3. d \in Placing!Discussions /\ d.channel = threads[t].channel /\ d.live = threads[t].live
      /\ d.told = (threads[t].told \/ told) /\ d.shut = (threads[t].shut \/ closed)
  BY <1>2 DEF Placing!Discussions
<1>4. threads' = [threads EXCEPT ![t] = d] OBVIOUS
<1>. HIDE DEF d
<1>5. /\ threads' \in Seq(Placing!Discussions) /\ Len(threads') = Len(threads)
      /\ threads'[t] = d /\ \A u \in (1 .. Len(threads)) \ {t} : threads'[u] = threads[u]
  <2>1. threads \in [1 .. Len(threads) -> Placing!Discussions] BY <1>1
  <2>2. threads' \in [1 .. Len(threads) -> Placing!Discussions] BY ONLY <1>3, <1>4, <2>1
  <2>3. threads' \in Seq(Placing!Discussions) BY ONLY <1>1, <2>2
  <2>4. Len(threads') = Len(threads) BY ONLY <1>1, <2>2, <2>3
  <2>5. threads'[t] = d /\ \A u \in (1 .. Len(threads)) \ {t} : threads'[u] = threads[u] BY <1>4, <2>1
  <2>. QED BY <2>3, <2>4, <2>5
<1>6. Grows(threads, threads')
  <2>1. Len(threads) <= Len(threads') BY <1>1, <1>5
  <2>2. ASSUME NEW u \in 1 .. Len(threads)
        PROVE  /\ threads'[u].channel = threads[u].channel
               /\ threads'[u].live => threads[u].live
               /\ threads[u].told => threads'[u].told
               /\ threads[u].shut => threads'[u].shut
    <3>1. CASE u = t BY <1>3, <1>5, <3>1
    <3>2. CASE u # t BY <1>5, <3>2
    <3>. QED BY <3>1, <3>2
  <2>. QED BY <2>1, <2>2 DEF Grows
<1>7. told => threads'[t].told BY <1>3, <1>5
<1>8. closed => threads'[t].shut BY <1>3, <1>5
<1>. QED BY <1>5, <1>6, <1>7, <1>8

LEMMA SayWhereStep ==
  ASSUME PlacementInv, NEW m \in Movers, Placing!SayWhere(m) PROVE PlacementInv'
<1>. USE Sorts
<1>. DEFINE t == cmd[m].thread
<1>1. /\ cmd[m].step = "posting" /\ cmd' = [cmd EXCEPT ![m] = Placing!NoOrder]
      /\ UNCHANGED <<kind, binding, lastId, mapped, entry, holder, errand, version, edits, unread, unmoved,
                   late>>
      /\ breaks' = breaks \/ Placing!Break
  BY DEF Placing!SayWhere, Placing!Done, Placing!tables, Placing!hub
<1>2. /\ cmd[m] \in Orders /\ GoodOrder(cmd[m], threads, entry)
      /\ threads \in Seq(Placing!Discussions) /\ Len(threads) \in Nat
  BY OrderIs, RowIs
<1>3. t \in 1 .. Len(threads) /\ t # NULL /\ threads[t] \in Placing!Discussions BY <1>1, <1>2 DEF GoodOrder
<1>4. /\ threads' \in Seq(Placing!Discussions) /\ Grows(threads, threads') /\ Len(threads') = Len(threads)
      /\ alone \subseteq alone' /\ alone' \subseteq 1 .. Len(threads)
      /\ threads'[t].live => t \in alone' \/ (threads'[t].told /\ threads'[t].shut)
  <2>1. CASE Placing!Live(t) /\ threads' = Placing!Signposted(t) /\ UNCHANGED <<breaks, alone>>
    <3>1. threads' = [threads EXCEPT ![t].told = @ \/ TRUE, ![t].shut = @ \/ TRUE]
      BY <1>2, <1>3, <2>1 DEF Placing!Signposted, Placing!Discussions
    <3>. QED BY <1>3, <2>1, <3>1, SaidIs, RowIs
  <2>2. CASE ~Placing!Live(t) /\ UNCHANGED <<threads, breaks, alone>>
    BY <1>3, <2>2, SameThreads, RowIs DEF Placing!Live
  <2>3. ASSUME Placing!Break, Placing!Alone({t}), NEW told \in BOOLEAN,
               threads' = [threads EXCEPT ![t].told = @ \/ told]
        PROVE  /\ threads' \in Seq(Placing!Discussions) /\ Grows(threads, threads')
                    /\ Len(threads') = Len(threads)
               /\ alone \subseteq alone' /\ alone' \subseteq 1 .. Len(threads)
               /\ threads'[t].live => t \in alone' \/ (threads'[t].told /\ threads'[t].shut)
    <3>1. threads' = [threads EXCEPT ![t].told = @ \/ told, ![t].shut = @ \/ FALSE]
      BY <1>2, <1>3, <2>3 DEF Placing!Discussions
    <3>2. alone' = alone \cup {t} BY <1>3, <2>3 DEF Placing!Alone
    <3>. QED BY <1>3, <3>1, <3>2, SaidIs, RowIs
  <2>4. CASE Placing!Break /\ Placing!Alone({t})
               /\ \E told \in BOOLEAN : threads' = [threads EXCEPT ![t].told = @ \/ told]
    BY <2>3, <2>4
  <2>. QED BY <2>1, <2>2, <2>4 DEF Placing!SayWhere
<1>5. GoodRow(entry', threads', version') /\ Settled(entry, entry') /\ (binding = 0 => entry' = NULL)
  <2>1. GoodRow(entry, threads, version) /\ version \in Nat /\ version <= version BY RowIs
  <2>2. GoodRow(entry, threads', version) BY <1>2, <1>4, <2>1, RowStays
  <2>. QED BY <1>1, <2>2, SameThreads DEF PlacementInv, ServerKinds
<1>6. Placing!NoOrder \in Orders /\ Placing!NoOrder.step = "idle" /\ GoodOrder(Placing!NoOrder, threads',
      entry') BY NoOrderIs
<1>7. ASSUME NEW u \in 1 .. Len(threads), threads'[u].live, Placing!PointsAt(u) \/ u = t
      PROVE  SeenTo(u)' BY <1>1, <1>4, <1>7 DEF SeenTo, Placing!PointsAt
<1>8. ~Pursues(m) BY <1>1 DEF Pursues
<1>9. unmoved' \in BOOLEAN /\ (unmoved => unmoved') BY <1>1, RowIs
<1>. QED BY <1>1, <1>4, <1>5, <1>6, <1>7, <1>8, <1>9, CommandMoves

LEMMA PlacementStep == PlacementInv /\ [Placing!Next]_(Placing!placementVars) => PlacementInv'
<1>. SUFFICES ASSUME PlacementInv, [Placing!Next]_(Placing!placementVars) PROVE PlacementInv' OBVIOUS
<1>1. CASE Placing!Edit BY <1>1, EditStep
<1>2. CASE \E t \in DOMAIN threads : Placing!Delete(t) BY <1>2, DeleteStep
<1>3. CASE \E c \in Channels : Placing!Register(c) BY <1>3, RegisterStep
<1>4. CASE Placing!Unregister BY <1>4, UnregisterStep
<1>5. CASE \E s \in Visits : Placing!Deliver(s) BY <1>5, DeliverStep
<1>6. CASE \E p \in Placing!Procs : Placing!Visit(p) BY <1>6, VisitStep
<1>7. CASE \E m \in Movers : Placing!Command(m)
  BY <1>7, AssignStep, ListingStep, AskDiscordStep, NoteWhereStep, MoveStep, ReleaseStep, SayWhereStep
    DEF Placing!Command
<1>8. CASE UNCHANGED Placing!placementVars
  <2>1. UNCHANGED <<kind, binding, lastId, mapped, entry, threads, holder, errand, cmd, version, unread,
                  edits,
                    mappings, breaks, unmoved, late, alone>>
    BY <1>8 DEF Placing!placementVars, Placing!tables, Placing!hub, Placing!history
  <2>2. ServerKinds' /\ EntryKinds' /\ ErrandKinds' /\ OrderKinds' /\ LocksHold'
    BY <2>1 DEF PlacementInv, ServerKinds, EntryKinds, ErrandKinds, OrderKinds, LocksHold, Known
  <2>3. NoneForgotten' BY <2>1 DEF PlacementInv, NoneForgotten, SeenTo, Placing!PointsAt
  <2>4. Placed' BY <2>1 DEF PlacementInv, Placed, Placing!Live, Placing!InForce, Pursues
  <2>. QED BY <2>2, <2>3, <2>4 DEF PlacementInv
<1>. QED BY <1>1, <1>2, <1>3, <1>4, <1>5, <1>6, <1>7, <1>8 DEF Placing!Next

----
(* The whole. *)

\* A step is one part's, and the others stay as they were.
LEMMA StepIsAPartsStep ==
  ASSUME [ThreadsNext]_allVars
  PROVE  /\ [Next]_vars
         /\ [Placing!Next]_(Placing!placementVars)
         /\ [Saying!Next]_(Saying!verdictsVars)
         /\ [Running!Next]_(Running!vars)
         /\ [Probing!Next]_(Probing!vars)
         /\ part' = part
<1>1. UNCHANGED placementAside => UNCHANGED Placing!placementVars
  BY DEF placementAside, Placing!placementVars, Placing!tables, Placing!hub, Placing!history
<1>2. UNCHANGED verdictsAside => UNCHANGED Saying!verdictsVars
  BY DEF verdictsAside, Saying!verdictsVars, Saying!hub, Saying!past
<1>3. UNCHANGED processAside => UNCHANGED Running!vars BY DEF processAside, Running!vars
<1>4. UNCHANGED healthAside => UNCHANGED Probing!vars
  BY DEF healthAside, Probing!vars, Probing!world, Probing!cache
<1>5. UNCHANGED threadsAside => UNCHANGED vars /\ UNCHANGED placementAside /\ UNCHANGED verdictsAside
  BY DEF threadsAside
<1>6. CASE UNCHANGED allVars BY <1>1, <1>2, <1>3, <1>4, <1>5, <1>6 DEF allVars
<1>7. CASE SyncItems BY <1>1, <1>2, <1>3, <1>4, <1>7 DEF SyncItems
<1>8. CASE PlaceThreads BY <1>2, <1>3, <1>4, <1>8 DEF PlaceThreads
<1>9. CASE SayVerdicts BY <1>1, <1>3, <1>4, <1>9 DEF SayVerdicts
<1>10. CASE Run BY <1>1, <1>2, <1>4, <1>5, <1>10 DEF Run
<1>11. CASE Probe BY <1>1, <1>2, <1>3, <1>5, <1>11 DEF Probe
<1>12. CASE Rested BY <1>6, <1>12 DEF Rested
<1>. QED BY <1>6, <1>7, <1>8, <1>9, <1>10, <1>11, <1>12 DEF ThreadsNext

PartKnown == part \in {"sync", "placement", "verdicts", "process", "health"}

LEMMA PartsHold ==
  ThreadsSpec => [](PartKnown /\ TypeOK /\ PlacementInv /\ VerdictsInv /\ ProcessInv /\ HealthInv)
<1>. DEFINE All == PartKnown /\ TypeOK /\ PlacementInv /\ VerdictsInv /\ ProcessInv /\ HealthInv
<1>1. ThreadsInit => All
  BY TypeInit, PlacementInit, VerdictsInit, ProcessInit, HealthInit DEF ThreadsInit, PartKnown
<1>2. All /\ [ThreadsNext]_allVars => All'
  <2>1. PartKnown /\ [ThreadsNext]_allVars => PartKnown' BY StepIsAPartsStep DEF PartKnown
  <2>. QED BY <2>1, StepIsAPartsStep, TypeStep, PlacementStep, VerdictsStep, ProcessStep, HealthStep
<1>. QED BY <1>1, <1>2, PTL DEF ThreadsSpec

(* Every part's rows, locks, orders and counts keep their types: in every  *)
(* part a lock is somebody's exactly while that one is between taking and  *)
(* giving it, and what is counted stays within what was opened or sent.    *)
THEOREM ThreadsTypeCorrect == ThreadsSpec => []ThreadsTypeOK
<1>1. /\ PartKnown /\ TypeOK /\ PlacementInv /\ VerdictsInv /\ ProcessInv /\ HealthInv
      => ThreadsTypeOK
  BY PlacementAre, VerdictsAre, ProcessAre, HealthAre DEF ThreadsTypeOK, PartKnown
<1>. QED BY <1>1, PartsHold, PTL

(* However deliveries, commands that move the item, their failures and     *)
(* /unregister cross, no thread is left open that nothing writes to, and   *)
(* the item's own is in the channel its kind has, unless Discord, GitHub   *)
(* or a process failed, the command owned up to it, or the thread was      *)
(* attached for a mapping read before it changed                           *)
(* (shannon/services/sync/relocation.py, shannon/services/sync/threads.py).*)
THEOREM AlwaysPlaced == ThreadsSpec => []PlacedWhenQuiet
<1>1. PlacementInv => PlacedWhenQuiet BY PlacementAre DEF PlacedWhenQuiet
<1>. QED BY <1>1, PartsHold, PTL

(* However deliveries about one commit cross, are retried or fail, what CI *)
(* made of it is said once, and so is an agreement, and only of a commit   *)
(* that was agreed on (shannon/services/checks.py,                         *)
(* shannon/services/reviews.py).                                           *)
THEOREM VerdictsAlwaysSaid == ThreadsSpec => []VerdictsAreSaid
<1>1. VerdictsInv => VerdictsAreSaid BY VerdictsAre DEF VerdictsAreSaid
<1>. QED BY <1>1, PartsHold, PTL

(* Whatever dies, refuses or is asked to stop, nothing is closed under a   *)
(* task that needs it and no task outlives the stop; and nobody is told by *)
(* /health what was not lately so, nor waits for a probe that is nobody's  *)
(* (shannon/runtime, shannon/api/routes/health.py).                        *)
THEOREM AlwaysEndsAndAnswersWell == ThreadsSpec => []EndsAndAnswersWell
<1>1. ProcessInv /\ HealthInv => EndsAndAnswersWell BY ProcessAre, HealthAre DEF EndsAndAnswersWell
<1>. QED BY <1>1, PartsHold, PTL
=============================================================================
