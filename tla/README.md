# Shannon-bot in TLA+

Shannon mirrors GitHub issues, pull requests and project cards into Discord
forum threads. GitHub posts webhooks to it; each is written to a table and
drained by a worker that locks the item, updates its row and then its thread.
Beside that run background loops (transcripts, reminders, a board poller) and
slash commands, all against one PostgreSQL database and two remote services,
GitHub and Discord, whose calls may fail, be slow, or take effect and then
report failure. Several processes may run at once: during a deploy the old one
and the new one do.

This directory holds a model of the parts of that program whose correctness
rests on order and failure, TLC runs that check them on small instances, and
TLAPS proofs of the results that matter most for instances of any size. Paths
below are relative to the repository; `PROJECT.json` maps every definition to
the lines it stands for.

    tlc -config Deliveries.cfg MCDeliveries     # a run
    tlapm DeliveryQueueProofs.tla               # a proof

Contents: 1 inventory, 2 modules, 3 runs and bounds, 4 fairness, 5 proofs,
6 what the work found, 7 what is not modelled, 8 plan.

## 1. Inventory

### The system's parts and what they keep

| Part | Code | State | Operations |
|---|---|---|---|
| Webhook endpoint | `api/routes/webhooks.py`, `github/webhooks/*` | none | check size, signature and relevance; `enqueue`; answer 202/4xx/503 |
| Delivery queue | `services/delivery/queue.py`, `db/stores/webhook_events.py` | `webhook_events`: status, attempts, deadlines | enqueue or revive, lease, release, finish, retry later, give up, prune |
| Delivery worker | `services/delivery/worker.py` | the batch in hand, `_stopping` | `run_once`, `run_forever`, `_handle`, `_reschedule`, stop |
| Item sync | `services/sync/items.py`, `policies.py`, `staleness.py` | `tracked_items` | `sync`: judge the payload, write the row, write the thread, settle its lock |
| Item lock | `services/sync/one_at_a_time.py` | a PostgreSQL advisory lock per item | `held`, with a bounded wait |
| Item threads | `services/sync/threads.py`, `db/stores/thread_pointers.py` | `discord_thread_id`, `discord_thread_locked` | write, open and claim, take back, forget, note the lock |
| Manual sync, refresh, regenerate, relocation | `services/sync/{manual,refresh,regenerate,relocation}.py` | none of their own | one more sync from a fetched payload; move a thread |
| Assignments and pings | `db/stores/assignments.py`, `services/sync/notifications.py`, `services/audience.py` | `item_assignments` | replace, claim and release a ping, fulfil, reopen |
| Notes and claimed lines | `services/notes.py`, `services/sync/{announcements,state_lines,label_lines,draft_lines,commit_lines,shutting}.py`, `services/tracking.py`, `db/stores/mirrored_notes.py` | `mirrored_notes` | claim, post, remember, hand back; rebuild a lost thread; shut again after posting |
| Reviews, checks | `services/{reviews,review_threads,checks}.py` | rows of the above | round up, announce, fulfil a request |
| Boards | `services/{projects,boards,board_credentials}.py`, `services/sync/draft_cards.py`, `github/projects.py` | `board_authorizations`, cards as items, validators in memory | link, unlink, poll a board, carry out each moved card, mirror each changed draft |
| Workflow commands | `services/{workflow,labels,people}.py` | the status in `tracked_items` | write to GitHub and the row, redraw, lock, move the card; give back what a failed half leaves |
| Transcripts | `services/transcripts/*`, `db/stores/{conversations,logged_messages}.py` | `logged_conversations`, `logged_messages`, the set of live threads | start, stop, capture, forget, flush |
| Reminders | `services/reminders/*`, `db/stores/reminders.py` | `reminders` | add under a cap, claim, send, count a refusal, finish |
| Links and verification | `services/{linking,verification}.py`, `api/routes/oauth.py` | `user_links`, `identity_verifications`, `verified_identities` | begin, exchange, expire, link |
| Registration | `services/{registration,unregistration,channels,tracking}.py` | `repositories`, `channel_mappings` | register, map, unregister |
| Runtime | `runtime/*`, `container.py`, `api/routes/health.py` | tasks, cached probe | start, supervise, stop, answer `/health` |
| GitHub and Discord clients | `github/*`, `discord_bot/*` | `github_installations`, token cache, kept listings | calls, tokens, conditional and paged reads, rendering |

### How they interact

The endpoint only writes a row. The worker leases rows (`FOR UPDATE SKIP
LOCKED`) and calls the router's handler for each, one at a time; the handler of
an item is `ItemSync.sync`. It takes the item's advisory lock on a connection
of its own, runs a transaction that judges the payload and writes the row,
commits, and then calls Discord, writing back to the row what it learned
(thread, lock state) in short guarded updates. An exception travels back to
the worker, which decides on a retry; so every handler must be idempotent, and
must be right when run twice, late, or after something newer. Commands call
the same services directly. Posting in a thread re-opens an archived thread,
so everything that posts puts it back afterwards. `capture` and the flusher
meet only in the transcript tables; commands and the sender only in
`reminders`.

### What is hard

* *Order.* Backoff, replicas and Redeliver hand payloads over in any order, and
  GitHub's `updated_at` has a resolution of one second.
* *Two halves.* A row is committed before Discord is called; between the two
  anybody may commit something newer, and each half may fail alone.
* *Leases without owners.* Queue writes, transcript releases and reminder
  deletes name the row and not the holder, so a holder that lost its claim
  still writes.
* *Effects reported as failures.* A post, a thread or a commit may have
  happened though the call raised.
* *Dying in between.* Claims are made before the work they protect, so each
  needs an age at which it is taken over, and work that outlives it.
* *Waiting.* The item lock, the gateway and rate limits are waited for with
  deadlines; giving up must leave the work to a retry.

### What makes each part correct

* Queue: a delivery accepted is run until settled; one replica at a time; given
  up on only for its own failures; settled for good. (modelled, proved)
* Item sync: when the deliveries are through, row, block and lock are what
  GitHub last said; the row never goes back; no thread is left over. (modelled,
  proved)
* Transcripts: what was captured goes out or is accounted for, and goes out
  once but for a fault. (modelled, proved)
* Reminders: one sender each, rung once but for a fault, forgotten for a
  reason, the cap a soft one. (modelled, proved)
* Claimed lines and notes: never said again once heard; said in the end unless
  a claim was left behind; shown at their newest; the thread left as the row
  says. (modelled, proved)
* Pings: whoever is asked to review is pinged once for each asking, and not
  fewer. (modelled, proved)
* Verdicts: what CI or the reviewers came to is announced once, of a commit and
  of reviewers that had it. (modelled, proved)
* Lines: labels, the draft switch and commits are said once, none passed over.
  (modelled, proved)
* Boards: a board is read whole, as the linker chose and no more often than it
  costs; a move seen is carried through or said not to be; a draft's thread is
  its card. (modelled; proved but for how a board is read)
* Placement and refresh: a thread is in the channel its kind has, none is left
  behind, and a redraw leaves a thread as quiet as it was. (modelled, the
  first two proved)
* Sign-in: what is kept for a member is that member's account. (modelled, proved)
* Tokens: a burst mints once, the map of installations follows GitHub.
  (modelled, proved)
* Conversations: nobody is captured who was not told, and the reverse.
  (modelled, proved)
* Runtime: nothing is closed under a task that needs it, none is forgotten, the
  end of a vital one ends the process, and the probe does not mislead.
  (modelled, proved)

## 2. Modules

Every module names the files it models in its head; every variable says which
column, field or local it stands for; an action is one transaction or one call
to a remote service, with all the code does before the next one. Histories
(marked so in the VARIABLES) record what a property needs and are read by no
guard. Definitions under a comment that begins "Mutant:" are wrong on purpose:
each is a small mistake the code could have made in the definition after it, no
action uses it, and each property of a run is checked to fail when its mutant
takes the place of the real definition.

| Module | What it is |
|---|---|
| `DeliveryQueue` | the table `webhook_events` and any number of workers |
| `DeliveryPromise` | what the endpoint promises of a delivery; `DeliveryQueue` implements it |
| `DeliveryQueueProofs` | its proofs |
| `LeaseClock` | one batch against the clock: whether a lease can run out under its batch |
| `ReviewRequests` | one party asked to review: its row, its pings, and the deliveries that move it |
| `Installations` | the App on one account: the row, the tokens, and who asks for them |
| `Conversations` | which threads are captured: rows, the set in memory, the notices |
| `ItemSync` | one issue, its row, lock and threads, and any number of syncs |
| `Placement` | the channel an item's thread belongs in, and moving it there |
| `Verdicts` | what CI and the reviewers came to, said in the thread |
| `Process`, `Health` | the process from start to stop; what `/health` says |
| `Transcripts` | one conversation, its messages and any number of flushers |
| `Reminders`, `RemindersProofs` | the reminders of one person in one server, and any number of senders; proofs |
| `CardMoves` | a pull request and its card: `/status` and the poller |
| `DraftCards` | a draft card and its thread: the poller and `/refresh` |
| `BoardLink` | which board a server mirrors, under whose authorisation |
| `BoardReading` | listing a board by pages and validators |
| `SignIns` | the round trip to GitHub, and commands on people |
| `Redraws` | what `/refresh` does to the threads that exist |
| `Notes`, `NotesProofs` | the notes and state lines of one issue, its thread, and any number of workers; proofs |
| `Lines` | labels, the draft switch and the commits of a push |
| `Replies` | whom a reply on a diff rings, and when it waits for GitHub |
| `MCDeliveries`, `MCThreads`, `MCSending`, `MCParts`, `MCNotes` | compositions, below |
| `DeliveriesProofs` | proofs about `MCDeliveries`: types, tokens, conversations; and about `LeaseClock` |
| `SaidProofs` | proofs about `MCNotes`: lines, replies, and with those of Notes the whole |
| `ThreadsProofs` | proofs about `ItemSync` and `MCThreads`: types, ownership, the quiet state, placement, verdicts, the process and its probe |
| `PartsProofs` | proofs about `MCParts`: all of its parts, the reminders' types among them |
| `SendingProofs` | proofs about `Transcripts` and `MCSending`, the latter from those of Reminders and of DeliveryQueue |
| `MCItemSync`, `MCTranscripts` | instances of one module |

### Compositions

Some parts interact only through one table, with one part's promise standing
for the other (ItemSync takes the queue as what is proved of it). Others share
nothing but the database server. For those the state space of a product would
be a product of state spaces and say nothing new, so a composition is a choice:
its initial states choose a `part`, its next-state relation is a disjunction of
the parts' next-state relations, each enabled for its own part and leaving the
variables of the others as they were, and its type invariant speaks of the part
that moves. `MCDeliveries` is the queue and what deliveries and members change
beside it (ReviewRequests, Installations, Conversations), `MCThreads` the
thread of an item and the process (ItemSync, Placement, Verdicts, Process,
Health), `MCSending` what is kept until it goes out (Transcripts, Reminders,
DeliveryQueue with leases overrun), `MCParts` what commands and the poller do
(Reminders, CardMoves, DraftCards, BoardLink, SignIns, BoardReading, Redraws),
`MCNotes` what a thread is told (Notes, Lines, Replies). Parts are given the
same model values where symmetry is used, so that the group is small; only one
of them is in use in any behaviour. A property of a composition whose name no
module has is the conjunction of what its parts promise, stated beside it (in
`MCParts`, of the part that moves):

| Composed property | Conjunction of |
|---|---|
| `PingedAsAsked` | `RungOncePerAsk`, `ToldOrOwed` (both in ReviewRequests) |
| `TokensServe` | `MintsOnce`, `MapFollowsGitHub` of Installations |
| `HeardAsTold` | `NobodyUntold`, `Armed`, `NotOfTheDead` (Conversations) |
| `MirroredWhenQuiet` | row and block, and the lock, of a quiet item (ItemSync); likewise in Notes, version and lock |
| `PlacedWhenQuiet` | `NoThreadLeftBehind`, `WhereItsKindBelongs` of Placement |
| `VerdictsAreSaid` | `SaidOnceWhenQuiet`, `AgreedWhenSaid` of Verdicts |
| `EndsAndAnswersWell` | `StopsInOrder` of Process, `AnswersAsItFound` of Health |
| `NothingTwice` | `DuplicateNeedsAFault` of Transcripts, `RungOnce` of Reminders |
| `MovedWhenQuiet` | `AgreesWhenQuiet`, `LockFollows` (CardMoves) |
| `DraftsAreAsTheirCards` | `ShownAsItsCardIs`, `LetGoForAReason` of DraftCards |
| `BoardsAreAsChosen` | `ReadAsChosen`, `CardsOfThisBoard` of BoardLink |
| `EveryoneIsThemselves` | `NobodyElsesAccount`, `PutsTheRightOneOn` of SignIns |
| `ReadAndShownWhole` | `NothingHidden`, `ShownAfterAPass`, `NotHurried` of BoardReading; `LeftAsFound`, `EachInItsTurn`, `ShownAsListed` of Redraws |
| `ShownAndHeard` | `MirroredWhenQuiet` of Notes, `ThreadHears` of Lines, `OutageCostsThePing`, `RingsWhomItAnswers` of Replies |

### DeliveryQueue

A row is a database id; `status`, `attempts` are columns. Deadlines are kept as
what the queries read of them: `due` for `next_attempt_at <= now()`, `lapsed`
for `locked_until <= now()`, `aged` for the retention of the prune, each with
an action of the clock (`BackoffEnds`, `LeaseLapses`, `Ages`). Rows leased in
one statement share a deadline, so `LeaseLapses` takes them together. The
worker is `run_once`: `Lease`, then for each row `Begin`, `DispatchEnds`
(whatever the handler did, including running into its timeout), `Record`; with
`RecordFails` (the write raised, before its commit or after), `HandBack` and
`HandBackFails` (the release of what is left), `Stop`, `Cancel` and
`HandBackRest` (the shutdown grace ran out; the `finally` releases the rest),
`Exit`, `Crash`, `Restart`. No write looks at whose lease it is, exactly as in
the code: each is guarded on the row still being `processing`.

`Timely` says that no row a worker holds comes up for lease. Two things in the
code make it so: the settings refuse a lease shorter than a batch of deliveries
that all run into their timeouts, and a row put back early goes with a backoff
of seconds. `LeaseClock` takes up the first: it holds when the lease has room
for `CLAIM_GRACE_SECONDS` per delivery, and not under the inequality the
validator asks for. Without `Timely` exclusion fails of necessity; what still
holds then is checked by `sending`, where leases lapse at any time. Left out: that `SKIP LOCKED` may
skip a row somebody is merely updating (it is taken on the next pass), and the
worker's wait for the gateway (a worker need not lease).

### ItemSync

Versions 1, 2, ... of an issue stand for all a payload says. `Stamp[v]` is its
`updated_at`: equal stamps are the interesting case, and the tie is broken by
`last_delivery_id`. The row is `stored`, `last`, `pointer`, `note`; Discord is
the threads that are `live`, the version each `block` shows, and which are
`shut` (locked and archived). A sync goes `Deliver` or `SyncByHand`,
`TakeLock`, `Record` (the transaction: applied, turned away as stale, or a
thread rebuilt from the row because there is none), `Insert` (the row did not
exist when looked for, and is asked again after `get_or_create`), `Unlock` and
`NoteOpen` (an open issue gets its thread back first), `Update` or `Open`, and
after an opening the claim: `Claim`, `Reclaim`, `Discard`, `TakeBack` are the
compare-and-swap of `_claim` and what follows from each way it can go.
`Closing`, `Settle`, `Shut`, `NoteShut`, `Finish` are the lock, last of all.
Trouble is `Busy` (the lock was not to be had in time), `Abort` at any place (an
exception, the delivery timeout, a death), `LoseLock` (the connection under the
advisory lock died and the sync goes on), `ClaimFails` (before the commit or
after), refusals of locking and unlocking, and people deleting threads
(`Delete`) which Discord reports some time later (`Forget`).

The queue is taken from `DeliveryQueue` as what was proved of it: an owed
delivery is handed to one sync at a time, in any order, again after a failure.
That it gives up after sixteen failures is left out, the faults being bounded
below that. The policy is the one of issues. Labels, names, people, archiving
without a lock, pings and the lines posted into the thread do not move the state
modelled. A delivery whose timeout falls inside the shielded claim of a thread
may leave that claim running after the lock is let go; that is covered by
`LoseLock`, which lets another sync in at any place.

Some troubles have effects the code accepts, and the properties of the quiet
state name them in `excuses`: a lock Discord refused (said in a log), a lock
lost on the way, a command's sync nobody retries, a rebuilt thread left empty
(section 6). A command that syncs a version with the same stamp as a newer one
may put the older back, which `staleness.py` accepts; so `NeverRollsBack` is
claimed where no command runs or no two versions share a second, and the runs
have one of each.

### Transcripts

One conversation: `claim`, `through`, `stale`, `failed` are its row's
`flush_id`, `flush_through_id`, the age of `flush_started_at`, and
`failed_flushes`; `waiting` are its rows in `logged_messages`. A message is
said (`Say` draws the id) and committed later (`Commit`). A flusher's pass is
`Sweep`, `Look`, `Take` or `Seize`, `Locate`, `Read`, `Publish` or
`PublishFails`, `Count`, `Settle`, each a transaction or a call; it may `Die`
anywhere. `release` names the conversation and not the claim, so `Settle`
clears whatever claim there is. `Prompt` says that a publish ends before its
claim is old enough to be seized (one comment against five minutes). The code
promises neither that rows become visible in the order of their ids, nor that
what a pass read of a claim is acted on before another flusher drops a batch,
so the model assumes neither: two histories remember when it happened, `missed`
the rows that committed into a batch that was already read, `hollow` that a
claim was taken on rows another flusher had dropped.

### Reminders

`Waiting` are the rows of one person in one server. `CountThem` and `Add` are
the two statements of `ReminderBook.add`, between which other commands run: at
most `AtOnce` of them. A sender `ClaimNext`s the earliest due, and then `Post`,
`PostDenied` (a permanent error), or `PostRefused` (any other, the post having
gone out or not), `Count`, `Finish`. A refused reminder keeps its claim, and
`Ages` makes that claim one that may be taken over. `Prompt` says that a post
ends within `RETRY_AFTER`, which the code states as the reason for its length.

### Notes

A delivery is a key and a version: a comment or review with its edits, or the
n-th closing or reopening of the issue with the line that announces it. The row
is `stored`, `pointer`, `note` (`discord_thread_locked`) and `speaks` (the
thread's switches for comments and state, taken as one); `claimed` and
`message` are `mirrored_notes`; `posted` are the messages in Discord, `heard`
when the post returned. A line goes through the issue's sync first (`Record` to
`NoteLock`, the outline of what `ItemSync` has step by step: the lock of the
item, the judgement of a late payload, the write that wakes the thread, the
lock of the thread), then `Look`; a note starts at `Locate`. Both then `Claim`,
`Post`, and put the lock back (`Again`, `ShutAgain`); a note also
`Remember`s its message, and an edit of a note already there goes
`ReadMessage`, `Revise`. `PostLost`, `PostRefused` and `PostGone` are the three
ways `_post` tells a failure apart, each followed by `HandBack` or
`HandBackFails`; the last has the thread forgotten and rebuilt by a sync of the
issue as GitHub has it. Besides: `ClaimLost` (the claim was committed and
nobody told), `Abort` anywhere (a death, or an exception no handler undoes),
`DeliverAgain` (a lease lapsed under a worker that goes on), people deleting
messages and threads and turning the thread's switches. A failed Discord call
in `revise` may have woken the thread or not.

What the code accepts is recorded per key in `excuses` and named where a
property allows it: a claim left behind (`stuck`, which `_hand_back` logs and
leaves to a person), an issue that moved on before its line (`moved`), a thread
told to keep quiet (`quiet`), a permanent refusal (`refused`), two workers on
one delivery (`overlap`), a message posted and not remembered (`forgot`), an
edit handled while the comment's own post is still in flight or before its id
is known (`early`), a lock that could not be put back (`unshut`), a thread
woken for nothing (`woken`, `half`), and the lock moved by a sync between
reading the row and shutting the thread (`raced`).

### ReviewRequests

GitHub's list of who is asked (`asked`), its clock of whole seconds, and the
deliveries it sent, handled in any order and again. A party's row is whether
the ping is spent, when GitHub asked, and when the review came. A sync holds
the item's advisory lock from the judgement of its payload (`replace`,
`reopen`, the claim of the ping) to the post and, if that fails, the hand-back;
a review closes the row (`Fulfil`) without that lock. A party is a person or a
team, since only a person's review is delivered as an answer. Parties meet in a
post and nowhere else, so one is followed. `excused` names what is accepted:
two things about the party that carry one second, a hand-back that was lost,
the lock of the item lost under a sync, and an answer that came through after
the next asking.

### Installations

The App on one account is installed, paused, resumed and removed on GitHub,
and each change sends a delivery that may be late, overtaken or lost. The row
is `entry`, the cache `minted`. A caller's `token_for` is one action per wait:
`Ask`, `Decide` (from the row), `Discover` and `List` behind the discovery
lock, `Note`, `Queue` and `Mint` behind the lock of an installation, and
`Forget` when GitHub answers that it is gone. `/register` writes what covers
the repository down as not suspended. The run `installations_stale` drops the
allowance for late deliveries.

### Conversations

A command's checks, notice, row and arming are four steps, a stop's three, the
handling of a deleted thread three (`LetsGo`, `Ends`, `DisarmsGone`), and a
message is caught by the set before it is written (`Captures`, `Drops`).
`Restart` loses the set and reads it back from the rows. A stop's notice lands
or is refused whatever has been started since (`SignsOff`); `crossed` has the
threads told last, by such a stop, that logging is off.

### Placement

One item of a kind the run chooses: pull requests have a channel from
`/register` on, issues borrow it until one is mapped, a ticket has one when it
is given it and cannot be read back from GitHub. A `/set_channel` maps, lists
what is in the wrong place, and moves it by a sync that claims a new thread,
signposts the old one and shuts it; ordinary syncs write wherever the thread is
and open one where it is gone. What a sync read of the mapping is used after
waits, and `late` records a thread attached for a mapping changed meanwhile.

### Verdicts

A suite's delivery has the check runs of its commit listed, a review's the pull
request read and then its reviews, in two requests between which GitHub may
change; what is found is claimed under a key made of it (commit, runs and
outcome, or commit) and posted. `torn` marks what was read over a change.

### Process and Health

`Process` has the five tasks of `lifespan.py`, each waiting, idle, busy or
ended in one of three ways, what each needs open, the reporting of a vital
one's end, and the eight steps of the stop in order, with the grace after which
a task is cancelled, a task that takes its time to unwind, and a closer that
raises. `Health` has time: a probe with its deadline, the lock around it, an
answer kept for a while, callers that hang up, and a database that answers,
refuses or is quiet.

### CardMoves

`/status` from `Ask` (locate, the refusal by the board's order) over `Fetch`,
`Apply` (labels, removals first), the hold of the item, `Store`, `Render` and
`SetLock` to `MoveCard` and `Note`, with the repeat branch that has nothing to
write; the poller's pass as `ListBoard`, `ReadRows`, the judgement of the card
(`PassOver`, `WriteDown`, `Carry`) and `Remember`, where `Carry` runs the same
`set_status`. People drag the card, close and reopen. Any call may fail for now
or for good, and the process may die. What the code says it accepts is in
`apart` (row and column differ) and `owed` (a refused lock); where the board
may not set a status, a column noted over a row that has moved is of the former
kind (`LeftApart`).

### DraftCards

The poller's pass over one draft: list, compare, sync, ask about a card that is
missing, shut what was archived or deleted; and a `/refresh` that mirrors what
it lists without a thread. Their syncs share the item's lock, the decision to
sync does not. `unshown` and `astray` are the reasons a thread is accepted to
be behind, `blinks` the times GitHub denied a card that existed.

### BoardLink

A board is a number under an account; a server's row has the login and id of
its repository's owner, the board's owner if one was named, and the linker.
`/board link` is invited, opened under the member's authorisation, checked
against other servers and committed, four steps with waits between; `/board
unlink` and `withdraw` forget; the poller lists rows, reads each under its
linker and pairs. GitHub transfers the repository and renames an account,
and a delivery carries the new owner.

### BoardReading

A listing by cursor over places in the board's order, while cards are dragged,
deleted and rewritten; a page is a set of rows, each with its rank among the
cards after the cursor, and a listing a sequence of pages; the first page under a validator, a 304 standing for the
kept listing; the slow interval of a board no validator can be trusted for; and
a second small board in the same pass, before or after, since one that fails
ends or spoils the pass for the other.

### SignIns

A one-time link is issued to a member for a purpose, proved on Discord in a
browser, redeemed at GitHub with any account of whoever is at that browser, and
ends as a proof, a claim (`user_links`) or an authorisation. A command on
people reads a claim, asks GitHub what the account is called now, follows a
rename and writes. Names are freed by a rename and may be taken by another
account.

### Redraws

A run lists the open issues, takes those first whose rows were written longest
ago, and for each asks whether its thread is archived, unlocks, says, writes and
archives it again, while deliveries of the same issues and people in the
threads come in between. Which row has the smaller `updated_at` is a relation,
`older`, and a run takes what it found in any order that agrees with it. `PerRun`
is what its time allows.

### Lines

One kind at a time: a label's moves, the draft switch, or pushes. A delivery
syncs (the judgement by `updated_at`, the block, the labels the block showed),
then what it has to say is judged from the row, compared with GitHub where it
is a push, claimed by its key, posted, and handed back if the post fails. The
thread may ask for the lines or not (`/track`), and may be deleted. Between what
is read of the row and what is posted anything may happen: `backward` is noted
when a half of the draft switch lands behind the other that came later, and
`overtaken` has the halves the row was read for before that later one was synced.

### Replies

One reply's delivery over its attempts. The comments of the pull request are
read when it is handled, so later ones are among them and deleted ones are not;
GitHub may be down or refuse; `WorthWaitingFor` decides whether the attempt
fails or the reply goes out without ringing anybody. The clock is the age of
the reply against the backoff of its delivery.

## 3. Runs and bounds

| Run | Instance | What it shows |
|---|---|---|
| `deliveries` | queue: 2 replicas, 2 rows, batches of 2, 2 attempts, 2 faults, `Timely`; requests: 2 syncs, 3 calls, 1 trouble; tokens: 2 callers, 2 changes, 3 calls, 1 break; logs: 2 commands, 4 orders, 1 message, 1 restart | exclusion, no charge for anything but failures, the promise kept; pinged as asked; tokens serve; heard as told |
| `threads` | sync: 3 versions, two in one second, 2 syncs, 4 threads, 1 deletion, 2 faults; placement: 2 channels, 2 commands, 1 visit, 2 mappings, 1 edit, 1 break; verdicts: 2 apps or reviewers, 2 handlers, 1 push, 2 runs, 2 moves, 2 turns, 1 trouble; process: 1 death, 1 drop; health: 2 callers, 6 units of time | quiet state, ownership, no rollback; placed when quiet; verdicts said; ends and answers well; and nobody waits for ever |
| `itemsync_liveness` | 2 versions (closed, reopened), 2 syncs, 1 command, 1 deletion, 1 fault, fair | quiet state with a command, every delivery handled |
| `sending` | transcripts: 2 flushers, 2 messages, 2 faults or deletions, 3 claims; reminders: 2, 2 senders, cap 1; queue: 2 replicas, 1 row, leases lapsing at any time; fair | nothing lost, nothing twice, give-up for own failures, out, gone and settled in the end, outcomes final |
| `parts` | reminders: 3, 2 senders, cap 1, 2 commands at once, 2 faults; cards: 3 columns, 1 command and the poller, 2 events; drafts: 2 versions, 4 mishaps; boards: 2 servers, 2 members, 1 move, 2 orders; sign-ins: 2 people, 3 accounts, 2 links, 1 rename, 1 command; reading: 3 cards by 2, 2 edits, 1 miss; redraws: 2 issues, 1 a run, 2 runs, 2 changes, 1 act, 1 upset | one property for each part, and three of reminders |
| `notes_said` | notes: 1 comment with 1 edit, 1 closing and 1 reopening, 2 workers, 2 threads, 2 faults, 1 act of a person; lines: 3 commits, 1 said a push, 2 events, 2 upsets, 1 slip; replies: 3 logins of 2 members, 3 comments, 3 attempts; `Small` | said once, said in the end, shown at its newest and the rest heard, a live thread kept |
| `lease_overrun` | batch 3, timeout 4, grace 2, lease 12 | a batch outlives its lease (violation) |
| `itemsync_empty` | 1 sync, 1 deletion, 1 fault | a rebuilt thread stays empty (violation) |
| `transcripts_giveup` | 1 flusher | failures carried to the next batch (violation) |
| `transcripts_twice` | 2 flushers, no faults | a batch published twice (violation) |
| `notes_edits` | 1 comment with 2 edits, 1 worker, no trouble | an older edit is left showing (violation) |
| `installations_stale` | 1 account, deliveries out of order | an account refused for good (violation) |

Why these bounds do. Two of each actor is where the races are: every hazard
listed is between a holder and one other, and a third adds only another
"other". Two rows in a batch of two give a batch whose head fails while its tail
is handed back; two attempts are the least at which a first failure and the last
differ. Three versions of which two tie give an older, an equal and a newer
payload at once. Four thread ids are one more than a deletion and two racing
openings can use before a fault. Two faults allow a failure and a failure of
what handles it. Three claim ids suffice because a claim is only ever compared
with one another flusher remembers. Three columns are the least a move can
skip one of; three cards by two to a page the least whose second page can
change unseen from the first; two issues, one a run, the least that has an
order; two channels and two commands a mapping changed while another moves by
it; three logins of two members a member with two accounts. One trouble beside
two actors is enough where a trouble's effect is a state the others then meet,
and the properties that excuse a trouble name it, so a second one could only
excuse more. Counters are bounded by the constants named `Max...`, `Most...`,
`AtOnce`, `Last...` and `Visits`, each marked "bound" in its module's CONSTANTS.
`notes_said` alone has a state constraint, `Small`: two troubles while the issue
closes once, and one beside its reopening, since a reopening matters through
what it finds left over and not through how much went wrong before; and in the
part about commits one change of the thread's wishes or its deletion, not both.
`sending` has the action constraint `FirstUnused`, by which a flusher draws
one given id of those not in use: which it draws makes no difference, and symmetry may not be used with liveness. The safety theorems of
section 5 do not depend on any bound.

`threads` checks deadlock: a rest (`Rested`) is possible only in the quiet state of its part, so that two that
wait for each other are found. Elsewhere the system may stop: every row pruned,
every message said, every bound reached. Symmetry (replicas; syncs; channels;
workers) is used in runs without liveness properties only.

## 4. Fairness

* `DeliveryQueue`: weak fairness of each worker's step (the loop of
  `run_forever` goes round after every exception, and a process that ends is
  started again by its supervisor), and of the clock's steps. Every dispatch
  ends, because `_handle` runs it under `wait_for`. Nothing is asked of
  arrivals, faults or redeliveries. Redeliveries are bounded with the faults:
  rows are leased by id, so redelivering a small id for ever could keep a large
  one waiting.
* `ItemSync`: weak fairness of a sync's own steps; strong fairness of handing
  out an owed delivery, since a delivery that keeps being busy or failing is
  handed out again and again by the queue (`EventuallySettled`). Discord need
  not report a deleted thread: `EventuallyHandled` excepts an item whose row
  names a thread that is gone, on which every sync keeps failing at the lock
  until someone reports it.
* `Transcripts`: each flusher ticks on (`run_forever` swallows exceptions), the
  gap passes, claims age, transactions commit.
* `Reminders`: the clock runs, claims age, each sender ticks on.

In `sending` the three are checked together, each action's fairness
conditioned on its part being the one that moves. The other modules state
safety only: what is to happen in the end is stated of the state in which
nothing is under way and nothing is left to be delivered or polled, and that
state is reached if each loop goes on, which the fairness above is for.

## 5. Proofs

All theorems hold for any values of the constants that satisfy the module's
named ASSUME, which is as weak as the code gives; further assumptions are in
the theorem's statement. tlapm checks every leaf.

| Theorem | States | Assumes |
|---|---|---|
| *DeliveryQueueProofs* | | |
| `TypeCorrect` | `Spec => []TypeOK` | - |
| `ExclusiveHolds`, `AttemptsHold` | `[]Exclusive`, `[]AttemptsAreFailures` | `Timely` |
| `PromiseKept` | `Spec => KeepsThePromise`: the refinement | `Timely` |
| `OutcomesStand` | `SettledStaysSettled` of the queue, leases overrun or not | - |
| *DeliveriesProofs* | | |
| `OthersKeepTheirTypes` | `[]OthersTypeOK` | - |
| `TokensAlwaysServe` | `[]TokensServe` | - |
| `AlwaysHeardAsTold` | `[]HeardAsTold` | - |
| `AlwaysPingedAsAsked` | `[]PingedAsAsked` | finitely many syncs |
| `GraceCovered` | `[]BatchWithinLease` of LeaseClock: a batch ends within its lease | the lease has room for the grace of each |
| *ThreadsProofs* | | |
| `SyncTypeCorrect` | `Spec => []TypeOK` of ItemSync | - |
| `ThreadsOwned` | `[]EveryThreadIsOwned` | - |
| `RowNeverRollsBack` | `NeverRollsBack` | no commands, or no ties |
| `MirroredAtRest` | `[]MirroredWhenQuiet` | no commands, or no ties |
| `ThreadsTypeCorrect` | `[]ThreadsTypeOK` | - |
| `AlwaysPlaced` | `[]PlacedWhenQuiet` | - |
| `VerdictsAlwaysSaid` | `[]VerdictsAreSaid` | - |
| `AlwaysEndsAndAnswersWell` | `[]EndsAndAnswersWell` | - |
| *SendingProofs* | | |
| `TypeCorrect` | `Spec => []TypeOK` of Transcripts | - |
| `NothingIsLost` | `[]NothingLost` | - |
| `GivesUpRightly` | `[]GivesUpOnItsOwnFailures` | `Prompt`, finitely many flushers |
| `SentOnceEach` | `[]NothingTwice`, of transcripts and reminders | the same |
| `OutcomesStand` | `SettledStaysSettled` of MCSending | - |
| *RemindersProofs* | | |
| `OneSenderEach`, `RungOnceEach` | `[]NeverTakenOver`, `[]RungOnce` | `Prompt` |
| `ForgottenForAReason` | `[]GoneForAReason` | `Prompt` |
| `SoftCeiling` | `[]CapIsNearlyKept` | finitely many reminders |
| *PartsProofs* | | |
| `BoardsAlwaysAsChosen` | `[]BoardsAreAsChosen` | - |
| `AlwaysThemselves` | `[]EveryoneIsThemselves` | links must be proved, or there are no claims from before ids |
| `AlwaysMoved` | `[]MovedWhenQuiet` | - |
| `DraftsAlwaysAsTheirCards` | `[]DraftsAreAsTheirCards` | - |
| `AlwaysReadAndShownWhole` | `[]ReadAndShownWhole` | - |
| `PartsTypeCorrect` | `[]PartsTypeOK` | - |
| *NotesProofs* | | |
| `OneHolderEach`, `SaidOnceEach` | `[]OneHolder`, `SaidOnce` | - |
| `NothingOwedIsLost` | `[]SaidWhenQuiet` | - |
| `ThreadKept` | `LiveThreadKept` | - |
| `AlwaysMirrored` | `[]MirroredWhenQuiet` of Notes | - |
| `NotesTypeCorrect` | `Spec => []TypeOK` of Notes | - |
| *SaidProofs* | | |
| `SaidTypeCorrect` | `[]ToldTypeOK` | - |
| `AlwaysShownAndHeard` | `[]ShownAndHeard` | - |

*Compositions.* The invariant of a composition is the conjunction of one per
part, each over that part's variables alone. A step is a step of one part that
leaves the others' variables as they were (`StepIsAPartsStep`, `EachAlone`), so
every part has its own proof, and a part's lemmas are about its own actions.
`SendingProofs` repeats nothing of the reminders and the queue: it instantiates
their proof modules as the composition instantiates the parts, and cites their
lemmas.

The arguments.

*Queue.* Exclusion alone is not inductive: a worker that has a row must be
known to hold it. `IInv` adds `BatchIsHeld` (what is in a batch is processing
under a lease not lapsed, with the count the worker read, except the one whose
write just failed) and `Earned` (a worker about to settle has the result in the
history, and a transient one is not counted yet). From these a lease takes rows
of no batch, a write finds its row `processing`, and the count compared with
the limit is the table's. The refinement follows: each write is a `Settle`, a
`GiveUp` or a stutter of `DeliveryPromise`, and everything done with leases is a
stutter. That a recorded outcome stands needs none of it: each write asks for
a row still `processing`, whoever makes it.

*Tokens.* Between asking and minting a caller is alone with its installation
(`MintsAlone`), which is what the lock and the second look behind it are for.
That the row is GitHub's at rest has three parts: an installation found to be
gone is being forgotten by whoever found out (`GoneIsForgotten`), the mail on its
way ends with the last change unless some was lost or overtaken (`MailInOrder`),
and a row that is not GitHub's will be put right by that mail (`RowCatchesUp`).

*Conversations.* Four statements: a conversation open was announced, and its
thread told nothing else since but by a stop that crossed it (`RowsAreTold`), the thread of an open row is in the set or about to be put
there (`ArmedSoon`), a deleted thread's conversation is about to be ended
(`EndedSoon`), and who was caught was told (`CaughtAreTold`).

*Asking and ringing.* Two statements, and each holds only while nothing was
`excused`, under what always does: the deliveries are in GitHub's order
(`LettersInOrder`), a sync has in hand an unread delivery of its own or a
reading no newer than the clock (`LoadsAre`), and the row's `since` is a second
in which GitHub listed the party (`RowIs`). No ping too many
is a count (`RowOfAnAsk`, `AskToCome`): the pings posted, in hand and still to be
claimed are at most the asks up to the row's `since`; and when there is no row,
fewer than the asks up to anything that may yet make one. The step that has to
be paid for is the row being made or opened again. GitHub lists nobody again
without a word, so of two readings of which the older lacks the party and the
newer has it, an ask came between; and `NoTies` says that an ask carries a
second of its own, so that order by stamps is order in time. No ping too few is
a promise: of the ask that stands (`LastAsk`), either its delivery is not applied
yet and nothing in hand or in the row can stand in its way, or the row is open
and unspent, or being rung, or will be opened again by that delivery
(`WillBeHeard`). At rest the delivery is applied and nobody is ringing, so the
row is open and unspent, which is `OwedAPing`. The proof found that a model
value taken for "no row" must be no row (`RequestsAssumption`).

*Threads.* `EveryThreadIsOwned` needs that two syncs never claim one thread,
that a thread being claimed is one no row and no other sync has, and that the
pointer moves only by `Swap` from the value replaced, or by `Forget` from a
thread that is gone. Nothing in it mentions the advisory lock: the lock saves
work, and the swap keeps the channel clean.

*Row.* `stored` is written only by `Apply`, behind `Superseded`; what has to be
known is that a payload not superseded has a version at least the row's, which
ids give when stamps tie (deliveries are numbered as their versions are) and
stamps give when they do not.

*Row, block and lock at rest.* `MirrorInv` has three layers. `OwedInv`: the
version GitHub has is the row's or still owed by the queue, what a sync has in
hand is owed and in no other's hands, and while the lock is not lost one sync at
a time is at work. `ShownInv`: if the row's version is
not in the block it is coming again (`BroughtAgain`: its delivery is owed, or a
sync is at work that will write it). `LockInv`: if the thread is not locked as
the row says, then again something is owed, or a sync stands before the step
that settles it, with the note of the lock agreeing or about to. At rest nobody
is at work and nothing owed, and only the properties remain. Each layer stops
where an excuse begins, so the three have to be kept apart.

*Placement.* Every live thread is seen to (`NoneForgotten`): the item's own, in
the hands of a sync that has yet to claim it or of a command that has yet to
signpost it, told of and shut, or excused.
The item's own is in the channel of its kind, or someone pursues it (`Placed`,
`Pursues`): a command that mapped the channel in force and has yet to list, or
has listed the item and has yet to move it there. `LocksHold` ties the locks to the places of their
holders.

*Verdicts.* A claim's key names the commit it is about (`KeysAreOfTheirCommits`),
a claim stands for a line said or being said (`ClaimsHold`, `LinesHold`),
what is to be said of the head commit is said, excused or on its way
(`SuitesAreSaid`, `AgreementIsSaid`), and what was read was so, or the read was
torn (`ReadWhole`).

*The process and the probe.* The stop is a sequence, so the invariant has one
part for each stretch of it (`BeforeTheStop`, `DuringTheStop`, `AfterTheStop`):
which tasks may run and which resources are open yet. The probe's is `FoundSo`:
what is kept was so at the probe or later, by the last moments at which the
database answered and did not.

*Transcripts.* Nothing is lost (`LossInv`): a flusher that settles has in `lines`
all rows of its batch that still wait, but for those that came to be seen since
it read (`missed`), and those were published. Nothing goes out twice: while no
claim was left without rows, by a deletion or a stale pass (`hollow`), a claim
has a row of its batch, so no sweep lets go of it, and whoever has it is alone
with it, from `Prompt` (`SoleInv`); each copy more has its own fault. A flusher
about to seize may be as stale as it likes, for flush ids are never used again.
Once a claim was left without rows that is not so, and one counts instead
(`SpentInv`): the copies of a message, and the flushers that have read it and
not published yet, are at most the faults and one for each flusher, because a
flusher drops the batch it has published before it reads again.

*Reminders.* A reminder in hand is claimed and not stale while `Prompt`, hence
not eligible. The count of `failed_attempts` is at most the refusals. For the
cap, the waiting and the counted together never exceed `MostWaiting + AtOnce - 1`
after a count that found room. That one rings once but for faults is a count
again (`OnceInv`): one that still waits has rung no oftener than it was faulted.

*Boards.* A login is one account's for good in this model: an account may take a
second name, and nobody takes its first. So `NamesOf` tells accounts apart, and
`LinkedAsMeant` can say that what a row reads under names the account whose
board was linked, which a rename keeps by writing the old name into the board
(`_leave_behind`) or by the id that proves the account is the same. A link and a
pass under way carry the board they opened (`LinksAreOpened`,
`PassesAreListed`), or have been crossed by a write of the row; so what is kept
is of the board that is meant (`PairedAsMeant`). That two servers never keep
cards of one board needs no lock: a board is read only for the one server that
mirrors it (`OnlyOneMirrors`).

*Signing in.* A link is bound to its member's browser, and its callback brings
an account of that member's (`TripsAreTheMembers`), so proofs, keys and claims
are. A claim with an id is checked against what GitHub calls that account; one
without is only a name, whose account may have changed, and so the theorem
asks for `RequireProved` wherever such claims are still on file.

*Moved cards.* A status is written to the row first, then shown, and the card's
column noted last of all. So while the column noted is the card's and says
another status than the row, some worker stands between the row and the note
(`Half`), and likewise if the status being drawn had to be given back
(`AgreeInv`). The poller notes a column without a move on two grounds, and each
has to stay good until the note: its verdict on the card (`JudgedSo`), and, at a
first look, that the row it compared has not moved since or is being moved
(`FirstLookHolds`). `LockInv`: with nobody between the row and the thread's
lock, the thread is locked as the row says, and, while a status is being drawn,
as the one it may be given back to says; a lock that is owed is at a card whose
column is not noted, which brings the poll round again.

*Drafts.* Nothing about a draft is an event, so all that counts is the row. No
row, thread or card in hand is newer than the card (`NothingNewer`), which only
grows newer. Hence a row as new as its card was written by a sync that had the
card as it is, and that sync has shown it, is about to, was refused and will
take the row back, or died (`ShowsOrWill`). The lock is as the row says, or a
pass stands between the two at the thread the row has, or there is a reason for
it (`LockIsTheRows`).

*Reading a board.* A page is the first few, by rank, of the cards after a place:
it is full or holds all of them (`FullPage`), and one that is full has a last
card, up to which every card is on it. So while nothing changes every card up to the
cursor has been listed, and there are at least `PageSize` of them to a page
(`ListedSo`): `MaxPages` pages reach a board of no more than those (`Reached`), and
a pass that then ends has shown it (`ShownSo`). A validator is kept only of a page that is
not full, so a 304, which says that the first page is still that one, speaks for
the whole board. Between a reading of which nothing could be kept and the next
one the poller waits (`Waits`).

*Redraws.* While a thread is at hand its item's lock is held and no delivery sees
to it, so what the run found it like is enough to put it back as it was, unless
somebody talks in it, which is the excuse (`WokenSo`, `FoundSo`). What was redrawn
while an issue waited is behind that issue in `older` (`BehindIt`), so no later
order can put it first; and nothing that is ahead in a run has been redrawn
while what comes after it waited (`TurnsKept`). The block is as new as the row, or the
newer delivery is owed, or a redraw wrote the row and not the block (`ShowsIt`).

*Notes.* `SaidOnce` is about a step, and needs of the state before it that
whoever posts is alone with its key (`OneHolder`), that nobody has been heard
to say what is still in hand, and that what has been heard stays claimed; the
three are inductive together (`HolderInv`), because a claim is won only where
there is none and given back only by the one that holds it. `SaidWhenQuiet`
follows from `OwedInv`: what was sent is said, excused, or promised, that is, a
delivery of it is owed that will not end as an edit come too early; a claimed
key is said, excused, or in the hands of one who is saying it, whose delivery is
then the promise of everybody who finds the claim taken. `LiveThreadKept`
needs that threads gone do not come back, that a sync writes the pointer it
read under the item's lock, and that a note forgets only what it found gone.

*The note's text and the thread's lock.* `Told` gathers what `MirroredWhenQuiet`
needs, and all of it holds only of what nothing excuses. `SaidInv`: what was
said is remembered, or about to be by the one worker that said it. `NewestInv`:
the newest version is shown, or its delivery is owed and nobody who has it is
past the step that writes it (`Written`). `SyncInv`: what was sent of the issue
is in the row, or its sync is to come; and since a sync keeps the item's lock
from what it reads to what it writes, what it read is still so when it acts on
it. `LockInv` is the center: while the thread is not shut as the row says, the
sync of the row's version is to come, or a sync stands before the step that
settles it, or (`Mending`) someone who woke the thread has yet to look
(`Seeing`) or has a delivery to be tried again (`Retry`). Every step that
unsettles the thread, a message that wakes it or a sync cut short, leaves one of
these behind, and only a step that settles it ends one.

*Lines.* Whoever posts or hands back is alone with its key, which is claimed, and
a key claimed is told, dropped or in such hands (`Claims`); so nothing is told
twice but where the answer to its post was lost. `Room` bounds what a
push may say by what it has said and has left to say. While no two moves of a
label overlap, the delivery at work is alone and older than the moves that wait
(`InTurn`), and if the row says the label is shown though the last that was done
to it is its removal, the delivery of that has yet to note it (`AboutToBeNoted`, `LabelInv`). The
draft switch is a promise (`SwitchInv`): the half due of the latest event is in
the thread or dropped, or its delivery is queued or at work and nothing passes
it over. That it is not announced behind a later half is `TurnInv`: while a
half that was not overtaken is in somebody's hands, no later one is told or at
work. Commits are a count (`CommitsInv`): what a push was due and nobody has
heard is no more than its footnote counted, or the footnote was dropped
(`Accounted`), or a delivery of the push is queued or at work (`Underway`), which
has read what is due and how much of it is said (`ReadWell`).

*Replies.* That an outage costs the ping and not the reply is arithmetic over the
attempts (`Waited`): a delivery tried so often is not due before all the waits up
to there have passed, so at the last attempt the reply is as old as
`TotalBackoff`, is not worth waiting for, and fails only if Discord refuses it.
Whom it rings is a fact about the comments read (`ReadRight`), for which
those to ring are a set by rank: the members whose first word in the thread has
fewer than `MENTION_LIMIT` first words before it. The opener has rank nought, and
below the limit nobody is left out. What so many waits come to is a constant of
the model with its recurrence assumed (`HeldForIsTheSum`), which is the sum the
code takes.

Every invariant that a passing run checks is a theorem, under the assumption its
row names. Model-checked only: liveness and everything that depends on fairness
(the properties `Eventually...`), which is out of the prover's reach.

## 6. What the work found

* The comment that a batch cannot outlive its lease does not follow from the
  validator, which leaves out the ten seconds a cancelled handler may still
  take to attach a thread it opened (`lease_overrun`).
* A thread rebuilt from the row by a superseded delivery and left without its
  first message stays empty: the retry is turned away (`itemsync_empty`).
* `release_empty_claims` clears a claim and not its failures, so the next batch
  is given up on early (`transcripts_giveup`).
* A pass that acts late on what it read can claim a batch that is gone; the
  sweep and the unguarded `release` then let a batch be published twice with no
  fault at all (`transcripts_twice`).
* A row whose transaction commits after one with a greater id, between the read
  of a batch and its delete, is deleted unpublished: `delete_through` takes
  `id <= through_id`, though it is to drop "nothing that arrived after it". No
  run is kept for it: it is the excuse `missed` of `NothingLost`, which TLC
  finds violated without it.
* An edit needs a guard after all: two edits handled in the other order leave
  the older text in the thread, since nothing compares the two
  (`notes_edits`). With one edit the newest is always shown, which
  `NewestWhenQuiet` states.
* `ThreadGateway.revise` wakes the thread before it looks for the message, and
  `_revise` returns without shutting it again when the message has been
  deleted: a closed issue's thread is left open until something else posts in
  it. No run is kept for it: it is the excuse `woken` of `ShutWhenQuiet` in Notes.
* `KeepsThreadsShut.again` reads the row and then shuts; a sync that reopens the
  thread in between is undone, and one that shuts it between its call and its
  note of it is missed. Both are the excuse `raced`.

Six properties that the runs passed were false beyond the runs' bounds. The
attempt to prove them found it, TLC then confirmed it on the larger instance,
and each property now names the case:

* `HeardAsTold`, with one more order: a thread that the set captures before or
  after the row says so lets a message through under another conversation's
  notice (`Ahead` in Conversations). The bound of the run went from 3 to 4.
* `PingedAsAsked`, with one more call: a command that fetches a pull request
  in the second of a change, and is handled after it, is one more pair of
  things that carry one second (`TiedRead` in ReviewRequests).
* `DuplicateNeedsAFault`, with three flushers: one deleted message is enough for
  as many copies of another as there are flushers, each having read it before
  one of them drops it. The bound was 2, which is right for two flushers.
* `MovedWhenQuiet`, where the board may not set a status, and with three
  commands: a row that is moved away and back to the status it was read with,
  while a poll judges an older listing, is written down as seen although a
  command has yet to move the card (`LeftApart` in CardMoves).
* `EachInItsTurn`, with one more change: a payload that is turned away and
  settles a lock still owed writes the row of an issue that waits for its
  redraw, which sends it to the back without having redrawn it. `passed` is
  now cleared there, as it is at every other delivery that writes the row.
* `ShownAsListed`, with one issue, three changes and two upsets: a delivery
  fails at its block and is to be retried; a redraw of a still newer version
  writes the row and fails before the block; the retry is then turned away as
  superseded, and the thread shows less than an earlier run counted as redrawn
  (`half` in Redraws).

The proofs also made assumptions explicit that the runs' values satisfied
unsaid (`InstallationsAssumption`, `PlacementAssumption`, `HealthAssumption`,
`SignInsAssumption`, `BoardLinkAssumption`, `CardMovesAssumption`,
`DraftCardsAssumption`, `LinesAssumption`, `RedrawsAssumption`,
`BoardReadingAssumption`): that the mark for nothing is not
also a caller, a row, a channel, a member, a card or a line's key, that the
time an answer of the probe is kept for is not nil, and that issues and cards are
finitely many. In `Lines` the type invariant
also bounded the threads made by the events and slips there are, when each
deletion may make one more: true of the run's values, false of more deletions.

What follows has no run of its own: it was met while a property was made to
hold, and is named in that property as an excuse, in the paragraph of section 2
or in the comment beside the definition.

*Threads.*

* `relocation.py` counts a sync that returns because it was stale, or its item
  not tracked, as a thread moved, so what `left` promises as "an upper bound"
  may be too small (`unmoved`). A relocating sync that fails after its claim
  forgets the thread it displaced, which stays open unsignposted (`alone`). A
  sync placed before a mapping changed may attach its thread after the command
  has listed: the thread stays in the old channel until the next `/set_channel`
  (`late`).
* A reply written between a refresh's question whether a thread is archived and
  its archiving it again is archived over. A row that is written without a
  redraw (`/track`, a pairing, a note of the lock) goes to the back of the order
  of refresh though its block is stale, while `refresh.py` says of that order
  that a row written lately "is current already"; and a superseded snapshot is
  counted as redrawn though the newer delivery may have failed at its block and
  be owed a retry.
* Two reads of a pull request's reviewers and of its reviews may span a change:
  an agreement is announced that held at no instant, and the head's claim is
  spent on it. `reviews.py` speaks of "one of the two moments the condition can
  become true"; a comment that answers the last request, a pull request made
  ready or opened again, and a push bring it about too, and nothing announces
  those. Suites turned away while the pull request is closed are not announced
  when it is opened again.

*Pings and lines.*

* Two things about a reviewer that carry one second lose a ping or double it,
  until the next event (`excused` in ReviewRequests). A superseded delivery
  opens a request again, but its ping waits for the next event.
* A label put on again while two of its moves overlap is passed over as shown
  (`mixed`). The line that a pull request was made ready is lost if any newer
  event is applied before it, not only when it "has been thrown back since". A
  push takes a commit for said which another push is still saying (`leaned`).
  A comparison that GitHub no longer has drops the push.
* The guard against announcing a switch that was thrown back is a read of the
  row (`draft_lines.py:137-153`), and the line is claimed and posted after it,
  outside the item's lock: a later half that is synced and announced in between
  is followed by the older one. `SwitchesHeard` excuses it by name
  (`overtaken`), and TLC finds it when it does not.
* An edit of an old reply made while GitHub is down redraws its heading without
  whom it answers. That an outage costs the ping and not the reply needs
  deliveries kept longer than `REPLY_WAITS_FOR_GITHUB`: true of the defaults,
  and `worker_max_attempts` may be set below (`RepliesAssumption`).

*Boards.*

* `/status` out of Done unlocks the thread of a pull request that is merged, in
  the branch that writes, while the branch that repeats keeps it shut; the
  latter decides from what GitHub said before the item was held. A lock refused
  on a first look at a card, or before somebody else changes the status, is not
  tried again (`owed`). A command that lands between a poll's listing and its
  reading of the rows is read as a move back, and `_remember_column` writes over
  a column a command wrote meanwhile (`apart`).
* A process that stops between a draft's row and its thread leaves the thread
  behind until the card changes (`unshown`); a refresh that was slow writes
  "open" over "archived" (`astray`).
* A board linked again while a poll reads it, or another link is under way, has
  the ids of the other board's cards written back after they were forgotten
  (`crossed`). That no two servers mirror one board is checked and then written.
* A pass that fails after an expensive board was read whole goes on at the fast
  interval; an exception a board's reading is not expected to raise ends the
  pass for the boards after it.

*Accounts.*

* Two round trips of one member, interleaved, may leave the proof on one account
  and the claim on another, both the member's. GitHub unable to say what an
  account is called leaves the name claimed, which may be another's by then
  (`sure`).
* A late or lost suspension is not asked about again: the account is refused
  until the App is installed anew (`installations_stale`), and `/register`
  writes a suspended installation down as active (`muddled`).

*Conversations and the process.*

* `/stop_conversation` disarms the thread it was given in and not that of the
  row it closed. A stop or a deletion that read its rows before another start,
  and disarms after it, leaves a conversation open that nothing captures until
  a restart (`late`). A conversation opened after its thread's deletion was
  handled stays open (`astray`).
* A stop posts its notice last and unconditionally (`log.py:145-146`). Where
  another start has found its row closed, announced and opened meanwhile, the
  last a thread hears is that logging is off, and what is said there is kept.
  `HeardAsTold` excuses it by name (`crossed`), and TLC finds it at once when
  it does not.
* `projects.py` speaks of a guard by which the poller stops itself; there is
  none. Closing the bot has no deadline of its own. A closer of the container
  that raises keeps those after it from being closed (`balked`).

## 7. What is not modelled

*Text.* Signatures, parsing of payloads and settings, rendering, escaping and
limits of length (`formatting.py`, `line_starts.py`, `rich_text.py`,
`mapping.py`), the arguments and replies of slash commands and the pickers
beside them. None of it keeps state that another step reads, and its faults are
of characters, which a model of finite values would have to leave out.

*Outside.* The queries and request bodies of the GitHub client, of which only
what they return is modelled; migrations, containers and the deploy script. The
webhook endpoint but for the row it writes.

*Resources.* Pool sizes: syncs that wait for an item lock hold a connection
each, and the endpoint answers 503 when none is left, which GitHub makes good
only by a person's Redeliver. How long anything takes, but in `LeaseClock`,
`Health` and `Replies`.

*Within the modelled parts.* The other people of an item beside the one party of
ReviewRequests; teams, muting and the expiry of sign-in links; `access.py`'s
question about permissions; `/priority` and `/label`, which write to GitHub and
leave the rest to the delivery; moving a thread whose item is being moved by
two servers; putting a thread back after a reminder; a reply to a reply to a
reply, for which GitHub gives the opener; the 250 commits GitHub cuts a
comparison at. `PROJECT.json` lists every component with its status, and the
one hazard no property covers, the connection pool, with the reason.

## 8. Plan

1. Policies of pull requests in ItemSync itself, so that CardMoves may take the
   whole sync as proved and not as one step; likewise `/priority` and `/label`.
2. `after_posting_in` for reminders and notices, on the thread of Redraws.
