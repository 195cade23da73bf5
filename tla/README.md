# Verification of the Technocore agent scripts

TLA+ models of the programs under `scripts/` that keep private state on an
operator's machine and talk to the Technocore service, TLC runs that check them
on small instances, and TLAPS proofs for every value of the constants.

## The system

The repository is a set of command line programs, without a daemon: processes
meet through files in `$HOME/flop`, `flock`, exit statuses, and rooms of the
remote service. The service and `curl` are not part of the repository; they are
modelled from what the scripts ask of them and from what docs and tests say they
may answer.

| Component | State it keeps | Operations | Correct when |
|---|---|---|---|
| `poll-mailbox.sh` | reads `mailbox.cursor`, writes `mailbox.pending`, records a generation | poll once, print a batch | a batch is offered once, from the cursor, without an unreported gap; nothing is acknowledged |
| `ack-mailbox.sh` | `mailbox.cursor`, removes `mailbox.pending` | acknowledge a cursor | the cursor moves only to the end of the offered batch, never back, never into another generation |
| `poll-with-backoff.sh` | attempt and delay, in memory | retry transient polls | bounded, on schedule, one batch on stdout |
| `fetch-mailbox-once.py`, systemd units | `mailbox.fetch.halted`, `mailbox.fetch.lock`, `mailbox.batch.json` | fetch one batch and pause | a fetched batch is saved or the service stays paused |
| `review-mailbox.sh` | `mailbox.batch.json`, `mailbox.review.json` | poll if nothing is saved, review | interrupted reviews resume |
| `review-mailbox-batch.py` | writes `mailbox.review.json`, reads `reviewed-batches/` | judge a batch | only contiguous, signed, fresh batches get a receipt |
| `ack-reviewed-mailbox.sh` | all of the above, writes `reviewed-batches/` | re-review, acknowledge, archive, remove | what was reviewed is what is acknowledged, and its receipt survives |
| `send.sh` | `nonces/<room>`, `nonces/.lock`, `activity.jsonl` | reserve, sign, post, record | nonces increase and are never reused; the log is true |
| `record-contest-room.py` | a chain of snapshot directories | append a snapshot | the chain verifies after any crash; coverage and holes are exact |
| `validate-tclk-transcript.py` | contracts by offer and by id, in memory | read a transcript | a contract's status is the one its frames, senders and time stamps justify |
| `audit-tclk-cross-room.py` | the same and the target contract | read the board's export, then the deal room's | frames count in their room only, in the order of time |
| `verify-close-call.py`, `verify-close-call-archive.py` | none; saved exports, an index and records as input | verify package, rooms, archive | a report says what the referee signed; reports of different times agree |
| `model-close-call-position.py` | none | fee, cash and score of a position | no position gains by itself, a buyer stays solvent |
| `review-tclk-batch.sh`, `verify-technocore-export.py`, `verify-envelope.py` | none (a report) | check one file | not modelled, see below |
| `install-reviewed-signer.py`, `verify-installation.sh`, `prepare-locked-dependencies.sh`, `check-tclk-upstream-drift.sh`, `vendor/technocore/sign.py` | installed files | install, compare, sign | not modelled, see below |

Interactions. The poller and the acknowledger share the state directory and one
lock (`mailbox.poll.lock`). The fetch, the review wrapper and the retry loop run
the poller as a child; the reviewed acknowledgement runs the acknowledger as a
child; both wrappers run the reviewer. The operator removes `mailbox.pending`
or the pause by hand, without a lock. The sender shares nothing with the mailbox.
The recorder shares an archive directory and a lock that does not wait with other
recorders. The audit runs the validator's `Contract`; the archive verifier runs the
room verifier's envelope check and depends on the same saved flow room.

What is hard here: kills between any two file operations; reads before a request
of half a minute that are used after it; a `curl` that outlives its script and
keeps the lock; rooms that evict, are recreated or answer with another page than
asked for; several effects that must happen together without a transaction; late
acceptance of timed-out requests; 64-bit shell arithmetic; renames that a power loss
undoes; a state carried from snapshot to snapshot over captures that do not count;
frames of several contracts in one transcript with time stamps in any order; exports
of several rooms saved at different times.

## Modules

| Module | Models | Built on |
|---|---|---|
| `Mailbox` | poller and acknowledger as processes with a program counter, the room, kills, the operator's `rm` | |
| `MailboxLedger` | what the two promise: offer, bind, advance, release, each atomic | refined by `Mailbox` |
| `ReviewedMailbox` | fetch, review, reviewer, reviewed acknowledgement as jobs around the scripts | extends `Mailbox` |
| `PollBackoff` | the retry loop around the poller | extends `Mailbox` |
| `Sender` | the sender, nonce files, log, requests on their way | |
| `ContestRecorder` | recorders on one archive: lock, scan, fetch, staging, rename, report; kills, power losses, hand-made changes | |
| `TclkLifecycle` | what a transcript is about: offers that are made, taken, locked or cancelled, settled once | refined by `CrossRoomAudit` |
| `TclkContract` | one contract: frames, `apply`, deadlines | |
| `TclkTranscript` | the validator over one room | extends `TclkContract` |
| `CrossRoomAudit` | the audit over two rooms, beside the validator | extends `TclkTranscript` |
| `CloseCall` | referee, rooms, saved exports, package and `verify-close-call.py` | |
| `CloseCallArchive` | the published archive and its verifier | extends `CloseCall` |
| `ClosePosition` | the arithmetic of one position, with its theorems | |
| `Mailbox_proofs`, `ReviewedMailbox_proofs`, `PollBackoff_proofs`, `Sender_proofs`, `ContestRecorder_proofs`, `Tclk_proofs`, `CloseCall_proofs` | TLAPS proofs | |
| `MCMailbox`, `MCReviewedMailbox`, `MCSender`, `MCContestRecorder`, `MCTclk`, `MCCloseCall` | symmetry sets, kill places and small inputs for TLC | |

**Mailbox.** `pc[p]` is the place in the script a process runs: `pLock`, `pCheck`,
`pHttp`, `pSave` of the poller, `aLock`, `aCheck`, `aWrite`, `aClear` of the
acknowledger, `end` before either exits. A step is everything a script does
between two accesses to shared state. Reads under the lock of files that only
lock holders write are merged with the decision they lead to; the only write
without the lock is the operator's removal of the marker (`DropPending`), which
commutes with those reads. `reg[p]` is what the script read (poller) or is about
to write (acknowledger). `Verdict` is the chain of early returns after an answer,
in the order of the code; `HistoryGap` compares only when the cursor is positive,
as line 250 does. A killed poll may leave `Curl` as the holder of the lock until
curl's own time limit. The room is a head, the lowest retained message, a
generation, and two booleans for what its version answers; a page is the newest
`PageSize` messages after the cursor, or one that ignores the cursor. `offer` is
a ghost: the batch the marker was last written for.

**ReviewedMailbox.** A process runs one job (`job[p]`) and, inside it, at most one
script of `Mailbox`, whose variables move only by its own actions (`Inside`).
Every file operation of a job is a step; in particular `rm -f batch receipt` is
two (`ReviewCount`, `ReviewRemove`), and acknowledgement, archiving and removal
are three. A receipt is the batch it certifies. Which messages fail their
signature or content checks (`forged`) and which repeat the signature of their
predecessor (`replayed`) is chosen in the initial state. Kills happen at the
places of `Killable`, `MaxKills` times at most. `Timer` and `Operator` say which
processes run the fetch and which the other two jobs.

**PollBackoff.** The loop's variables and one action per branch of its `case`;
the polls in it are Mailbox's. A killed loop leaves its poll running.

**Sender.** The clock is any value at each read. `TestLe` is the shell's `-le`:
false, not an error that stops the script, on operands beyond 64 bits. A request
is put into `flight`; the service accepts or drops it at any time, before or after
the script has given up. `RecoverAbort` is the end of the script under `set -e` when
jq cannot parse the answer.

**ContestRecorder.** `pc[p]` is the place of a run: `lock`, `scan`, `fetch`, `write`
(four files), `rename`, `sync`, `report`. `archive` is the sequence of snapshots by
name, each with the fields of its manifest that later runs check or carry on;
`durable` is how many of them a power loss cannot take, `bytes` what `storage_size`
finds, remnants of killed runs included. A fetch may bring any set of lines, of either
generation, well formed or not. `Merge` folds `Join` over the intervals in the order of
their bounds (`MapThenFoldSet` takes the latest one last, as the loop over the sorted list
does); `Holes` folds `Pass` over the merged list, which is in order already. A digest is injective and stands for the manifest. `shown` is a ghost: the numbers
an export of the right generation has shown, from which `CoverageExact` and `CleanExit`
compute what coverage, missing ranges and exit status have to be. A name is safe from a power
loss with the sync of its directory only (`synced`, `SyncRoot`); changes to one directory are
taken to reach the disk in their order, as with a journal, those to two directories in any.
`root` is the archive directory: there before the first run with its name on disk (`kept`),
or `absent` until a run makes it (`MakeRoot`, line 210), from when it is `new`: the program
syncs the directory and never its parent, so a power loss may take it with everything in it
(`RootVanishes`); one that survives a power loss is on disk.

**TclkContract, TclkTranscript, CrossRoomAudit.** A digest is injective, so an offer
is its own id, a contract's id is the offer and the core of the acceptance, and a
statement is the secret that opens it. `May...` are the guards of `Contract.apply` by
frame kind, `Applied` its assignments. `contracts` and `byId` are the validator's two
dictionaries; in the code both hold one object, in the model `byId` holds the offer
whose contract it is, and `Indexed` says that this is the same. Time stamps come with
each message, in any order. Every reason to refuse ends the reading (`Refuse`), as the
exceptions do. The audit reads the same frames with its own routing and time checks;
`tool` says which of the two scripts reads. `log` is the set of lines seen, with (ghost)
sender and time, from which `JustifiedStatus` and `AuditConsistent` judge the result.
Nonces of frames are left out: of two heartbeats of one party in one contract the model
takes the first only. To cancel an offer that nobody has accepted is refused, as in the code.

**CloseCall, CloseCallArchive.** The referee posts a seed, one record per sweep in every
room and a final record. The operator saves the export of each room at a time of its
own (before that the export is empty, and refused), and runs the verifier at any time. `party` is who may depart from its part, once:
a server that evicts, a referee that posts any wrong record (its own or a stranger's),
a relay that drops, repeats or swaps records, or a keeper who edits the package, the
index or a record. Predicates are the checks of `verify_exports` in their order (`Complete`,
`SignedFor`, `SeedFirst`, `FinalLast`, `Numbered`, `OneSigner`, `Agree`). `reports` are all
reports so far; a run that refuses its input changes nothing. Two observations are part of the
properties: a signature does not cover the message's number, so that `FinalIsFinal`, which
needs the position of the final record, is claimed without a relay; and
`verify_commitments` does not look at who signed a flow record, so that `RecordsGenuine`
says "a signed record", not the referee's (`ArchiveAgrees` relates it to the reports of the
room verifier, which do look).

**ClosePosition.** Prices in cents, quantities in hundredths, money in millionths: every
product and the one percent fee are integers. The program computes them in decimals of 28
digits: exactly for quantity, entry and close of an affordable position whose close is not
beyond that precision itself, and for settlement prices up to it. Rounding beyond is not modelled.

Left out everywhere: file modes, ownership and symlink checks, JSON syntax, wording,
logging other than `activity.jsonl`, and the cryptography.

## Runs

| Run | Question | Bounds |
|---|---|---|
| `mailbox` | consistency, monotonicity, offers, gaps, refinement of the ledger | 2 processes, 4 messages, ring 3, page 2, 1 recreation |
| `mailbox_zero_gap` | violation: a gap at cursor 0 | as `mailbox`, no recreation |
| `reviewed` | the serial workflow with one kill anywhere | 1 process in both roles, 3 messages, 1 recreation |
| `reviewed_overlap` | fetch and operator overlapping | 2 processes, 2 messages, 1 recreation |
| `reviewed_live` | every message is handled | 1 process, 2 messages, one kill at a recoverable place |
| `reviewed_ack_kill` | violation: a kill before archiving | one kill at `kArchive` |
| `backoff` | schedule, attempts, output, markers; every loop ends | 1 loop, 1 other process, 2 messages, 3 attempts, delays 2 to 6 |
| `sender` | nonces and log; every send ends | 2 senders, 1 room, 64-bit limit at 2, 1 foreign message |
| `sender_abort` | violation: an accepted message reported as failed | 2 senders, 1 room |
| `recorder` | chain, limits, coverage, reports, exit status | 2 recorders, 2 configurations, 3 numbers, 3 snapshots, budget 11, 1 fault, 1 hand-made change, a directory that is there or not |
| `tclk` | status, dictionaries, audit, refinement of the lifecycle | 3 parties, 2 offers, 2 secrets, 2 rails, 2 references, 2 time stamps, 6 frames |
| `close_call` | honest rooms accepted, faithful and consistent reports, archive | 2 rooms, 2 sweeps, 1 departure |

Why the bounds suffice. Two processes give every interleaving of two scripts,
including a poll and an acknowledgement that cross, and one of them waiting for
the orphan of the other; the proofs cover any number. Four messages, a ring of
three and a page of two make evictions, newest-page answers and a second batch
after an acknowledgement all happen; one recreation changes the generation once.
Three messages and two batches are enough for a replay across two receipts. One
kill per behaviour visits every place; the proofs allow any number. Delays from 2
to 6 reach the limit by doubling past it. With the 64-bit limit at 2 a nonce is
counted up from a clock that stands still, taken from a clock that runs, and
refused at the limit. Three numbers give a hole between two intervals, a joined and an
open end; three snapshots a regression after a gap and a removed one in the middle; the
budget of 11 takes three captures with two lines between them, or a full one and one of two
lines, and is reached by snapshots and
by remnants. Six frames are an offer, its acceptance, lock, settlement and a receipt with one
frame to spare, or two contracts side by side; the two offers differ in role and have their
refund times at, before and after the time stamps. Two rooms are compared as any pair of the
five is; two sweeps allow a swap, a missing and a repeated one. Deadlock is checked in every
run but `tclk`, in which a reader ends. The bounds are the constants `MaxSeq`, `MaxGen`,
`MaxKills`, `MaxOther`, `MaxClock`, `MaxSnapshots`, `Budget`, `MaxFaults`, `MaxDamage`,
`MaxFrames`, `MaxSweeps` and `MaxAttempts`; the recorder's and the loop's limits are the
program's own, with small values.

The types of the mailbox and the sender are the first conjunct of `IInv` and `SInv`, the
invariants that the proofs use, which the runs check. The invariants of the later proofs
(`CoverInv`, `DeskInv`, `LogInv`, `AuditInv`, `ContentInv`, `ArchiveInv`) live in the proof
modules and imply what the runs check. `AdvanceIsOffered` has no run of its own:
it is proved, and the refinement of `MailboxLedger` implies it. `reviewed_overlap` is where
`AdvanceIsReviewed` is checked, since two jobs that overlap are what could break it.
`DelaySchedule` speaks of the delays and of the number of attempts.

### Fairness

- Scripts (in `FairBackoffSpec` and `AttendedSpec`): a running script goes on, because the
  only blocking call has `--max-time`; the orphan curl ends for the same reason; a waiter
  gets the lock if it is free again and again (strong fairness), as `flock` wakes
  waiters. Starts, kills, messages and the operator owe nothing.
- Workflow (`Attended`): the timer fires again and again, the operator goes on
  reviewing, acknowledging, recovering and resuming, and the room answers
  usably again and again (strong fairness of `PollRead` and `PollPrint`). Without
  the last, a service that is down for ever would refute everything.
- Loop and sender: sleeps, signer, verifier and curl end.
- The offline tools and the recorder make no liveness claim: they end because they read
  finite input under a time limit.

### What the violations show

- `mailbox_zero_gap`: an empty poll records the generation at cursor 0; messages
  then arrive faster than they are polled; the page with the newest is accepted
  and acknowledged, and the first is never reported. The gap test applies to
  positive cursors only (`AdvanceCoversRange` holds), while the safety invariants of
  the operations guide have no exception.
- `reviewed_ack_kill`: after the cursor has moved the acknowledgement cannot be
  repeated, so a kill before archiving leaves batch and receipt in place and the
  fetch paused. `EvidenceKept` still holds: nothing is lost, but only a manual repair
  helps.
- `sender_abort`: a page that is not JSON ends the script after its message was
  accepted, with an error status and no record.

With no kill (`MaxKills = 0`) `AcknowledgedArchived` holds at the same bounds.

Three limits of the code are visible in the models and bound what is claimed.
The two unlinks after an empty review (`review-mailbox.sh:75`) are not atomic: a kill in
between leaves a receipt that no later batch matches, so `reviewed_live` considers kills
elsewhere (`RecoverablePlaces`). And values of 19 digits beyond 64 bits would pass the
sender's pattern and make its comparison fail, so the claims about nonces are for a
64-bit clock (`ClockInRange`). And the recorder makes its archive directory without syncing the
parent (`record-contest-room.py:210`, `:287`): a power loss soon after the first report may take
the directory and the snapshots already reported. `ReportedKept` is therefore about a directory
that the power loss leaves, and says that one whose name was on disk when the report was printed
is always left. An operator who wants the first reports to be safe makes the directory
beforehand and syncs its parent.

## Proofs

`Mailbox_proofs`, from `ConstantsAssumption` and `NullAssumption` (bounds are numbers,
`Null` and `Curl` are neither numbers nor processes nor records):

- The properties are not inductive alone: that the marker is not behind the cursor
  depends on what a poll read before its request still being true after it. `IInv`
  adds four facts to the types. `LockHeld`: a process in its critical section holds
  the lock. `PollView`: what a poll read is what is on disk, and what it is about to
  offer follows it. `MarkerView`: the marker on disk is that of the last offer, which
  starts at the cursor or has been acknowledged completely. `AckView`: what an
  acknowledgement is about to write is the last offer, even if the operator has
  removed its marker meanwhile.
- `InvariantHolds` proves `IInv` (one step per action; `LeavePreserves` and
  `InsidePreserves` carry the parts an action does not disturb), and `TypeCorrect`,
  `PendingIsConsistent`, `CursorIsMonotone`, `AdvancesAreOffered`,
  `MarkersAreNotReplaced` follow from it, the action properties by a lemma on which
  steps write the cursor (`CursorSteps`) and the marker (`PendingSteps`).
- `AdvancesCoverTheirRange`: an advance of a positive cursor leaves out no message. It needs
  `CoverInv`, which adds to `IInv` that a page accepted for saving, the marker's batch and the
  one about to be acknowledged hold every message of their range (`CoverView`), and what a
  cursor or a saved page says about the room for ever (`RoomView`): a generation that was
  seen is not ahead of the room's, and a current room that is empty and does not echo the
  cursor has no message beyond the last one seen. `RoomMoves` shows that the room's own steps
  keep this.
- `ScriptsImplementLedger`: the scripts implement `MailboxLedger`, with
  `cursor <- cursorFile`, `marker <- (pendingFile # Null)`. Printing, reading and
  waiting stutter; the cursor write of the acknowledgement is `Advance`.

`ReviewedMailbox_proofs`, from `RolesAssumption` in addition:

- `WorkflowRunsTheScripts`: every step of the workflow is a step of the scripts or
  leaves their state alone, so `ReviewSpec => Spec`. The one place that needs an
  invariant is the acknowledgement's argument, which comes from a receipt and must be
  a cursor; `ReviewInv` carries the types and what a job holds (`WorkHeld`).
- `ReviewTypeCorrect`, and `WorkflowKeepsTheLedger`, which carries the results of
  `Mailbox_proofs` over to the workflow with any number of overlapping jobs and kills.
- `EvidenceIsKept`, `NoReplayIsAcknowledged` and `AdvancesAreReviewed` follow from `DeskInv`,
  which is about files, not processes: what batch, receipt, marker and archive say about each
  other (`FilesView`), which of them a review or an acknowledgement has looked at when it is at
  a given line (`AtDesk`, `InScript`), and that everything below the cursor was reviewed and has
  its receipt in the archive or on disk (`AckedView`). Kills and any number of timers keep it.
  The hypothesis is `OneOperator`: the operator's scripts are not run twice at once. They are
  run by hand, as the runbook does, and take no lock of their own; with two at once TLC
  finds `EvidenceKept` violated, since one may remove the receipt that the other has just written.
- `SavedBatchesAreKept` has the hypothesis `OneProcess`, as the run `reviewed` has: fetch and
  review take turns. A review that polls by itself while the timer's fetch is saving would end
  in an `mv -f` over the other's batch, which TLC also finds.

`PollBackoff_proofs`, from `BackoffAssumption` in addition:

- `LoopView(p)` says where a loop and its poll may be together: between two polls nothing is
  printed, a poll that has not asked yet has printed nothing, one that ended with status 75
  has not printed either, and the page of a poll that went on to its end is `Marked`.
  `OfferReached` (the last offer does not start beyond the cursor) makes offers move forward
  only, so that a later poll cannot take `Marked` away.
- `LoopsRunTheScripts`, `OneBatchIsPrinted`, `AttemptsAreBounded`, `SuccessesAreMarked`.
- `DelaysFollowTheSchedule`: the delay that the script doubles and caps is, before every
  attempt, the closed form `InitialDelay * 2^(n-1)` up to the limit. The provers know nothing of
  powers; that `2^(n+1)` is twice `2^n` is taken from the library's fact about the number of
  subsets (`PowerDoubles`).

`Sender_proofs`, from `SenderAssumption` and the hypothesis `ClockInRange` (the clock is
a 64-bit integer, as `date +%s%N` gives until the year 2262):

- `SInv` orders everything by the stored nonce: a nonce about to be stored is larger
  (`SaveFresh`), whatever was reserved, is on its way, accepted or logged is not larger
  (`StoredFirst`). From that a fresh nonce is new to the room, to the log and to all
  other senders, which gives `NonceNeverReused`, and with `SentOnce` and `RecordStands`
  also `LogTruthful`.
- `SenderInvariant`, `NoncesAreNotReused`, `LogIsTruthful`, `NoncesIncrease`.

`ContestRecorder_proofs`, from `RecorderAssumption`:

- The chain is inductive only with what every run is about to do to it. `ArchiveOK`: while
  nobody has changed the archive, each snapshot has its number, links to its predecessor, is
  complete and synced and was made with the first one's configuration. `RunOK(p)`: a run
  past the lock holds it, what it has scanned is still the archive's end, its capture carries
  the next number and the right link, and what it has yet to write fits the budget. `Shapes`
  are the types needed for both.
- `RecorderInvariant` has one lemma per action (`LockKeeps` to `DamageKeeps`); from it follow
  `ChainStaysIntact`, `StorageStaysBounded`, `ReportsAreKept` (a report is made after the
  directory was synced, so its number is at most `durable`; with `RootInv`, that a directory in
  which a report was made with its name on disk is not lost) and `OnlyVerifiedExtended` (hand-made
  changes are modelled between runs, so none falls between a scan and its rename).
- `MergeOK` and `HolesOK` say what the two folds return for every finite set of intervals:
  intervals in order that do not touch and cover the same numbers, and the intervals of
  what is missing. A fold is unfolded by first showing that its recursive function exists on the
  subsets of the set (`FoldExists`). The induction over subset sizes takes a *set* of
  numbers where the library's theorem takes a predicate (`NatSetInduction`, from well-founded
  minima), so that no operator is instantiated.
- `CoverageIsExact` and `CleanExitsAreClean`, from `ContentInv`: each snapshot's coverage is what
  it and those before it have shown, its holes the rest up to the top, its receipts verified
  (`SnapshotOK`); a run carries the last snapshot's coverage into its own (`RunRead`); a run
  that exits with 0 has stored a snapshot without warnings (`ReportsRead`).

`Tclk_proofs`, from `TclkAssumption`, about both readers at once:

- `TclkInv` adds to the types what is known of each contract: an open one has only the
  offering party, and its offer has been read (so that no offer comes twice); from its
  acceptance on it has an id, under which it is found, and two parties.
  `FrameSteps` reduces reading a frame to three cases (a new offer, an acceptance, a frame of a
  known contract); `AppliedMoves` says which status each frame kind leads to.
- `ReadersTyped`, `DictionariesAgree`, and `ReadersImplementLifecycle`: every step of either
  reader is a step of `TclkLifecycle` or a stutter, because a frame moves the contract of one
  offer only (`OneContractMoves`).
- `StatusIsJustified`, from `LogInv`: for each contract id the log holds no frame at all if the
  reader does not know it, and otherwise an acceptance and exactly the lock and the ending that
  its status implies, each by the right party and on the right side of its deadline
  (`StatusLogged`). An offer is logged once at most (`OfferLogged`).
- `AuditIsConsistent`, from `AuditInv` beside `LogInv`: what was read in the deal room is about
  the target, and every frame was read no earlier than what it builds on, with `latest` above
  all that was read so far.

`CloseCall_proofs`, from `CloseCallAssumption`, about both verifiers, any number of sweeps and
anyone who departs:

- `CallInv` starts from the rooms: at most one of them has a file that is not the sweep's own
  (`OneWrongRoom`), and without a departing referee they hold seed, sweeps and final record in
  order (`RoomsInOrder`). Every exported line was posted, under its number unless by a relay
  (`ExportsPosted`). Exports of two rooms that agree are therefore right, which gives what
  every report says: the sweeps' own files, at lines of the rooms that nothing can change any more
  (`ReportsRight`, `ReportPlaced`). `VerifiedRight` is the same for the archive verifier.
- `CloseCallInvariant`, and from it `HonestIsAccepted`, `ReportsAreFaithful`,
  `ReportsTellOneStory`, `FinalReportsAreFinal`, `ArchiveAgreesWithReports`, `RecordsAreGenuine`.

`ClosePosition`, without assumptions: `NoGainAtClose`, `TradeCostsBothSides`,
`BuyerStaysSolvent`, `SellerSolventToDouble`, from the lemma `Products` on integer products.

Model-checked only: liveness (`EveryMessageHandled`, `LoopsEnd`, `SendsEnd`), which needs
fairness and ENABLED, beyond these provers. The three runs that expect a violation exhibit a
behaviour, and there is nothing to prove. Every other property of the runs is proved, with the
hypotheses above where there are any.

## Plan

1. `Mailbox`, `MailboxLedger`, `ReviewedMailbox`, `PollBackoff`, `Sender` (done).
2. `ContestRecorder`, `TclkContract` to `CrossRoomAudit`, `CloseCall`, `CloseCallArchive`,
   `ClosePosition` (done).
3. Proofs: the scripts, the workflow, the retry loop, the sender, the recorder, the readers,
   the verifiers of the contest; every safety property of the runs (done).
4. Next: what an atomic abstract workflow would promise (fetched, reviewed, acknowledged,
   archived) with `ReviewedMailbox` as its refinement under `OneOperator`; an abstract recorder
   whose state is the set of numbers shown.

## Not modelled

- `verify-envelope.py`, `sign.py`: cryptography and text normalisation; the models use the
  verdict.
- `verify-technocore-export.py`: one pass over one file; the recorder uses its signature
  check, which is the set `Forged`.
- `review-tclk-batch.sh`: compares the saved batch with its receipt, runs the validator on it
  and keeps the report. It changes nothing else.
- `install-reviewed-signer.py`: one exclusive creation, by hand.
- Dependency downloads, drift and installation checks, which keep no state, and the contents
  of documents and evidence files.
