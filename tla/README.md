# Clash Lens in TLA+

TLA+ models of the parts of Clash Lens whose correctness depends on order,
failure and concurrency, TLC runs that check them on small instances, and TLAPS
proofs of the results that matter most, for instances of any size. Paths are
relative to the repository; `clashlens/` stands for `src/python/src/clashlens/`.

| module | what it is |
| --- | --- |
| `JobQueue` | the leased queue of processing jobs and the worker lanes |
| `JobContract` | what the queue promises, without leases, clocks or crashes |
| `SpoolHandoff` | how a fetched response reaches the database and its body leaves the spool |
| `ArchiveUploads` | how the bytes of one response reach the archive, are reused, and are deleted |
| `ProviderRequests` | key slots, provider outages and the requests to the official API |
| `CollectorWork` | what the collector owes each Reset, its runs and retries, the evidence, regular checks |
| `ResetPublication` | one Reset's generations, member results, frozen inputs, builds and corrections |
| `ReadingRule`, `RankedDay` | what the profile readings of a Legend day prove against its battles |
| `BattleReports` | the battle logs of both sides applied in any order, and the days they queue |
| `DayResults` | the saved results of ended days and the jobs that recalculate them |
| `Crews` | crews, places and the unlinking of players, lock by lock |
| `DiscordMessages` | the bot's DMs: alerts, confirmations and day summaries |
| `MC*` | the TLC instances: constants, scenarios, symmetry |
| `JobQueueProofs`, `ArchiveUploadsProofs`, `ProviderRequestsProofs`, `CollectorWorkProofs`, `SpoolHandoffProofs`, `ResetPublicationProofs`, `CrewsProofs`, `DayResultsProofs` | TLAPS theorems |

## Inventory

How data flows: the **collector** decides what to ask (`CollectorWork`), polls
the official API (`ProviderRequests`), saves every response it will keep to a
local **spool** and then hands it to PostgreSQL (`SpoolHandoff`). The **uploads**
process copies the bytes to an S3 **archive** (`ArchiveUploads`). The same
transaction that records an observation inserts a job for the **worker**
(`JobQueue`), which applies it to the domain tables: battles as both sides report
them (`BattleReports`), ranked days (`RankedDay`, `DayResults`), and the board
and army results of each Reset (`ResetPublication`). The **private API** reads
those tables for the **website** and the **Discord bot** (`DiscordMessages`) and
writes accounts, links and crews (`Crews`). The parts share no memory: they meet
in PostgreSQL rows, row locks and advisory locks, in the spool directory, and in
the object store.

| component | state | operations | what is hard | what makes it correct |
| --- | --- | --- | --- | --- |
| processing job queue (`db.py`, `job_outcomes.py`, `worker.py`) | job rows, attempt rows, leases | claim a batch, renew, apply, fail, defer, refund, release, maintain | expired leases against open transactions, sessions that end in a commit, rolling images | one applied result, one running attempt, no attempt charged for nothing, every job settles |
| spool handoff (`collector.py`, `collector_commits.py`, `collector_db.py`, `spool.py`) | body files, sidecars, state rows, turns | save, commit in order, compact, recover, sweep, clean up | commit order against crash recovery, file deletion against new sightings | nothing saved is lost or applied twice, no change compacted away, no body deleted too early |
| archive (`collector_uploads.py`, `uploader.py`, `archive_retention.py`, `archive.py`) | upload row, catalogue, objects | claim, put, read back, complete, fail, retire, delete, restore | writes that land late, restores, tombstoned locations | a usable location has its bytes |
| official API requests (`collector_http.py`) | key slots, waiters, outage | acquire, start, redirect, answer, expire, cancel | cancellation, threads that outlive a fetch, lost wake-ups | no slot lost, nothing starts in a pause, one probe |
| collector scheduling, Reset work (`collector_intents.py`, `collector_reset.py`, `collector.py`, `reset_baselines.py`) | sweeps, work rows, runs, counters in memory | freeze members, run, retry, complete, expire, judge evidence | late restarts, answers that arrive late or lose their job, work of two Resets | regular checks wait, evidence is final and true, every Reset ends |
| Reset boards and publication (`boundary*.py`, `board_deadline.py`, `snapshots.py`, `army_ingestion.py`) | generations, members, corrections, artifacts | record a result, freeze, build, correct, replace, settle | shared and full advisory locks, corrections during a build, the deadline | one correction at a time, no result lost, board and armies agree, never an older day |
| ranked days (`reconciliation*.py`, `reading_rule.py`, `loss_rule.py`, `queue_refresh.py`, `late_battle_sweep.py`) | day versions, rechecks | judge readings, calculate, queue, chain, sweep | readings between two events, chains of days, changes saved meanwhile, lock order | no false proof, no true day refuted, no stale day without a job |
| ingestion (`battle_ingestion.py`, `domain.py`) | battles, reports of both sides | apply a log, skip a covered one | logs in any order, the two sides against each other | each side counts its newest report, a changed battle queues its days |
| accounts, links, crews (`api_crews.py`, `api_accounts.py`) | crews, roles, places, links | every write to a crew and the unlinking of a player | READ COMMITTED decisions, lock order | one owner, no crew over its size, authority holds at commit |
| Discord bot (`src/python/src/bot/`) | delivery log, retries | log, send, retry, forget | a crash between log and send, cut-off tries, switches meanwhile | never sent twice, silent when off |
| seasons (`season_*.py`) | finalized seasons | finalize, retire | refused in this version | nothing runs |
| private API reads, operator, alerts, liveness, website, deployment | — | — | — | read-only, presentation or wiring |

`PROJECT.json` lists every component with its sources and, where it is not
modelled, why; and every hazard with its line and the properties that would
catch it.

## The modules and the code

In all of them one action is one database transaction, one file-system or
object-store call, or what a task does between two `await`s: the points where
another actor can come in. An action holds everything the code does there.
SQL guards become conjuncts, `CASE` expressions and `ORDER BY` are kept where
they decide something, timestamps become order or an expired/live flag.
A definition whose comment starts with "Mutant" is a plausible wrong version of
the one after it; no specification uses it.

### JobQueue

`job` is the row of `python_processing_jobs`, `row` its attempt rows, `lane`
what the process that made a claim is doing. Random lease tokens are the
attempt number, which `_lease_rows` draws together with them. `ClaimJobs`,
`Renew`, `FailClaim`, `Refund`, `ReleaseBatch`, `MaintainQueue` are one
transaction each; applying a result is two actions (`BeginApply`, then
`FinishClaim`, `Conflict`, or an ended session), between which the job's row is
locked and claims and maintenance skip it (`SKIP LOCKED`). A session that ends
may or may not have committed; `ReadSaved` is what `finished_attempt` finds.
`Defer` is `_defer_conflicted`, whose database errors `release_conflicted`
swallows, also one that a commit raises after it took effect: the claim then goes
on to `Refund`, which finds no lease.
`Supports` says which jobs a worker's image may claim, for rolling releases.

Simplified: the order of claims (newest-first plan, Reset-first turns, pacing)
is any order; a process has one batch; the unlock of a superseded claim whose
message is not covered is `Rerun`; the build permit is left out.

### JobContract

A job is open, held by one claim, done by one claim, or failed. `JobQueue`
implements it under the mapping `Contract` (leased is held, the token is the
holder).

### SpoolHandoff

Responses are numbered in the order they were received. `Publish`,
`WriteSidecar`, `BeginCommit`, `CommitResponse`, `RemoveSidecar` are the steps of
`_collect_endpoint` and `_commit_saved`; a database answer may be lost after the
commit took effect (`CommitFails`), the sidecar may exist although writing it
raised, and a crash may come anywhere. `Seen` is the statement that moves
`collector_response_state`; `Unchanged`/`Compact` the compaction of known
content. `Restart` orders the sidecars as `recover_handoffs` does.
The sweep and the cleanup pass (`StartPass`, `TakeBarrier`, `SweepFiles`,
`CleanupFiles`, `CleanupRows`) hold the publication barrier while they delete.
`Kill` is Podman restarting a collector whose health check reports
`handoff_recovery_required`. Uploads, processing and retirement appear as
`UploadBody`, `Process`, `RetireBody`, what they do to the rows read here.

### ArchiveUploads

One response hash with a location named by the hash and fresh generations of
it. `puts` holds writes whose outcome is open: a PUT may `Land` after its lease
and several later attempts, or never, and never replaces an object (conditional
write). `lane` is one owner loop of `uploader.py`, step by step; `upload` the
leased row with its fence (`Matches`, `HoldsLive`). A sighting is an open
transaction: it reads availability without a lock (`OpenSighting`) and commits
later. `Mark` and `DeleteObject` are retention; `TakePoint` and `Restore` are the
database going back to an earlier state while the object store does not.
`MaxTime` counts days; a lease may expire at any moment.

### ProviderRequests

`request[r].at` is where a fetch is: waiting in the pool's deque, with a slot
granted, waiting for a connection, asking for leave, submitted to or running in
a thread, or "gone": ended while its thread goes on. `leave` is where the
coroutine `start_when_provider_answers` is, run by the fetch itself or, for a
redirect, asked for by the thread; asleep "timed" (until the pause ends) or
"untimed" (until notified). `Recorded` and `Notifies` are
`ProviderOutage.record`; `Dispatch` is `KeyPool._dispatch`, where the rotation's
choice of a key is left open. All calls between two awaits are one action, so
an answer that rejects or pauses its key, releases its slot, dispatches and
records is one step (`Answer`).

Simplified: one pool (the interactive pool has the same code and shares only the
outage); the start rate within a key (`_StartLimiter`) only takes time; a pause
or a timeout may end at any moment, which covers every duration.

### CollectorWork

`clock` counts four phases from one Reset (05:00 UTC) to the next: profiles only,
profiles and logs (`BATTLE_LOG_PASS_FROM`), the hours after midnight (`Night`),
and the five minutes before the next Reset, after `COLLECTION_WINDOW`, when
nothing is retried and regular checks wait. The intent loop and the admission of
regular checks both look at the Reset of the current UTC date, so after midnight
a Reset that was not swept is not swept any more, and regular checks no longer
ask whether it was (`RegularOpen`). `BeginReset` freezes the members and inserts their
pairs and settlement checks; `run` is the intent loop's task of one work,
`tries` the counter in memory `_retries_while_answering`. `Answer`, `Refused`,
`NoAnswerComes`, `WindowCloses`, `SpoolFull` are how one request of a run ends;
`Commit` stores an answer that may be one of an earlier run or of before a crash
(`saved`); `RunEnds`, `RunFails`, `RunPauses` are `collect_intent`'s three ends.
`Process` is the job that evaluates the pair's evidence, `LoseJob` maintenance
failing such a job for good, `Settle` `settle_failed_reset_work`, `Reopen` the
operator's retry. `Admit`, `CheckPaused`, `Readmit` are the regular loop for one
representative check.

Works of different pairs meet only where an older pair holds up a sweep and
where pairs hold up regular checks, so `focus` chooses which works a behaviour
follows and what it enumerates about them; `MCFocuses` names the slices.
Left out: league history, ranking, discovery and live-refresh work (they do not
touch Reset rows), the timetable of regular checks, processing failures that are
tried again.

### ResetPublication

One Reset. `saved` is what has been committed of it: the number of day versions
and army readings of each player, and who left Legend I. `gens` are the rows of
`boundary_publication_generations` with their members and manifests, `ranked`
and `read` the frozen inputs (None until frozen): whom the board ranks by which
version, and which version and how many decodes the army results read.
`corrections` are the rows not finalized. Member results run in two ways: while
the newest generation is open and more than `OPEN_GENERATION_TAIL` members wait,
transactions share the publication lock (`Start`, then `Commit`, with anything
of other sharers between them); otherwise they hold it in full (`Full`, one
step). Every other writer takes the full lock, so it is one step that waits
until nobody shares (`Unshared`). `RecordDay`, `RecordReading`, `RecordLeave`,
`RecordDecode` are the four recorders; `TryEnqueue` freezes what is ready,
`Emit` finishes a correction and starts the next one, `Supersede`,
`CorrectArmies` and `Queue` are the three ways a result meets a frozen
generation. `BuildBoard`, `BuildStatistics`, `BuildArmies`, `FailBuild` are the
jobs; `Reevaluate` the background check with the deadline (`cut`) and the
second look at army statuses (`old`).

Simplified: a new ordering-rule version replaces a generation as a change does;
a freeze never times out; `target_at` and the arrival and repair markers only
order the work; the count of waiting members and the lock request are one
moment; a recalculation that changes nothing records nothing; the state
`pending_inputs` is unreachable because every input is a saved day; operator
corrections wait like the gate. A rebuild (`QueueRebuild`) and an operator's
army correction are the commands. `gate` joins a repair's hold, the pacing of
past Resets and the quiet window.

### ReadingRule and RankedDay

`ReadingRule` is `reading_rule.py`: `Ways` are all the ways one profile reading
fits the ledger (a loss, the weekly raise, the battles whose credit it shows),
`Judged` what one reading shows alone, `Settle` which ways can follow one
another, `Decide` what all readings say. `RankedDay` plays the game as the
comments of `reading_rule.py` tell it: battles are fought and show some time
later, automatic losses and the weekly raise land after their Reset or never,
profiles are read with what landed by then; `Reconcile` is the day's result from
either start the day before may have given. `Scenarios` fixes what does not
change during a day.

Left out: disputed battles, day battles only the opponent reported, late attacks
of the previous day, the Monday raise of the start, Season starts and the start
rules of a chain, the landing of the next day, coverage and malformed evidence,
the arithmetic of the automatic loss, the shield, `proves_end`. The loss of the
day before (50) is no sum of battles the instance can fight: the code's proof
rests on such coincidences being recognised by other evidence. With a loss of 30
= 3 × 10 the same rule would take three battles for a loss.

### BattleReports

Logs are numbered in the order the collector received them, rows by battle. Two
workers apply them in any order: `Begin`, `LockBattle` (a battle saved before is
locked, in battle order), `SaveReports`, then `Commit`, which queues the days of
the battles that changed, or `Rollback`. A log all of whose battles a later log
of the same player covers may be skipped
(`Supersede`). `selected` is the report each side counts with, `agreement` what
both sides make of it, `queued` the days queued for recalculation.

### DayResults

`versions` are the saved results of each player's day; `waiting`, `later`,
`retry`, `first` and `dayEnd` the kinds of jobs that lead to a calculation.
`SaveChange` is the transaction of a saved response: it locks the rechecks it
merges into (`_queue_day`) until `CommitChange`. A lane reads its day and the
two beside it, decides, saves, goes on to the next day when the result changed
(`Outcome`), and records the day for its Reset's board. The late sweep takes
days older than its delay.

The chain compares less than the next day reads. `Outcome` is what
`recalculate_ranked_day` compares: state, final trophies and next start.
`load_previous_day` gives the next day the defenses, shield, automatic loss and
corrections of that result too, and its readings are judged with the day
before's battles as they are then (`previous_day_contributions`): `Rest`. Of a
day's battles `Shown` is what the result compares and `Passed` what the rest
holds. When only the rest changes, the next day is stale and nothing queues it.
The twice-daily recheck of the last two days calculates it again, as
docs/domain.md and queue_refresh.py's docstring say of what the queueing misses;
an older day waits for the late sweep, which asks of each day whether it was
built from the newest version of the day before (`Outdated`). So there are two
properties: `StaleHasCause` is about the compared part, and `StaleRestIsSeen`
about the rest: what the sweep does not see as outdated has the rest of the
newest result before it. The battles of the day before as such are in neither:
changed and changed back between two calculations of the next day, they leave
it stale until the recheck.

Left out: `_enqueue_live_reconciliation` and the contributions of the previous
day to the live one, logs observed before a day's end and applied after it,
`queue_for_next_day_start` and Season starts, `first_battle_log` and Season
repair ranges, the shared mode of the Reset lock (a sharer waits as for the full
one), army battle locks. `DayIsLate` requires every result saved and no
transaction open.

### Crews

Every write to a crew and `unlink_player`, as READ COMMITTED transactions: `tx`
is what the connection of a write is about to do, `locks` the row locks it
holds. A write (`Begin`, then its handler) takes its locks one by one, decides on
what is committed then (`Decide`), and shows its changes at `Commit`. An
operator's transfer of a player (`clashlens_support_transfer`) goes through the
same locks as an unlink and then calls `clashlens_enqueue_interactive`, which
takes the advisory lock of the player's tag (`QueueCheck`). `GiveUp` is a lock
timeout, the victim of a deadlock, or a lost connection.

Left out: tag locks are taken together, as the code sorts them; all players are
tracked; invites do not expire and a member has one; names; replays of a request
already answered. A request its first check would refuse is not enumerated. The
transfer's candidate and the check's own work row are locked by nobody else here.
Player tags are locked by joins, with a short timeout: a join mostly gives up
(`GiveUp`) where the model also lets it wait.

### DiscordMessages

`log` is the delivery log, `waiting` the alerts to be tried again, `loop` what
each of the two loops (alerts with confirmations, summaries) is doing, `air` the
tries given up that may still reach Discord, `shown` what Discord showed, by
nonce. The Clasher's switches, link and Discord user change at any moment
(`Event`). `Claim` writes the log row and rechecks what is due; a try is
answered, refused, cut off, or lost, and a crash forgets `waiting` but not
`log`.

Left out: the outcome column of log rows, their pruning after seven days,
pictures, due lists that are stale (a claim rechecks them), all retry-after
values but none and longer than the wait, the clock of the Reset, summaries
skipped because nothing happened, the sites' owners. A lost try lands before
its deadline or never.

### Composed instances

Four `MC` modules follow one of several components in a behaviour (`followed`),
each with its own variables, and leave the others as they were: `MCStorage`
(spool, archive), `MCProviderRequests` (requests, responses), `MCArchiveUploads`
(uploads, alerts, summaries), `MCRankedDay` (readings, logs) and `MCDayResults`
(four day instances, crews). The components do not share state at that level
of detail: a run of such a module is several independent runs with one name.
`MCStorage` also pairs the fairness conditions of its two components in one
formula each; since only the followed component's actions can happen, each
condition says of it exactly what it would say alone.

## What the runs check

| run | instance | properties |
| --- | --- | --- |
| `queue` | 1 job, 2 attempts, 2 workers, 4 claims, 2 hand-backs, fair | `RunningRowIsLease`, `AttemptsAddUp`, `ImplementsContract`, `EventuallySettled` |
| `queue_rollback` | 1 job, an image that does not support it | `ReleasedIsClaimable` (violated) |
| `storage` | 2 responses of two identities sharing a body, 1 crash, 1 fault; or 1 upload owner, 2 sightings, 1 generation, 1 fault; fair | `BodiesKept`, `SavedOnce`, `SpoolSettles`, `UploadSettles` |
| `archive` | 2 owners, 2 sightings, 2 generations, 2 days, 2 faults; or one player's alerts around one defense; or a summary in two parts; 1 crash | `VerifiedHasBytes`, `UnboundIsUploading`, `MissingIsMissing`, `RetiringIsUnused`, `OnceEach`, `QuietWhenOff` |
| `keys` | 3 requests, 2 keys with 2 slots, 2 connections; or 3 responses of one identity, bodies A-B-A, 1 crash | `EverySlotServes`, `SleepersAreWoken`, `StartsAllowed`, `SavedOnce`, `ChangeKept` |
| `keys_probe` | 3 requests, 2 keys with 1 slot | `ProbeIsRecorded` (violated) |
| `collector` | 1 member; pairs of two Resets with regular checks, until the last day or, without refusals, its night; the first pair and its evidence, with every answer or with 2 requests a run; the first settlement check; fair | `ChecksHeldDuringReset`, `EvidenceFollows`, `ResetsEnd` |
| `reset` | 2 players, one or both swept, 1 lane, 2 events (with one swept, nothing after the second) | `OneAtATime`, `SharedLockHolds`, `NoResultLost`, `ArmiesFollowDays`, `NeverOlder` |
| `reset_live` | 2 swept players, 1 event, fair | `EveryResultShown` |
| `reset_joins` | 2 players, 1 event | `LateDayJoins` (violated) |
| `ranked_day` | 2 battles, 3 readings, 4 events, 11 scenarios; or 4 logs of 2 battles, 2 workers | `TrueDayStands`, `ProvenIsTrue`, `ReportsCount`, `ChangeQueuesDays` |
| `day_results` | 1 player, 2 days, 1 change, 2 lanes; or 2 players, 3 days, 1 change; or 1 player, 2 changes, 1 recheck; or 3 days and a change that only the next day reads; or 3 accounts, 4 players, 3 crews, 2 writes on 2 connections | `StaleDayHasCause`, `StaleIsSeen`, `LocksNeverCircle`, `CrewsHold`, `NoMutualWait`, `StillAllowed` |

A property that joins several (`AttemptsAddUp`, `SavedOnce`, `SharedLockHolds`,
…) says in its module what each part is about. Every property has a mutant in
`PROJECT.json`: a plausible bug in the code it is about, under which TLC finds
it violated.

**Why the bounds are enough.** *Queue*: four claims of a job with two attempts
let one claim be handed back, one expire, one run on after losing its lease and
one finish; two claims of a job are what every fence compares. Claims beyond the
bound are disabled, so a run that stops there is the bound, not a deadlock of
the system; the same holds for responses, generations and days below, which is
why those runs say `CHECK_DEADLOCK FALSE`. *Spool*: an older, a newer and a
newest response of one identity is the smallest instance in which a change can
be overtaken or compacted away; two identities that share a body are the
smallest in which a deletion for one harms the other. One crash and one fault
can each come at every step. *Archive*: two owners are an abandoned lease and
its successor, two generations a second retirement after the first, two days a
hold of two and a window of one, so that a restore just inside and just outside
the window happens. `WaitAttempts` is 1 instead of 30: an attempt within and one
after the wait both occur. *Keys*: three requests are one that started before the
outage, the probe and one asleep; two slots per key and two connections make
keys, slots and connections scarce in turn; two failures in a row start an
outage, so that a failure alone, a failure undone by an answer and a start all
occur. Requests end and start again without bound, so `keys` checks deadlock.
*Collector*: a second Reset is what an unfinished pair of the first can hold up,
four phases a day let a request cross each limit and a Reset be missed, two
requests a run are a refusal and what follows. *Reset*: with two players, `OpenTail` 1 and one lane
both locks are used, one player can be the last whom the other waits for, one
can be outside the sweep; two events are a change and a second one while the
first one's correction is waiting, building or published. *Ranked day*: every
wrong verdict found while writing it needed at most two battles and three
readings. *Day results*: a chain of three days is one that starts, passes on and
ends; two lanes and one sweep meet in pairs; a third day shows whether what
only the second day's result passes on is lost. *Crews*: two writes interleave in
every way or follow one another; three places and sizes two and three make the
last place contested, and with three crews and a limit of two an account that
has one can be in two writes that would each give it another. *Discord*: one tick is the retry
wait; the nonce's memory, the limit and the flight keep the order the code
relies on (`Memory` ≥ `Limit` + `Flight`).

**Fairness.** Only what the code runs in a loop is fair. A live worker goes on
with what it claimed, claims while it can and runs maintenance (`worker.py`
loops), a lease in the past is expired, and hand-backs are bounded by
`MaxGiveBacks` (so are deferrals that land although their commit raises): without
that bound a conflict could defer a job for ever, which the code allows. The collector's tasks, its restart by Podman, recovery, the
two-second retry for locks, the uploads and the once-a-minute cleanup are fair in
`storage`; strong fairness stands for a retry loop that meets a lock now and
then. For its archive half owner loops run, leases run out and are released, a
write lands or its caller learns otherwise, and transactions end; faults are
bounded. In `collector` the intent loop, the regular loop, the workers and the
clock go on. In `reset_live` (`Work`) the sweep and a hold end, the pool takes
results and builds, and the check runs past the deadline: as long as any of it
is left the service does not stop. `ProviderRequests` claims no liveness: every
wait there has a timeout that would make it hold whatever the code does; that
wake-ups are not lost is the invariant `SleepersAreWoken` instead.

## Where the code differs from its documentation

`queue_rollback`: `maintain_queue` puts every expired job that the running image
does not support back to `pending` whatever its attempts, and the claim filter
takes a pending job only with attempts left. A job on its last attempt whose
lease expires during a rollback (docs/deployment.md describes one) is then
neither claimed nor failed by any image. The docstring says it is released for a
future image.

`keys_probe`: a redirect asks for leave in a task of its own, which can outlive
its fetch: when the caller is cancelled the thread still waits for leave for up
to the rest of its 20 seconds, and when the deadline ends the loop may see it a
moment before the thread does. If the outage pause ends in between, that task
takes the probe flag after its fetch has recorded without it, and nobody clears
it: no request becomes the probe until an answer to a request sent earlier, or a
restart, ends the outage. It takes a redirect under way as an outage begins, so
it is rare; `SleepersAreWoken` holds even then.

`reset_joins`: a player outside the newest generation whose day is saved while
that generation is under correction and nothing of it has frozen is neither
added to it nor put into a waiting correction.

The rest has no run of its own: a property excludes it by name.

- *A late Reset reading holds up the armies.* `_record_boundary_baseline` always
  writes to generation 1. A reading that comes after its inputs froze turns a
  member who was left out back into a pending one; the army build gives up while
  a member is pending, and the deadline settles only boards that have not frozen
  (`EveryResultShown` excludes `ReadingIsLate`; board_deadline.py:15-18 says that
  when such a member's day saves later the board is rebuilt with it). It needs no operator: a 401 or 403
  is final evidence at once, though the same run asks again.
- *A leaver stays on an inherited board.* `boundary_members.leave` takes a player
  off the newest generation, but an army correction whose board is taken over
  later ranks them again (`NoResultLost` and `ArmiesFollowDays` exclude
  `saved.below`). A second army correction leaves them on the published board
  without army results.
- *Partial evidence whose job failed.* A processing job that maintenance fails
  (`lease_expired_max_attempts`) writes no outcome; its pair's evidence stays
  partial and `settle_failed_reset_work` does not take it (`EvidenceSettles`
  excludes a lost job), although reset_baselines.py (about line 488) speaks of
  not holding its publication for ever.
- *A change back after a late log.* `queue_for_battles` compares a new report with
  the last one kept, not with the one that counts, so a log that was applied late
  hides a change back from it (`ChangeQueuesDays` excludes it; the twice-daily
  recheck and the late sweep find it later).
- *Crew lock order.* api_crews.py says two writes never wait on each other. They
  may in two cases, of a join that waits for the link of a player whom the other
  write unlinks or transfers (`NoMutualWait` excludes both as `Crossed`), until
  PostgreSQL ends one. Unlinking a player chooses its crews before it locks them:
  if the player has been removed meanwhile and is being added again, it waits for
  a crew the player has left (`LeftSince`). And a transfer queues a check of the
  player at its end, under the tag lock the join already holds
  (`clashlens_enqueue_interactive`); migration 0095 says so of a transfer.
- *A deferral that landed.* worker.py (931-933) says a claim handed back is lost
  only if another worker or maintenance took it. When the commit of a deferral
  takes effect but raises, nobody took the job: it waits as deferred, and the
  lane reports `lease_lost` (`AttemptsAddUp` allows it for that state).
- *A Reset missed until midnight.* Nothing sweeps a Reset after 00:00 UTC of the
  next date, and regular checks go out as if it had been (`DayResumes` says the
  Reset of the day is swept only while that date lasts).
- *A day stale in details.* queue_refresh.py queues the days a response changes
  and the calculation goes on while the compared values change; a next day that
  read more is left to the recheck and the sweep (`DayResults` above).

## What is proved

TLAPS proves, for every value of the constants that satisfies the assumptions of
the modules:

| theorem | statement |
| --- | --- |
| `JobQueueProofs!TypeCorrect` | `Spec => []TypeOK` |
| `JobQueueProofs!LeaseFencing` | `Spec => [](RunningRowIsLease /\ LockKeepsLease)` |
| `JobQueueProofs!RowsFrozen` | `Spec => ClosedRowsFrozen` |
| `JobQueueProofs!QueueImplementsContract` | `Spec => ImplementsContract` |
| `JobQueueProofs!AttemptsBalance` | `Spec => AttemptsAddUp` |
| `ArchiveUploadsProofs!TypeCorrect` | `Spec => []TypeOK` |
| `ArchiveUploadsProofs!NothingLeftUnbound` | `Spec => []UnboundIsUploading` |
| `ArchiveUploadsProofs!RetentionKeepsBytes` | `Spec => []VerifiedHasBytes` |
| `ArchiveUploadsProofs!MarkedIsNeverReused` | `Spec => RetiringIsUnused` |
| `ArchiveUploadsProofs!MissingIsProven` | `Spec => MissingIsMissing` |
| `ProviderRequestsProofs!SlotsServe` | `Spec => []EverySlotServes` |
| `ProviderRequestsProofs!SleepersWake` | `Spec => []SleepersAreWoken` |
| `ProviderRequestsProofs!StartsAreAllowed` | `Spec => StartsAllowed` |
| `CollectorWorkProofs!ChecksAreHeld` | `Spec => []ChecksHeldDuringReset` |
| `CollectorWorkProofs!EvidenceIsSound` | `Spec => []EvidenceFollows` |
| `SpoolHandoffProofs!BodiesAreKept` | `Spec => []BodiesKept` |
| `SpoolHandoffProofs!SavedReachesOnce` | `Spec => []SavedOnce` |
| `SpoolHandoffProofs!ChangesAreKept` | `Spec => []ChangeKept` |
| `ResetPublicationProofs!OneCorrectionAtATime` | `Spec => []OneAtATime` |
| `ResetPublicationProofs!NoResultIsLost` | `Spec => []NoResultLost` |
| `ResetPublicationProofs!ArmiesAlwaysFollowDays` | `Spec => []ArmiesFollowDays` |
| `ResetPublicationProofs!PublishedOnlyNewer` | `Spec => NeverOlder` |
| `ResetPublicationProofs!SharedLockIsSafe` | `Spec => SharedLockHolds` |
| `CrewsProofs!CrewsAreSound` | `Spec => []CrewsHold` |
| `CrewsProofs!AuthorityHolds` | `Spec => StillAllowed` |
| `CrewsProofs!WritesNeverCircle` | `Spec => []NoMutualWait` |
| `DayResultsProofs!CalculationsNeverCircle` | `ConstantsFit => (Spec => []NoWaitCycle)` |
| `DayResultsProofs!StaleDaysHaveCauses` | `ConstantsFit => (Spec => []StaleHasCause)` |
| `DayResultsProofs!StaleRestsAreSeen` | `ConstantsFit => (Spec => []StaleRestIsSeen)` |

The theorems are about the components' own specifications (`JobQueue!Spec`,
`SpoolHandoff!Spec`, …); a composed instance's run checks the same definitions on
the component it follows. The assumptions are the modules' `ASSUME`s: what the
constants are sets of, that the sets whose members are counted are finite, and
the few inequalities the code has between its own constants.

*Job queue.* `IInv` adds to the two properties that a claim exists only up to the
number made (`Numbered`) and that exactly a leased job has a token (`Tokens`).
Neither property is inductive alone: a new claim's row is known to be unused
only by `Numbered`; a statement that compares owner and token but not the clock
may end only its own lease because the token names it; and a locked row keeps its
lease because claims and maintenance skip it.

The ledger proofs reduce every step to what it does to one job: nothing, a
claim, the end of the claim that holds it, its refund, or the recovery of its
expired lease (`Kind`, and `ClaimKind` for one claim's row, lane and report).
`StepKinds` and `StepClaimKinds` show that each action is one of these, and the
properties are argued over the five kinds. The refinement needs that an applied
job is complete (`AppliedIsComplete`), without which a second application would
be a step the contract has no name for. That attempts balance needs
that a claim remembers in its row no more attempts than others were charged for,
which is what a refund or a release puts back (`Budget`). What a lane reports is proved
with the one case the code has beside its comment, a deferral that landed.

*Archive.* A restore replaces the database by a saved point, so the invariant
says of the point what it says of the database. `IType` adds that a complete
upload has a location. `IInv` adds that what an owner is about to complete is in
the archive unless it was marked meanwhile (`Uploaded`), and that what a
restorable point calls usable still has its bytes and, if marked since, was
marked no earlier than the point (`HeldForRestore`). From this,
`ReleasedIsUnusable`: a location whose hold is over was marked more than
`RecoveryWindow` ago, so no restorable point calls it usable. This is the only
use of the assumption `RecoveryHold > RecoveryWindow`, in the code twelve days
against seven.

That an upload is never called missing while a write may still produce its bytes
needs the writes nobody waits for any more to be counted (`WritesInv`): a write
belongs to an attempt made so far, at a location drawn so far (`Numbered`), and
each write to the row's location is no later than the one the row names, or has
been waited for. While the row says `failed` it names that write itself
(`Failure`); otherwise the next claim hands it to its owner (`Awaited`), and an
owner that has not written passes it on when it fails. A fresh generation has no
writes, which is why a location left for another needs no waiting.

*Requests.* The invariant joins both properties with which places of a fetch go
with a slot, the probe and a wait for leave (`Sound`), that a request waits once
in the queue (`Lined`), and that the counters count the fetches (`Fit`,
`Served`, `Watched`). `_dispatch` is where slots, queue and requests meet: what
it keeps is one lemma (`DispatchServes`) for any three that fit, proved over the
iteration that hands slots out, and every end of a fetch only shows that what it
gives back leaves them fitting.

*Reset work.* That checks are held needs that no Reset is swept before its day
(`SweptByToday`) and that only swept Resets have works (`OnlySwept`). That
finished work has its answers needs what a run under way still lacks
(`RunSound`): an endpoint is left to it only while it is missing, and what is no
longer left to a run with no failure is there; and that no response saved by a
run that crashed can later replace an answer that complete evidence rests on
(`RowSound`).

*Spool.* No body goes missing because of the barrier: while a pass is active or
its rows are uncommitted nothing publishes, so the sidecars it read are all
there are (`Cleaning`), and a recovery's list is what is on disk (`Recovering`).
A response is applied once because of order: one that was applied and still has
its sidecar comes first of its identity, in its turns and in the recovery list
(`AppliedFirst`, `Alone`), so its marker is still in the state row when it is
recognised (`Marked`). That no change is compacted away is an order too, of the
identities whose responses reached the spool as they were received: their turns
and their part of the recovery list rise (`Ascending`), so once a response is
being checked or committed, or was recorded, no older one still waits with its
sidecar (`InOrder`). The response a state row compares the next one with was then
itself recorded and is the newest (`NewestReached`), so that whatever equals it
changes nothing. At a restart the list puts the responses already applied before
the others; that keeps it rising because only the oldest of an identity's
sidecars can have been applied.

*Reset publication.* What a step does is built from a few operators of the
generations, the corrections and the saved facts; each keeps `Sound`, said of any
such three, and a step only shows that it may call them. `Sound` is `GenOK` of
every generation (which inputs are frozen and which builds done in which status;
a correction ends with its last build), `Linked` (every generation but the
newest is ended and finalized, each replaces the one before) and `Corrected` (at
most one active correction, of the newest generation, and one waiting on it).
`OneAtATime` is not inductive: that a build never finishes an older generation,
and that an emitted correction finds the newest free, follows from what
`GenOK` and `Linked` say of statuses the property does not mention.

*Reset results.* `Known` adds to `Sound` what the generations hold of each
player's days. Frozen inputs are the members' days (`FrozenOK`). The newest
generation has each member's newest day, or a waiting correction brings it
(`HeldOK`), and such a correction brings what that generation can no longer take,
because it froze or the player would have to join it (`BroughtOK`). A board that
will be taken over ranks the same days its heir has (`TakenOK`), and nothing
published is newer than the newest generation (`ShownOK`). Between a save and the
call that tells the generations of it, one player's day or decode is known to the
facts only; `Known` carries these players as two sets, empty between steps.
`BeforeFirst` covers the time before the first generation: only decodes share
the lock then, and no swept player has a day. None of the three properties is
inductive alone. That a result sent to a correction reaches the board needs that
the correction is not started while its generation could still take the day;
that the board and army results agree needs what was frozen before they were
built; that nothing older is published needs that whatever replaces a generation
starts from its members.

That results may share the lock (`SharedLockHolds`) needs a count: while they
share it the newest generation is open, and more of its members wait than
`OpenTail - Lanes` and one for each that shares it (`SharingOK`). Each brings one
result at most, so with `Lanes <= OpenTail` the last awaited result never comes
under the shared lock; and under the full lock, what is open is the first
generation, which affects everything, so that nobody waiting is all its board
needs (`NewestIsFirst`, `EnqueueStarts`).

*Crews.* `CrewInv` says of each write that has decided what its changes rest on
and that it still does (`Ready`): the roles a member's write checked, the places,
size and number of crews a join counted, the link and the places an unlink
found. A commit of another write could take that away, and does not: only one
write owns a crew (`OneWriter`: it holds the crew's row, or created it and nobody
else knows it, `Fresh`), and a link a join rests on is shared, one an unlink
drops is locked (`Exclusive`). So each commit leaves the others what they rest on
(`CommitCalm`), and the crews it writes stay sound (`CommitEffect`, one lemma per
kind of write). `CrewsHold` is not inductive alone: that a join keeps the limit
needs the account's lock, since it counts crews it does not hold; that no place
outlives its link needs the share lock the place's reference takes. `StillAllowed`
is what `Ready` says at a commit. `NoMutualWait` needs what a write that waits
may hold (`Holding`): a member's write nothing, a join its crew, account, tags
and shared links, an unlink its link and crews below those left to it. Two
unlinks go through the crews in order, and a transfer takes its player's tag with
no crew left to lock; a join and an unlink or transfer meet only in the cases the
property excludes.

*Day results.* `NoWaitCycle` is a matter of order, but of two: a lane locks its
days in order and only then its Resets, the sweep goes back and forth between a
day and its Reset. So the greatest Reset anyone waits for is held by the sweep,
which waits for a later day of its player (`SweepWaits`); the lane holding the
last such day waits in its turn for an earlier Reset, so it would hold, without
gaps (`ChainOK`), a day the sweep has locked. `LockInv` says what a transaction
holds, has done and has left (`JobOK`), that a lane's days have no gaps, and that
no two share a lock. The model-checked instance is the one of `LocksNeverCircle`.

`StaleHasCause` is proved of a day that is not late from its day-end
recalculation (`LateInv`). A late day meets what is saved, or has a job that
waits or runs (`MeetInv`). For the steps of that job the invariant says of each
day it has calculated (`DoneOK`) what it found or will save, that it started from
the day before in the same job or, its first day, from what is saved, that its
reports are still those saved or another job of the day has read nothing yet
(`Fresh`), and that the next late day is in the same job too unless the outcome
stays. So when it ends, its days start from one another, and the late day after
them starts as before (`OwnStarts`, `OtherStarts`). A day a save can change has a
recheck the save holds or queues (`SaverInv`), which needs that never fewer
rechecks wait than saves hold: a claim skips those that are held. The results
the days start with are a recursive function, whose existence `FirstResultIs`
proves from the days before.

`StaleRestIsSeen` needs what each result was built from (`RestInv`): a saved
result from the version of the day before that it names, which stays where it is
because versions are only added; a result of a job under way from such a version
too, or from what the same job calculated of the day before, under the number
that will have (`NoteOK`), as nobody else saves results of a day the job has
locked. What the three theorems need of the constants is
`ConstantsFit`, a hypothesis that TLC evaluates for each model-checked instance
(`InstancesFit`).

Each step lemma has one case per action; lemmas of the kind "who writes what"
leave it the few actions that can disturb a conjunct.

Only model-checked: the properties of `RankedDay`, `BattleReports` and
`DiscordMessages`, and the liveness properties. Liveness under fairness and
`ENABLED` are beyond this prover, and so is induction over data: that the rule of
`ReadingRule`, a recursion over readings and sets of battles, never proves a
false day is checked by enumeration.

## Not modelled

The parts marked so in `PROJECT.json`: those that are one transaction, a
computation over data, refused in this version (seasons), or presentation.
Within the modelled parts: what the sections above name; PostgreSQL, the object
store and the file system are taken to do what the code relies on (row locks,
transactions at their isolation level, atomic rename and `fsync`, conditional
PUT); SQL over several rows whose order does not matter; metrics, logs and
formats.

## Plan

1. Proofs: `OnceEach` and `QuietWhenOff` of `DiscordMessages`.
2. The live day: `_enqueue_live_reconciliation` and what the previous day
   contributes to it.
3. Sliding windows: `_StartLimiter` and the pacing of backfill claims as
   operators checked against a reference definition.
4. A composition of the handoff with the queue: a saved response is processed
   once (`SpoolHandoff`'s `Process` against `JobContract`).
