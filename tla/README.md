# Verification of openclaw-agent-system

TLA+ models of the protocols of the agent system, TLC runs on small instances,
and theorems about them checked by TLAPS. Every definition is translated from
the TypeScript source; `PROJECT.json` maps each one to its lines.

```
tlasany M.tla                             parse a module
tlc -workers 2 -config X.cfg MCname       run a model (see "Runs")
tlapm XProofs.tla                         check the proofs of a module
```

## 1. The system

A plugin for two hosts, OpenClaw and Codex, that lets an agent work on GitHub
issues assigned to its account. A *native pass* (a scheduled job of the host)
takes assignments in, claims them, dispatches them to native sessions, follows
each issue through assessment, implementation, delivery by pull request and
feedback, and retires what is finished. All state is private JSON files, which
several processes (the gateway, scheduled jobs, command line calls, sessions)
update concurrently; GitHub and the hosts' session services are reached by calls
whose answers may be lost. So the behaviours that are hard here are: file updates
by interleaved processes and by the tasks of one process, transactions that work
for minutes on a snapshot, external effects whose outcome is unknown when a
process dies, retries that must not repeat an effect, and resets that run
against work already under way.

### Inventory

| component (source) | state | operations | hard behaviour | what makes it correct |
|---|---|---|---|---|
| **Private state substrate** (`core/private-state-*`) | one file, its lock directory, an in-process queue per path | acquire, read, write, release | two locks in series, lease take-over, timeouts and aborts racing a late lease, crashes between staging and renaming | one holder, no lost update, no lost wake-up, waits end |
| **Assignment claims** (`agent/assignment-claim*`, `channels/github/provider/assignment-claim*`) | a record per assignment and installation; comments on the issue | claim, accept, recover, route locally, rotate identity | lagging listings, lost answers, cleanup that fails half-way, comments deleted by people | one owner, one comment per installation, no take-over, the election ends |
| **Dispatch journal** (`agent/dispatch-state.ts`, `core/merge-state-snapshot.ts`, cold history) | the records of all issue work, originals in a cold store, a generation | transactions, saves, projection of finished records, clear | merges of concurrent edits, a lease given up in the middle of a save, resets in between | saves undo nothing unseen, one active record per issue, nothing shrinks unretained, resets are final |
| **Notification reset** (`agent/notification-reset*`) | an operation record: phase, retained native requests | pause, drain, clear, purge, baseline, replace the coordinators, restore | repeated after crashes at any point, requests carried out late, operators who sync and pause meanwhile | effects once, no turn cut off, settings given back, it ends |
| **GitHub intake** (`channels/github/intake`, `agent/*-intake*`) | scan checkpoint, retained observations, cooldowns | scan, resume, defer | a scan interrupted and resumed after the issue changed | every assignment is seen, none twice |
| **OpenClaw dispatch** (`agent/openclaw-dispatch*`, `openclaw-session-create`, `openclaw-turn`) | a record's session intent, turns, retries | admit, create session, send and observe turns | lost answers of sessions.create and of turns; capacity | one session per record, no turn sent twice |
| **Codex dispatch** (`agent/codex-dispatch*`, `codex-work`) | as above, with local commits | admit, assess, recover, commit | a thread recovered after its process died | as above |
| **Publication** (`channels/github/publication`, `agent/openclaw-delivery.ts`, `agent/delivery-announcement.ts`, ...) | the record's delivery: binding, reservations, attempted marks, announcement | publish, reconcile, compose, candidate, announce | pushes, pull requests and comments whose creation was not answered; two operations at once; deaths between their steps | one pull request, one comment, a record that is true, an end |
| **Feedback** (`agent/*feedback*`) | revisions seen and answered | discover, dispatch, reply | feedback edited while it is worked on | each revision is answered once |
| **Lifecycle and retirement** (`agent/reconcile-assignment-lifecycle.ts`, ...) | shared worktrees, retirement plans | reconcile, retire, reactivate, reclaim | a record that returns while its worktree is reclaimed | no worktree in use is removed |
| **Automations** (`agent/automation-*`) | a ledger of native jobs with pending intents | sync, adopt, retire, admit an execution | cron.add succeeds and the answer is lost; operators edit jobs; a job fires below its update | one enabled job per automation, one run per trigger, syncs converge |
| **Project pickup** (`agent/project-pickup*`) | attempts per window | pick, settle | an attempt whose outcome is unknown | the allowance of a window is never exceeded |
| **1Password cache** (`environment/op-*`) | pending loads, values, back-off, generation | load, flush, fail | a flush overtakes a pending load | nothing of a flushed generation is returned |
| **Session dispatch credential** (`credentials/session-dispatch*`) | tokens | enroll, revoke | a token issued and never stored | no token is stranded |
| **Backup** (`agent/backup-*`) | archives | snapshot, restore | file trees and formats | - |
| **Credential stores** (`credentials/*-store.ts`) | secrets | get, set | operating system tools | - |
| **Setup, install, lifecycle** (`agent/setup-*`, ...) | - | orchestration of the others | - | - |
| **Git, GitHub and Google tools** (`tools/`) | worktrees, checkouts | run git and vendor tools | custody of worktrees | planned with retirement |
| **GitHub account client** (`core/github-*`) | cooldowns | request, retry a read | - | planned with intake |
| **Command line, API, manifest, paths**; **scripts, skills, examples** | none | parsing, registration | - | - |

How they meet: every state file is under the lease of the substrate. A pass of
intake produces assignments; a claim decides whether this installation may admit
one; dispatch runs as a transaction of the journal and binds the native session
that claims record as a receipt; publication and feedback edit the journal's
record; the reset fences all journal transactions out, empties the file and then
replaces the native coordinator and baselines intake.

## 2. Modules

| module | models | theorems in |
|---|---|---|
| `StateLock` | private-state-file-lock.ts, private-state-file.ts | `StateLockProofs` |
| `AssignmentClaim` | assignment-claim.ts, its store, recovery and GitHub client | `AssignmentClaimProofs` |
| `AttemptOnce` | how every external effect is attempted that could not be taken back (abstract) | `IssueSessionProofs`, `AssignmentClaimProofs`, `DeliveryTruthProofs` |
| `JournalSpec` | what the journal promises its transactions (abstract) | `DispatchJournalProofs` |
| `DispatchJournal` | dispatch-state.ts, merge-state-snapshot.ts, the cold history, the journal's part of the reset | `DispatchJournalProofs` |
| `IssueSession` | openclaw-session-create.ts, openclaw-session-turn.ts, openclaw-send-turn.ts, openclaw-turn.ts, their entries in openclaw-dispatch-admission.ts and -coordinator.ts, the record's validation | `IssueSessionProofs` |
| `NotificationReset` | notification-reset.ts, notification-reset-pickup.ts, openclaw-notification-reset.ts and what they call of the automations | `NotificationResetProofs` |
| `AutomationSync` | automation-service.ts, automation-store.ts, automation-projection.ts (OpenClaw's scheduler) | `AutomationSyncProofs` |
| `Delivery` | openclaw-delivery.ts, publish-issue-delivery.ts, issue-delivery.ts, delivery-announcement.ts, comment-publisher.ts, openclaw-feedback.ts where it copies a delivery | `DeliveryProofs`, `DeliveryTruthProofs` |
| `MC...` (one for each run's module) | constants and symmetry for TLC | - |

### StateLock

A task is one asynchronous operation of one process on one path. `Enter`,
`Expire`, `Abort`, `LeaveQueue`, `Ready` are the in-process FIFO queue: `slot`
and `ahead` are its entries in order, `woken` the entries whose `ready()` was
called. `Backoff`, `Retry`, `GiveUp`, `Fail`, `Accept`, `Refuse`, `Remove`, `Left`
are `acquire` around proper-lockfile's `lock()` and the release; `dir` is
the lock directory. `Age`, `Refresh` and `Compromised` are the staleness of the
directory, the refresh timer and its report. `Read`, `Stage`, `Submit`, `Rename`,
`Finish` are the holder's update: `AssertHeld` looks at the lease before the
temporary file is written and before the rename, never after. `Crash` loses the
tasks and the queue of a process and leaves the directory. Time is abstract: a
deadline may pass at any moment of a wait.

proper-lockfile (4.1.2) is external. Its `lock()` awaits one file operation after
the other, and each is a step of its own here: `Create` or `Exists` (mkdir),
`Look` (stat of a directory that exists: gone, stale or locked), `RemoveStale`
(rmdir), `Remake` (mkdir again, which this time does not look at the age), `Probe`
or `ProbeFails` (stat and utimes of the own directory). Neither `RemoveStale`, nor
a probe, nor the release asks whose directory it finds; the release is only left
out when the lease is known lost.

So when a process died holding the lease, two tasks of different processes can both
find its directory stale, one can remove and remake it, and the other then removes
the *fresh* directory and makes its own: both hold the lease though nobody stalled.
This is how the program behaves, and the runs reach it. `overrun` records it: the
task whose fresh directory was removed by a taker that had looked before it was
made, and whoever is hit in turn while that task is at work (its release removes a
successor's directory, its rename replaces what a successor has read); a task
leaves `overrun` when it is through. `MutualExclusion` and `NoLostUpdate` say that
this is the *only* way in which two tasks hold the lease, or an update is lost:
they hold of all tasks that are not overrun, at any time, also afterwards. An
overrun holder learns of it at its next refresh (`Compromised`) and then writes no
more; what it renames before that can lose an update.

`MayStall` separates what the program guarantees from what it
hopes for. When a live holder may be held up beyond `staleMs` (a blocked event
loop), exclusion between processes cannot hold, since the assertion precedes the
rename; exclusion within a process and wake-ups still must, and are checked.
`private-state-file-lock.ts` insists on a `staleMs` of at least two seconds and
leaves the refresh interval to proper-lockfile, half of that: a holder keeps its
lease unless its event loop is blocked for that long, which is what
`MayStall = FALSE` assumes.

Left out: that proper-lockfile keys its table of held locks by path within a
process, and that it removes a directory whose probe failed without waiting for
the removal (`ProbeFails` does both at once).

### AttemptOnce

What the agent does wherever the answer to a call may be lost and the call could
not be taken back: `Save` puts the attempt on record before anything is sent,
`Submit` makes the call, once, which may take effect at once, later (`Happen`) or
never, and only an outcome that was seen becomes `known`. `Save` may withdraw an
attempt only while it is not `sent`, that is after a definite refusal. The code
has this discipline four times over, each with records, merges and failures of
its own, and states it in the header of `openclaw-send-turn.ts` and at
`delivery-announcement.ts:49`. Three modules define `A == INSTANCE AttemptOnce
WITH ...` and state it as `ImplementsAttempts`:

| module | effects | on record (`noted`) | `sent` | `done` | `known` |
|---|---|---|---|---|---|
| `IssueSession` | the session, each turn | `sessionCreation.attempted`, a turn's status | submissions | the session is open, the input accepted | `sessionId`, the turn's status |
| `AssignmentClaim` | the claim of each installation | a record with `attempted` | comments it posted, deleted ones included | it posted one | `commentId` of a record |
| `Delivery` | the announcement, the pull request | the attempted mark or receipt, the creation mark | those on GitHub and those that may still be carried out | the comment, the pull request | the receipt, the pull request's number |

### AssignmentClaim

One assignment of one issue; any number of installations. Claim comments are
numbered in the order GitHub creates them, which is the order the client sorts
by; `live` are those not deleted. A call is `Look` (verify the assignment, list,
check the retained record), then `Defer` (another's claim is visible), `Claim` -
`Create` - `Created` (the attempt is saved, the comment is posted, its number is
saved), or `Adopt`, `Elect`, and `Own` or `Concede` - `Remove` - `Removed`. Every
answer may be lost and a process may die at every step: `Stop` ends the call
where it is and keeps what was saved. `Accept` - `Announce` record the verified
session and mark the comment; `Reserve` and `Transfer` are the managed recovery;
`Rotate` replaces the identity of an installation, whose records keep the old one
(`made`). `recent[i]` are the
comments that a listing by `i` need not show yet: the code elects in a later
native pass than the one that posted, which is what bounds the lag, and
`NewPass` is that boundary. The project's documentation calls this a proof of
concept on comments alone; copies of one installation that share its identity
are outside the protocol and outside the model. `MayTamper` lets people delete
claim comments.

A route that makes no claim is a second call of the installation, `local[i]`, with
its steps as the code awaits them: `AskLocal` reads the record without the
store's lock, `VerifyLocal` and `StartLocal` are the two provider calls, and a
claim call of the same installation may run between any two of them (`StopLocal`
ends the call early). So a claim posted after `AskLocal` need not stop the local
answer: the listing may be older than the comment, and the record is not read
again. (`src/channels/github/CONFIG.md:97` says that a retained claim blocks new
local work; for a local call already past its look at the record it does not.)
What holds, *LocalUnclaimed*, is about every call made after the claim: none of
them starts work, whatever comments were deleted and identities rotated since.
One local answer per installation is enough, since nothing reads it.

Left out: the display name, and the capacity and route inputs of a call. They
only let a call stop early, which `Stop` does anyway.

### DispatchJournal and JournalSpec

A record has a life (live, retired, terminal), a native session `thread` (the
protected fields), one `note` for all the fields that merge, and the generation
it was admitted under, which is history. A transaction begins when there is no
reset, projects finished records left in the file (`Reclaim`), reads a snapshot
without the lease (`Read`), edits it (`Admit`, `Bind`, `Annotate`, `Retire`) and
saves any number of times. `Checked` is what a save verifies under the lease: no
reset record, the same generation, no conflicting edit (`Mergeable`), one active
record per issue in the merge. `Commit` writes at once; `CommitFinished` gives
the lease up while the originals of the finished records are retained
(`Archive`), and `Rewrite` writes only if nothing moved (`Unmoved`). `End` covers
success, refusal, conflict, abort and crash, also in the middle of archiving.
Exclusive use of the file is what `StateLock` establishes, but for the late
take-over described there, so what happens under one lease is one step. `Fence`,
`Clear`, `Cleared`, `Restore` are the journal's side of the notification reset,
each repeatable after a crash.

`JournalSpec` is the promise: one table, changed by whole saves; a save changes a
record only as far as its transaction has seen it, keeps one active record per
issue, and never crosses a reset. `ImplementsJournal` maps the file to the table
with every terminal record restored to its original: projection, the lost lease,
the archive, its failures and the fence are invisible to the abstract level.

Left out: live records are also compacted under storage pressure; OpenClaw passes
and project pickups share the file and merge by the same function; `cold` is a
history of what was handed to the cold store, because the store may refuse an
original that is too large or too old and evicts by age and size.

### IssueSession

The record of one issue and any number of transactions that act on it. `file` is
the record in the journal, `seen[t]` the snapshot of a transaction, `pc[t]` the
call it is about to make or has made. The gateway's side is `session`, `input`
(the native inputs, by turn), `log` (whose inputs are in the transcript) and
`expected` (the transcript an input insists on, the code's
`expectedLeafEntryId`). `creates` and `sends` count submissions.

Entries are `Prepare`, `Reconcile`, `Start`, `Assess`, `Inherit` (the record of a
predecessor), `Superseded` (the observation `next` makes of an intent whose
assignment is gone), and `Context` and `Result`, which the assessment's own run
calls. Then `Intend` - `AttemptCreate` - `SubmitCreate` - `Created` - `ReadBack` -
`Verify` is `createIssueSession`, with `Attempts` for a retained attempt; `Idle` -
`AttemptTurn` - `Send` - `Accepted` is the sending of a turn, with `Retained` for
one the record has; `Observe`, one of the `Record...` actions, `Wait` and one of
`Aborted`, `Failed`, `Completed` is `reconcileOpenClawTurn`, whose two readings of
the gateway are two steps with a save between them. `End` covers every refusal,
failure and crash, and the lost answers: a transaction that ends after
`SubmitCreate` or `Send` leaves an attempt without an answer.

`Commit` is the journal's save as it bears on one record: protected fields,
field-wise merge (`Conflicting`, `Merge`), the progress of a turn that another
transaction took further (`Overtaken`), and the validation of the merged record
(`Valid`). Those three are where the protocol's safety lies: the code has no lock
around the native calls. A flag of the record stands for a field that is set once
(an id, a digest, a time); equal values of two transactions are still a conflict,
as in the code, where setting what was unset is a reservation.

The gateway is external, modelled from what the code relies on: a key creates one
session, an input with a run id is taken once and only when the transcript is as
its sender knew it, runs are one at a time, an input may be cancelled while it
waits or runs, people may write in a session.

Left out: phase, blocker and retry times (they select what is offered, and
occupy capacity, but guard none of these steps), the decision, feedback and
summary turns, later runs in the same session, worktrees and claims.

### NotificationReset

One retained operation, `op`, and the run at work on it. A run is entered by
`Start` (with or without `fresh`), where the retained phase says, and goes from
step to step: `Gate`, `Intend` - `Pause` for each schedule, `Paused`, `Turns`,
`Clear`, `Cleared`, `Purge` with `ArchiveChat`, `ObserveTree` - `ListTree` -
`DropTree` and `Purged`,
`Baseline`, `Baselined`, `Coordinator` with `Archive`, `Replace`, `Create`,
`Retarget`, `Update` and `Readback` for each coordinator, `Restore`, `Remove`.
Every save of the record is a step before or after the effect it is about. A run
may die anywhere (`Crash`), throws where the code throws (`Stop`), and any native
request may be unanswered (`Call`) and be carried out later (`Arrive`), when it
insists on the revision that its sender read. Meanwhile schedules fire, the
coordinators' turns and the managed conversation's turn go on and end, an intake
`Pass` manages only where no reset is retained, an unresolved session turns up
late, and the operator pauses schedules or synchronizes the automations.

`chat` stands for the managed conversations and `tree` for their checkouts: the
purge treats them one by one in the same way. The removal of a checkout is three
steps, because the code awaits the gateway and GitHub between them: it observes
the turns and the unresolved session, it lists the sessions that work in the
checkout, it removes it. A session that turns up between the first two stops the
run. One that turns up between the last two loses its checkout, in the code as in
the model; `late` marks it, and *CutsNothingOff* claims nothing about it. The step of the operation that
fences and empties the journal is one action here and four in `DispatchJournal`,
where it meets the transactions.

### AutomationSync

One declared automation, its record in the ledger (`file`) and the native jobs
that carry the record's marker. A synchronization is `Begin` (manifest and ledger
are read), `Plan` (the whole listing is validated before any change), and then
`Adopt` for a pending intent that did take effect, `IntendCreate` - `Added` -
`Acknowledge`, `Settle` or `Disable` with `Updated` - `Confirm` - `Finish`, or
`Retire`. `Refuse` is every check that throws, `Fail` a failed call or a crash,
after which the request may still take effect (`TakesEffect`). Synchronizations
exclude each other by the store's lock, which `StateLock` establishes; an
execution of a command (`StartRun`, `GetJob`, `LookAgain`, `Admit`) does not take
that lock and compares the ledger before and after it has read the job.

All schedules are one-shots: a job that completes may disable itself below an
update, and must not be armed again for the same trigger. The gateway is
external, and the weakest is assumed of it: `cron.add` always makes a new job, a
firing leaves the `configRevision` as it is, and a new schedule or re-enabling
arms a job again. `upset` remembers what the code leaves to an operator: a second
job from a late `cron.add`, content that changes below a pending intent, a job
deleted by hand, a one-shot that failed or that completed below an update of more
than its output limit, and a job that was no longer as recorded when an update
of it was intended and lost (`automation-recovery-diverged`). Hashes of settings
are the settings. Other automations can only stop a synchronization, which
`Refuse` and `Fail` do anyway.

### Delivery

The delivery of one issue's work. An operation runs unlocked on a copy of the
record (`mem`, `seen`); a save commits if the work in the file is as last read
and conflicts otherwise, and a save that changes nothing reads what others have
saved (`Save`). `publish` is `StartPublish`, `Bind`, `Open`, `Look`, `Reserve`,
`Push`, `Check`, then `Found` or `ReserveCreation` - `Create`, `Verify`, `Patch`,
`Finish`; `reconcile` enters at `Open`. The announcement is `Compose`,
`Candidate`, and `Announce` - `Search` - `Claim` - `Post` - `Receive`, with
`Discover` where the comment is found and `Confirm` for one that was attempted
before, which is also the coordinator's recheck. `Refuse` is every check that
throws, `CreateRejected` and `PostRejected` are the definite rejections that
clear a mark, `Fail` a failed call or a crash, and `Land` a request carried out
after its sender is gone. `Observe` lets a pull request show its branch's head
late, as the code waits for; `Work` is a commit of the agent, and `PushByHand` a
person who settles an uncertain push.

GitHub is not assumed to refuse a second pull request for a branch: the model
shows that the marks alone suffice. A feedback event delivers on a copy of its
own (`With`, `Start`, `Entitled`), which `Feedback` switches on; `own` says whose
copy an operation works on.

`overlapped` remembers that two operations ran at once. The code allows that, and
then a no-op save may refresh a copy between the two halves of an operation: a
record may be reconciled with a pending push, or with a head or content that is
not what was pushed, or a push reservation may be erased. git refuses such a push
unless it is a fast-forward, and the next publication repairs the record, so the
clauses about those fields are claimed for operations that do not overlap, and
the marks, on which uniqueness rests, for all.

## 3. Runs

| run | config | checks | shows |
|---|---|---|---|
| `state_lock` | `MCStateLock`, `StateLock.cfg` | TypeOK, MutualExclusion, NoLostUpdate, WaitsEnd | three queued tasks of two processes, one with `timeoutMs` 0, crashes and take-overs, file operation by file operation: one holder and no lost update but for a late take-over, every wait ends |
| `state_lock_stall` | `MCStateLock`, `StateLockStall.cfg` | LocalExclusion, HeadAwake | three queued tasks of one process and one without a policy of another, with live holders overtaken by others: the queue still admits one and loses no wake-up |
| `claim_election` | `MCAssignmentClaim`, `AssignmentClaim.cfg` | TypeOK, AtMostOneOwner, OwnerKept, ElectionDecides | two installations, lagging listings, lost answers, crashes: one owner, its comment stays, and the election ends |
| `claim_faults` | `MCAssignmentClaim`, `AssignmentClaimFaults.cfg` | NoTakeover, LocalUnclaimed, ImplementsAttempts | deleted comments, rotated identities, recovery, and a local call beside a claiming one: each installation posts one claim, as `AttemptOnce` says, and no local call made after it starts work |
| `journal` | `MCDispatchJournal`, `DispatchJournal.cfg` | TypeOK, NoStaleAdmission, ArchivedFirst, ImplementsJournal, SessionKept | two transactions and a reset on one record |
| `journal_issue` | `MCDispatchJournal`, `DispatchJournalIssue.cfg` | OneActive | two transactions admit two records of one issue |
| `issue_session` | `MCIssueSession`, `IssueSession.cfg` | TypeOK, Turnwise, Custody, ProgressKept, ImplementsAttempts | two callers on one issue: the session and each turn are submitted once, as `AttemptOnce` says, no assessment beside a running investigation, nothing recorded that is not so or taken back |
| `superseded_session` | `MCIssueSession`, `IssueSessionSuperseded.cfg` | GoesOn (violated) | see "Findings" |
| `reset` | `MCNotificationReset`, `NotificationReset.cfg` | TypeOK, ActionsOnce, WholeWhenOver, CutsNothingOff, Ends | a reset of both schedules with a purge, upset twice: its coordinator actions are submitted once, no turn and no session that could be seen is cut off, afterwards all is whole, and it ends |
| `automation_sync` | `MCAutomationSync`, `AutomationSync.cfg` | TypeOK, OneEnabled, RunsOncePerTrigger, AdmitsCurrent, Converges | synchronizations that fail twice, with edits, firings and people in between: one enabled job, one run per trigger, no stale execution, and it converges |
| `delivery` | `MCDelivery`, `Delivery.cfg` | TypeOK, AnnouncedOnce, PublishedOnce, Truthful, Settles, ImplementsAttempts | two callers, two commits, two contents, two failures or overlaps: one pull request, one announcement, each attempted as `AttemptOnce` says, a true record, and an end |
| `delivery_feedback` | `MCDelivery`, `DeliveryFeedback.cfg` | AnnouncedOnce (violated) | see "Findings" |

Each property of a passing run has a mutant in `PROJECT.json`: a plausible bug in the modelled code
under which TLC finds it violated.

### Bounds

- StateLock: `StateLock.cfg` queues two tasks in one process and one in another. A
  late take-over takes two takers from different processes; the holder that died
  may be either of them, since a task starts again after a crash, and the third
  task is hit when an overrun one releases. `StateLockStall.cfg` queues three
  tasks in one process, which give a queue with a head, a middle and an end (a
  departure from each is a different case of `leave()`); a fourth contends from
  another process, without a policy. Nothing counts up.
- AssignmentClaim: two installations are the fewest that elect. Liveness on three
  takes TLC too long; the safety properties are theorems for any number. One
  rotation gives a record made by an older identity. Comment numbers stay finite
  by themselves, since no installation posts twice (`OneComment`, a theorem).
- DispatchJournal: a conflict takes two transactions; conflicts of one record need
  one id, of one issue two. `MaxGen` bounds resets; one reset gives a
  transaction on either side of it, and the theorems hold for any `MaxGen`. Two
  notes tell a merged field from an unmerged one.
- IssueSession: every conflict is one of two transactions; each may do any number
  of calls one after the other, so retries, and callers that come back, are
  covered by two as well. One issue: saves of different records never conflict.
  No counter is bounded: `creates` and `sends` stay at one. Callers are
  interchangeable (symmetry).
- NotificationReset: one operation, repeated any number of times; two upsets
  (a death or lost answer, and another or a sync of the operator) meet in every
  pair of steps. Two conversations for each coordinator are the old one and its
  replacement; a sync that needs a third is out of bounds. `before` gives
  intake on, pickup on or paused.
- AutomationSync: two native jobs are a job and its duplicate. Two mishaps are
  an edit and a failure, or a failed recovery; with three the safety properties
  were checked once (3.4 million states). Declarations: one, its pause, and one
  with another trigger.
- Delivery: two callers give every overlap, and any number of operations one after
  the other. Two commits and two contents give a stale and a current one of
  each. Two mishaps are a failure and its failed repair, or one overlap and one
  failure; the safety properties are theorems for any number. One text: a second
  candidate is refused.
- Deadlock is checked everywhere but in the claim runs (an assignment that is
  taken away, or decided, has nothing left to do) and in `automation_sync` (a
  synchronization with nothing declared and nothing recorded returns at once).

### Fairness

- StateLock: timers fire (`Expire`), settled promises continue (`LeaveQueue`,
  `Ready`, `Try`: the file operations of `lock()` and the sleep between tries). Nothing is assumed of
  the holder, which may work for ever, and nobody has to abort. So `WaitsEnd`
  rests on the deadline alone.
- AssignmentClaim: native passes are scheduled again and again (weak fairness of
  `NewPass`), a dangling call ends (`Stop`), and a call that can go on again and
  again does so in the end (strong fairness of `Look`, `Adopt`, `Elect`, `Own`):
  a pass that fails every time is nothing the program can help. `Claim`,
  `Create`, `Concede` and `Remove` need not ever succeed.
- NotificationReset: a run goes on until it ends, dies or is refused. The operator
  repeats a retained reset and in the end as a fresh one (strong fairness of
  `Start(TRUE)`: the code asks for exactly that), turns end, and the operator
  pauses the schedule that a reset reports as not paused. Nothing is assumed of
  late requests. `Ends` makes one exception, which is the code's own: an action
  that was noted as submitted and was never carried out is not issued again, so
  a reset that died between the two waits for a person.
- AutomationSync: synchronizations are repeated and one that has not failed goes
  on (weak fairness of `Sync`); failures are bounded by `MaxMishaps`.
- Delivery: a running operation goes on, GitHub shows new heads in the end, and
  the agent publishes again what is not reconciled. Each of these actions changes
  the variable its fairness is subscripted with (a running operation its `pc`,
  `Observe` the `pull`), which says the same as `vars` and is cheaper to check.
  `Settles` allows the three dead ends that the code leaves to a person (`Held`).
- DispatchJournal and IssueSession: safety only.

### Findings

`superseded_session`: when an assignment is superseded while the creation of its
session has no known outcome, `next` observes the session
(`openclaw-dispatch-coordinator.ts:433-449`). `describeIssueSession` writes
`record.effective` before the history is looked at. If the session is in use,
`verifyEmptyIssueSession` throws, the blocker is noted and the record saved; but a
record with `effective` and without a verified creation is refused by
`validRecord`, and this save is outside the `try`. So `next` fails, at every call
until the session is unused, and takes no other work on, while
`channels/github/CONFIG.md:142` says that "an issue-specific failure does not stop
unrelated eligible work". The counterexample: an attempt is saved and submitted,
its sender ends, the session opens, a person writes in it, `next` observes it.
The theorem *OnlyPeopleStrand* shows that this is the only way: a session in which
no person wrote never strands `next`, whatever turns it finds there.

`delivery_feedback`: a feedback event takes a copy of the delivery once
(`openclaw-feedback.ts:536`) and writes it back whenever it is reconciled
(`openclaw-feedback.ts:580-587`). If the issue chat attempts an announcement
between two operations of the event, the attempted mark is not in the copy. When
that POST goes unanswered, the event searches, finds no comment, and posts a
second time, and its save erases the chat's mark, while
`delivery-announcement.ts:49` says that "absence after an attempted write never
permits another post" and `openclaw-feedback.ts:594` asks for "any existing
announcement" to be reused. With `Feedback = FALSE` the same property holds and
is proved. With feedback events *OnlyCopiesRepeat* shows that it takes the saved
copy: as long as no event has saved one, overlaps, deaths and late requests lead to
one announcement at most. And *NoSecondPullRequest* shows that the same cannot
happen to pull requests.

## 4. Proofs

Theorems hold for every value of the constants under the assumptions in the
modules (`StateLockAssumption`, `ClaimAssumption`, `JournalAssumption`,
`DeliveryAssumption`, `NoneAssumption`, `JobsAssumption`, `BoundsAssumption`, ...:
shapes of the constants, nothing about the protocol).

**StateLockProofs.** *QueueIsExclusive*, *NoLostWakeUp*: the invariant orders the
queue: `ahead` of two entries of a process are comparable, whoever is past the
queue is its head, and a head that waits is woken. *LeaseIsExclusive*: without
stalls whoever is at a place of the lease and not overrun made `dir`, which is not
stale (`LeaseInv`): a stale directory has no live holder, so a take-over meets one
only where the directory was exchanged after it looked, and that is what `overrun`
records. *UpdatesSurvive*: what a holder read stays current because only a holder
renames, or an overrun one, whose rename marks those it hits.

**AssignmentClaimProofs.** *NeverClaimsTwice* needs that the attempt is saved
before the comment is sent, so an author of a comment has a record with
`attempted`. *LoserNeverOwns*: a record of another's win never changes its
winner. *OwnersCommentStays* and *OneOwner* need the strengthening that is the
heart of the protocol: whoever elected has seen, in a later pass than its own
comment, every comment that may precede its own, so the winner it recorded is
earlier than every live comment; and a removal only ever takes the author's own
losing comment. *LocalStartsUnclaimed*: a comment and an answer have a record in
their installation's state (`Posted`, `Unregistered`), whatever rotates later, so
a local call that found no record was made before either (`LocalInv`), and stays
so while it waits.
*ClaimsAttemptOnce* is the refinement of `AttemptOnce`; it puts `OneComment`
together with the record of every author, which neither a rotation, a recovery
nor the deletion of the comment takes away.

**DispatchJournalProofs.** *ResetIsFinal*: snapshots, plans and working copies
carry the generation they were read under, and a save needs that generation to
be the file's. *OneRecordPerIssue* and *NothingUnretained*: what is written is
what was checked, and a plan whose lease came back with nothing moved has its
originals in the cold store of the same generation. *SessionStays*: a working
copy and a plan keep the session of every record they were given one for
(`SessionInv`), and a plan replaces only what it read. *JournalKeepsItsPromise* is
the refinement of `JournalSpec`, whose table is the file with the retained
originals restored, so that archival and projection are stutters. It needs
`PlanInv`: a plan holds what its transaction may save over what was read
(`Allowed`), and the rename happens only if the file is still that.

**IssueSessionProofs.** *OneSession* and *OneSubmission* hold for any number of
transactions. The invariant `IInv` says that whoever is about to submit wrote the
attempt, that it is in the file, and that nobody has submitted before. It is
preserved because an attempt is only ever written over a record that was seen
without one, which the merge insists on (`Unseen`), and because no merge removes
an attempt (`StatusKept`, `MergeKept`). All other steps are `Modest`: they leave
the other transactions alone, keep attempts and submit nothing.
*CustodyHolds*, *OneAfterTheOther* and *ProgressStays* rest on `KnownInv`: the file
and every snapshot are true of the native session (`Truth`), and a transaction
knows at each place what it read before (`ReadInv`), which has only gone `Since`
from there. So every proposal is true when it is saved and takes nothing back of
its snapshot (`Ahead`); and of two true records the merge makes a true one that is
ahead of the file's (`TurnMerged`, `RecordsMerged`). An assessment needs a
completed investigation in the record (`Valid`), and what is completed there has
replied or failed.
*AttemptsOnce* is the refinement of `AttemptOnce`, step by step: a caller's step
`Submits` one effect or saves, one of the gateway `Happens` or changes none, and
the gateway has only what was submitted (`SubmittedInv`). That a save forgets no
outcome is `Ahead`, that it records none that did not occur is `Custody`.
*OnlyPeopleStrand* needs `Stirred`: `next` finds a session in use because a person
wrote in it or because a turn is in the file. In the second case either the
settings of the record were verified when it was read, and nothing is to be
noted, or they were since, which is a conflict and only makes it busy.

**DeliveryProofs.** *WellFormed* holds with and without feedback events; it needs
that an operation's delivery was made and that whoever goes on to post has a
text (`TypeInv`). *OneAnnouncement* assumes `~Feedback` (with it the run
`delivery_feedback` refutes it). The invariant `OnceInv` is the same for comments
and pull requests: of posted, late and about to be posted there is at most one,
and as long as the mark is not in the file there is none. A mark is written by a
save whose copy had none, and a save commits only over the work it read, so the
file had none either; only the definite rejection of the one request clears it.

**DeliveryTruthProofs.** *OnePullRequest* adds `PushInv`: without overlaps one
operation at most is under way and its copy is the record, so a push that is
under way or late is the pending one, which `Pushable` refuses to follow by
another. *RecordIsTrue* adds `RealInv` (a receipt, a pull request and a pushed
head have their counterpart on GitHub, in the file and in every copy) and
`ShownInv` (what the pull request shows, or will show if it is created late, is
the content of a delivery without an unfinished update). Both assume
`~Feedback`, as does *DeliveryAttemptsOnce*, the refinement of `AttemptOnce`. There
a withdrawal is the hard case: a save may clear a mark only when nothing of it is
posted or late, which is `OnceInv` for the definite rejection; a landing request
is a `Happen` because it was counted as sent when its sender gave it up; and no
save forgets a receipt or a pull request (`LearntStays`), because a copy was
taken of the record as it is in the file and is described anew only before any
attempt.
Two theorems hold with feedback events. *NoSecondPullRequest* (`PullInv`): an event
delivers only to a recorded pull request, so before there is one every operation
is the issue chat's and the argument for `CreationInv` applies; afterwards no
request to create one is left and `ReserveCreation` starts none. *OnlyCopiesRepeat*
(`UncopiedInv`): an event that comes to write its first attempt saves its copy
with it, so as long as there is no copy, whoever posts is the issue chat. The
lemmas on `PostInv` and `CreationInv` are stated apart from `OnceInv` for these two.

**NotificationResetProofs.** *WellFormed*: a run is in the phase of its step.
*NothingTwice*: what was submitted is noted in the record, which a fresh restart
keeps. *NothingCutOff* (`PurgeInv`): the request to archive was sent when there
was no turn; none begins while a reset is retained, and the record is not given
up before the conversation is known to be archived. For the checkout (`CutInv`): a
run past its observation has seen no turn, and one past its listing no unknown
session but a `late` one. *WholeAgain* is about what
may still be carried out late. `TargetInv`: such requests are `Harmless`, that is
an archive takes only what is archived or being replaced, and a reconnection goes
to a live conversation of a schedule being replaced. `SettingInv`: they are
`Timely`, a toggle that would still be carried out being one the reset has yet to
see. `Based` is about the baseline.

**AutomationSyncProofs.** *WellFormed*: a generation of the record is paid for by
an edit of the manifest. *OneJobEnabled*: only the job that the record names is
ever on, every update under way or late is of that job, and the id in the record
is never exchanged; a record without an id finds nothing but disabled jobs, which
it recognises by its pending intent. *OneRun*: the named job never goes back to
an earlier generation. What arms it again for the same one is an update computed
from a job that failed; there is at most one of these, and none once the job has
completed (`Again`, `Rearmed`). *AdmitsTheRecorded*: a firing keeps the job's
revision and a capture-only update changes only its limit, so the job's revision
is one the record knows even when the ledger moved and came back.

The inductive invariants are defined in the proof modules and were checked by TLC
before they were proved. Lemmas state what the helpers preserve.

`CreatedOnce`, `SentOnce` and `OneComment` are no longer properties of a run: the
runs check `ImplementsAttempts`, which implies them, and the theorems about them
(*OneSession*, *OneSubmission*, *NeverClaimsTwice*) carry its proofs.

**Only model-checked**: `WaitsEnd`, `ElectionDecides`, `Ends`, `Converges` and
`Settles`: liveness under fairness is out of the prover's reach. Every other
property of a passing run is a theorem.

## 5. Not modelled

See `components` in `PROJECT.json` for each part. In general: formats, wording and
layout of files and comments, ownership and modes of files, the hosts' own
scheduling, git and vendor tools. Hazards of parts not yet modelled are listed
with the plan's module that is to cover them. Of the modules above:

- NotificationReset: the preview's fingerprint and its confirmation, people who
  type into, pin or archive conversations, pull requests (a reset never touches
  them), the wait for the locks of intake and journal, the Codex adapter. The
  last check for turns and the request to archive a conversation are one step; the
  code awaits between them, but with people left out nothing can begin a turn of
  a managed conversation while a reset is retained.
- AutomationSync: the chats of persistent jobs (their binding is in
  `NotificationReset`), recurring schedules, native safety disables, manual
  runs, reports, display names, the Codex adapter.
- Delivery: linkage of the pull request to the issue and its recipients, retries
  against a previous head, collaborators' pushes, adopted pull requests
  (`bindIssuePullRequest`), people who edit the pull request, the schedule of
  announcement retries and their retained failure codes, replies to comments,
  assessment summaries, the Codex delivery.

## 6. Plan

In this order, most important behaviour first:

1. done: `StateLock`, `AssignmentClaim`, `JournalSpec`/`DispatchJournal`,
   `IssueSession`, with proofs.
2. done: `NotificationReset`, `AutomationSync`, `Delivery`, with proofs.
3. `IntakePass`: passes, their allowance, capacity on merged records, retries;
   composed with the record's life in `IssueSession`.
4. `Retirement`: shared worktrees, reactivation and reclamation.
5. `Intake`: checkpoints and observations across interrupted scans.
6. `OpCache`, `SessionEnrollment`, `ProjectPickup`; compaction of live records
   in `DispatchJournal`.
7. done: theorems for every safety property of the passing runs, the
   refinements of `JournalSpec` and `AttemptOnce`, and bounds on both findings
   (*OnlyPeopleStrand*, *OnlyCopiesRepeat*, *NoSecondPullRequest*).
8. Next: abstract specifications for `AutomationSync` (what a one-time
   automation promises) and for `NotificationReset`, and their refinements.
