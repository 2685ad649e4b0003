# Agent Notifications in TLA+

Agent Notifications (`src/`) shows desktop and webhook notifications for coding agents.
Two kinds of programs share its Go packages: short-lived **hook processes** that a host
(Claude Code, Codex, Qoder, Gemini, Cursor, Copilot, OpenCode, Pi) starts for every event,
and long-lived **service processes** that offer `agent.notify` to an agent over MCP or a
local RPC. Neither kind has a common server: what must be agreed between processes is agreed
through files in a state directory or in the temporary directory. That is where this code is
hard, and that is what the modules here are about.

## The system

| Part | State | Operations | Talks to | What makes it hard |
|---|---|---|---|---|
| Notification journal `internal/agentnotify/journal` | one snapshot file (clock, admission events, records), one lock file | Initialize, Open, Lookup, Admit, FinalizeOutcome, Collect | every service process of a user | crash and power loss between rename and directory sync; retention and quotas over a clock that stops at every reboot |
| Notification service `internal/agentnotify/service.go` | calls inside, closed, drained channel | Notify, Close | journal, policy, capability, delivery port | two processes with one key; deadlines; at most two calls inside; draining |
| Service runtime, MCP, shared RPC `internal/agentnotify/{runtime,mcp,sharedrpc,sharedstate,origin,piauthority}` | bootstrap root, sockets, ready worker | start, serve, stop | service | worker start-up and replacement |
| Hook handler `internal/hooks` | none of its own | HandleHook, handleTeammateIdle | dedup, state, teamstate, webhook, notifier | the host may start several processes for one turn and may kill any of them |
| Deduplication `internal/dedup` | event lock files, content lock file | CheckEarlyDuplicate, AcquireLockWithTTL, ReleaseLock, AcquireContentLock, ReleaseContentLock, Cleanup | hook handler | exclusive creation plus age, no owner in the file |
| Session state `internal/state` | one JSON file per session | UpdateInteractiveTool, UpdateLastNotificationWithIdentity, duplicate and cooldown checks, Cleanup | hook handler | read-modify-write without a lock, in-place write |
| Team state `internal/teamstate` | one JSON file per team, one `flock` file | RecordLeadStopped, RecordTeammateIdle, ClaimAllIdle, Cleanup | hooks of lead and members | two locked sections per hook |
| Webhook sender `internal/webhook` | token bucket, circuit breaker, retries, wait group | SendAsyncWithContext, Shutdown | HTTP endpoint | goroutines between several mutexes |
| Notifier, audio, focus `internal/{notifier,audio,winfocus,warpfocus,linuxcallback,windowscallback}`, `swift-notifier`, `native` | per-process handles | SendDesktop, Close | desktop | platform calls |
| Focus daemon `internal/daemon` | socket, idle timer | start, serve, stop | Linux desktop | start-up race, idle exit |
| Install runtime `internal/installruntime` | ownership ledger, generation fence, redo journal, managed files, native callback bundles, one component lock | Commit (install, remove, policy, reserve, recover, roll back), DiscardNative, WithInstalledLease | installers, setup wizards, hooks that deliver | interruption at every file operation; users edit the managed files; deliveries run over it meanwhile |
| Hook wrapper `bin/hook-wrapper.sh` | claim directory with owner, installer and failure records | claim, retire, finish, back off | hook processes, `install.sh` | shell processes that are killed anywhere and outlive each other; only `mkdir`, `ln` and `rmdir` to agree with |
| Configuration `internal/config` | one document at one of several candidate paths, backups, temporary files, selection guard and target lock | EnsureInitialized, ApplyEdits, ReadDocumentSelection | hooks, setup commands, editors | two orders of locks, external edits, crash and power loss between backup and rename |
| Setup, registration, portable packages `internal/agentnotify/{setup,setupwizard,registration,clientsetup,portable*}` | settings files of the hosts | configure, remove | install runtime, journal | partial configuration |
| Event sources `internal/*source`, `*event`, `*install` | none | decode, install | hook handler | many formats, sequential |
| Analysis `internal/{analyzer,summary}`, `pkg/jsonl` | none | parse, classify | hook handler | sequential |
| OpenCode and Pi plugins (TypeScript) | registry of helper processes | spawn, drop | helper binary | bounded registry |

What makes each of the modelled parts correct:

* **Journal.** An acknowledged admission replays, and is never admitted again, for seven days
  of real time; its logical clock never runs ahead of real time; quotas hold over real time; a
  terminal state belongs to the attempt it was reported for and does not change; no transaction
  leaves a snapshot that the next one refuses to read.
* **Service.** Delivery is tried at most once per attempt and only after durable admission; a
  receipt never claims a status the port did not give, and calls a retry safe only when nothing
  was left behind; Close drains and then nobody is inside.
* **Webhook sender.** The circuit opens on a streak of failures and closes on successful probes,
  whatever the goroutines do; the bucket bounds every interval; a successful shutdown waited.
* **Team completion.** One notification per completion: no report serves two, none is lost.
* **Hook admission.** One attempt per turn at a time, nobody silent but for something the user has
  been shown lately, reservations given back.
* **Install runtime.** An installation is one whole recorded generation or is down on its way to
  one; a decision to change it survives every interruption and is carried out or reversed once,
  into a newer generation; nobody's edit is overwritten unseen; a delivery hands off only into
  the installation it looked at.
* **Hook wrapper.** One installer runs at a time; no cleanup deletes the witness of a living
  installer; whatever dies, a later hook can claim again, but not within the back-off.
* **Configuration.** An edit replaces the revision it was computed from; nothing is created over
  the remains of a lost document; a replaced document stays in a backup; a commit reported as
  done survives a power loss; a hook falls back to defaults only if there was nothing.

## The modules

| Module | Models | Extends |
|---|---|---|
| `JournalOps` | what the transactions compute: the clock's credit, expiry, rate windows, admission, finalization, `validate` | – |
| `JournalStore` | the transactions as steps over a visible and a durable snapshot, with crashes, failed syncs, power loss, reboots and clock faults | `JournalOps` |
| `NotifyService` | `Service.Notify` and `Close` in several processes over one journal | `JournalStore` |
| `IdempotentDelivery` | the abstract promise of the service | – |
| `WebhookSender` | one `Sender` with its goroutines | – |
| `TeamWait` | wait-all hooks of one team | – |
| `HookSession` | hooks of one Claude session, one file operation per step | – |
| `InstallTransaction` | the shared installation: Commit, its redo journal and recovery, deliveries under a lease, edits by others | – |
| `InstallPromise` | the abstract promise of the installation | – |
| `InstallClaim` | hook wrappers and installer children over the claim directory, one file operation per step | – |
| `ConfigStore` | initialization, edits and reads of the configuration document, one file operation per step | – |
| `*Proofs` | theorems about the module of that name (`JournalStore`, `NotifyService`, `TeamWait`, `InstallTransaction`, `ConfigStore`; `SenderProofs` of `WebhookSender`, `HookProofs` of `HookSession`, `ClaimProofs` of `InstallClaim`) | the module proved about, `TLAPS` |
| `MC*` | instances for TLC: small sets, symmetry | the module checked |

Definitions keep the names of the code where they can. Definitions marked *Mutant of X* in a
comment are deliberate mistakes; no specification uses them. They replace X to show that a
property would notice.

### Journal

`visible` is the snapshot every process reads, `durable` another one a power loss may bring back,
`writer` the transaction that has renamed its file and not yet synced the directory. The lock
file makes a transaction exclusive, so all of it up to the rename is one step (`AdmitFresh`,
`AdmitRefused`, `Finalize`, `Collect`), and `SyncOK` or `SyncFail` is another. In between, the
holder may die (`HolderCrash`: the lock is free, readers see the new snapshot, a power loss may
still take it back) or the machine may lose power (`PowerLoss`: a new boot, and the visible
snapshot is either of the two). A transaction that ends without its sync (`EndUnsynced`: a death or a
failed sync) may have reached the disk or not, and the next one starts from either; which of
them it was is chosen there and not at the power loss. A transaction that fails before its rename changes nothing and
is no action.

Real time is in ticks, the clock port answers in whole seconds of the current boot, or (constant
`ClockFails`) not at all, or (constant `ClockRegresses`) behind its own high water, the three cases `advance` knows.
`Credit` is the heart of it: a proven interval between two samples of one boot is credited one
second less than their difference.

Abstractions: keys, sessions, digests and boots are atoms; an attempt is its number; the events
of the rate windows carry key, session and stamp; Initialize is one step; the 64-bit overflow
test of the logical clock is kept against a small `MaxLogical`. Ownership, modes and JSON of the
files are left out.

### Service

A client is a call slot of a process; `pc` follows `Notify` from lookup to receipt, each early
return with the receipt the code gives it (`Refused`, `AdmitError`, `Pending`, `Unfinalized`,
`Delivered`, `Replay`). Preflight (policy, capability, permission, deadline) is a choice of
passing or refusing. A deadline or a lock that is not obtained in time is a choice at the step
that waits. `Close` may come between the two looks at `closed`. Processes crash alone
(`ProcessCrash`) or together with the machine (`MachineCrash`).

Receipts keep what the properties tell apart: status, whether a retry is safe, the reason's
class and the attempt.

### Webhook sender

A request walks limit, gate, execute, attempts, record. A section under one mutex is a step:
the bucket's Allow, each of the two sections of `getState`, `recordSuccess`, `recordFailure`.
The gate in `SendWithContext` reads the state with `GetState`, which does not move an open
circuit to half-open; `Execute` reads it again. Token counts are scaled by the length of a
minute, so the fractional refill is exact. Answers are a choice of success, client error, server error
and cancellation; backoff may last any time. `Requests` are the sends that may be under way at the
same time; a slot is free again when its send has ended, and `MaxSends` bounds how many are started. Each hook process builds one `Sender`
(`hooks.go:137`), so the instances are the sends of one process; a longer-lived owner sees the
same module.

### Team completion

A hook records what it reports in one section under `flock` and claims in a second one. An agent
may report any number of times (`Begin`): the program is not told when it takes up work again. A
TeammateIdle hook asks its filter between the sections; a Stop meets filters, event lock and
content check only after its claim (`Admission`). Either section may fail; a hook may be killed
anywhere. The early duplicate check of TeammateIdle looks for a lock file no hook creates, so it
never holds an event back and is no step. `team` is replaced by a rename under the lock, so a
section is atomic. The configuration of the team is fixed; removal of old temporary files by
the system is left out.

### Hook admission

One hook is one process, one file operation is one step. `locks` holds the modification time of
each lock file: one per kind of event, one per turn for a Stop whose transcript has a readable
turn, and the content lock. `session` is the state file: absent, `Torn` (truncated, or a mixture
of two writes) or a record. `os.WriteFile` is `Open` (truncate) and `Write`; a write into a file
that a cleanup has unlinked is lost (`linked`). `snap` is the state a process has loaded and is
about to save. A process dies at any step (`Kill`) and leaves its files; a hook of the host's
thirty seconds limit is one such death.

The rendered message differs before and after the transcript is flushed (`flushed`), the body
and the turn do not. Time limits are scaled and keep their order: event lock 2 s, content lock
5 s, pending reservation 60 s, cleanup 60 s, window 180 s become 1, 2, 3, 3 and 5 where a
reservation is at work (`hook_delayed`), and 1, 1, 1, 1 and 2 where the window is (`hook_overlap`).

Left out: errors of single file operations and a modification time that cannot be read, so also
the branch of `content.go:59` that goes on without the content lock when creating it fails;
permission requests, subagents, Codex and Qoder, which take other branches of the same policy;
the Ghostty identifier that may be written to the state before the early check; a webhook queued
before the desktop delay, which notes the state earlier. Cleanup reads all ages in one step and
removes in another.

### Install transaction

`Commit` works under the component lock and in fixed order: it decides, writes the decision as a
redo journal, checks that every file is as before or as after, revokes delivery in the fence,
promotes the native bundle, publishes the files one by one, writes the ledger, cleans purged
bundles, writes the final fence and removes the journal. `step` is where the holder of the lock
is, and every one of these durable writes is an action; `Stop` interrupts before any of them.
Whoever locks next finds the journal and replays it (`Resume`), or, for a `rollback`, turns it
into a reversal that becomes the journal (`ToReverse`). A request is staged before the lock is
taken (`Stage`: it reads the files it means to change), so that what it was computed from can be
stale when it is decided. Deliveries observe the installation without the lock (`Observe`) and
hand off under it (`Lease`, `Delivered`). `Edit` is anybody else who writes a managed file.

`InstallPromise` has three steps: undertake a newer generation, go back, arrive. In the refinement
the installation is the ledger, or while a journal is there the ledger it was decided from; the
goal is the ledger the journal leads to.

Abstractions: policy generation and installation generation move together and are one counter;
the config locks a Commit nests in the component lock are left out; a decision reads everything
at once (the lock is held, only edits could come between, and the checks before the publication
look again); files are published in any order instead of sorted; content stands for a
fingerprint. `touched`, `drift` and `origin` are history. Left out: the owner and the schema
version of the ledger, anchors of moved paths, OpenCode's private state, retirement of bundles by
age, relocation and repair of the cache, orphan recovery, the reservation's intent file, the
blobs of the journal, power loss, and the branch of `transaction.go:899` that discards a candidate
with the bytes of the installed bundle: a staged candidate is always a new bundle here.

### Install claim

A hook that finds no binary claims the directory `active`, starts the installer in a child, waits,
and writes the result. A directory has an inode of its own: a wrapper that has entered it works
on in that inode when the name belongs to another one, which is what `rmdir` and `mkdir` of other
wrappers make of it. Each look, `mkdir`, `ln`, `unlink`, `rmdir` is a step, in the order of
`claim_install`, `retire_backoff`, `cleanup_backoff_records` and `finish_install_claim`; every
wrapper and child may die at each of them. `old` stands for the age of a directory against the
back-off of 300 s; it is set by `Age` and reset by every change of an entry.

Abstractions: a pid with its birth time is a process; the subshell of a look dies with its
wrapper; entering a directory and looking whether it still has the name are one step, and so are the
two looks for a failure and for a living owner (`hook-wrapper.sh:379`), and the comparison of a
witness with its removal (`hook-wrapper.sh:387`); a lookup that loses the race of
`hook-wrapper.sh:438` tries again where the script gives the claim up; how long a
hook waits for a child is a free choice; `install.sh` has a lock of its own and is external, as
are the report of a failure, its stamps, and the version cache. A claim left by earlier versions
(a link or unknown entries) and errors of single commands are left out. With `HostLimit` a host
ends every hook well within the 300 seconds.

### Configuration

A mutation resolves the path before any lock, takes the selection guard in the home directory,
resolves again, takes the lock of the target, and resolves a third time; then it commits: compare,
backup, sync, temporary file, compare, rename, sync. A process whose home cannot be locked and
which names its path does without the guard (`guarded`). Each of these is a step, and `Expire` ends
a call wherever the code looks at its deadline. `likely` and `synced` hold what a power loss may
bring back: both outcomes of each operation on the directory since its last sync. A hook's
resolution is two steps for each candidate, the look for the entry and the listing of its
directory, since other processes come between; a mutation looks at everything in one step, also
where it has no lock yet, since the selection that decides is made under the lock. Once the
document is renamed, its temporary entry is gone for good: a power loss before the sync of the
directory (`store.go:457`) brings back the old document, not the entry beside it.

`Evidence` is a temporary file or a backup beside a path: with the document missing it means
`ConfigRecoveryRequired`, for everybody. `raced` marks a writer whose document was changed past
its locks since it compared; the documents it overwrites then are not held against the store.

Abstractions: a document is an atom and equal documents are the same revision; `Broken` are those
the parser or `Effective` refuses; what CheckHistorical finds and whether an import is valid are
free choices; releasing both locks is one step. Left out: the Windows store, checks of owners,
modes and links, a parent directory that is replaced, migrations, `setup_prepare`, managed edits of
OpenCode, a discard that fails, and people who clear artifacts away.

## What is checked

Each run asks one question of a component; the properties of a run share its instance.

| Run | States | Shows |
|---|---|---|
| `journal_clock` | 0.8 M | two keys, a journal of one record, retention of a second, two boots, Collect, a clock that may regress: `LogicalNeverAhead`, `NoSelfRepair`, `TerminalIsOwn` |
| `journal_rates` | 1.6 M | three keys of two sessions, reboots and missing samples: `Remembered`; `QuotaHolds`: no window of real time holds more acknowledged admissions than its policy; `RateRefusalRebaselines` without Collect |
| `service` | 0.1 M | three calls of one process at its limit of two, two payloads, deaths, failed syncs and Close: `DrainedMeansQuiet`, `CloseDrains` under fairness |
| `service_retention` | 1.1 M | two processes, two keys and two statuses over one journal whose records expire and are admitted again, with crashes and a power loss: the service implements `IdempotentDelivery` (`KeepsPromise`), so no key is sent again before its retention has passed; `AtMostOnce`, `ReceiptsTruthful`, `RetrySafeIsSafe`, `ToldIsStable` |
| `webhook` | 1.5 M | five sends, three at a time, thresholds of two, with retries, cancellation and shutdown: `OpensOnStreak`, `ClosesOnProbes`, `BucketBound` over every interval, `DrainedMeansDone` |
| `team_wait` | 0.2 M | three hooks, two members: `ClaimCoversAll`, `NoLostCompletion` |
| `hook_delayed` | 0.4 M | four hooks of one delayed Stop, three at a time: `PendingReserves`, `UndeliveredReleases` |
| `hook_overlap` | 2.8 M | three hooks, two at a time, past the window and the cleanup of the state file, with kills: `SilentOnlyAfterShown` |
| `install_upgrade` | 3.0 M | two writers install, upgrade, enable, recover and roll back, a delivery, one edit, one interruption: `SettledIsWhole`, `EnabledIsWhole`, `HandoffFenced`, `EditsKept`, `UndoneIsAsBefore` |
| `install_lifecycle` | 3.0 M | two writers publish and purge bundles, disable, reserve and clear, with two interruptions: `Replayable`, `ReservationSticks`, `KeepsPromise` |
| `install_claim` | 0.7 M | three wrappers with their installers, deaths anywhere: `OneInstaller`, `WitnessStands`, `NeverStuck`, `BackoffKept` |
| `config_store` | 1.6 M | two writers, one past the guard, a hook, an external edit, a death or power loss: `Swap`, `CreatesFresh`, `OldKept`, `DoneStays`, `NoFalseAlarm`, `DefaultsMeanMissing` |

`SilentOnlyAfterShown` is the half of deduplication that holds unconditionally: a hook is called a
duplicate, or a question is dropped, only for something that was delivered, or was being noted as
delivered, within the window or the cooldown. That every replay is called one cannot be promised: hooks that
overlap lose each other's notes, and the cleanup removes the state inside the window (see below).
`OpensOnStreak` leaves out streaks with a client error, of which code and documentation say different
things. The type invariants are proved, where a module has proofs, and are no property of its runs.

### Observations

Consequences of the same definitions that no run is kept for. Where a small change of an
instance shows one, it is named.

* `Collect` and rate refusals: the rate filter compacts `d.Events` in place (`journal.go:358`);
  when the refusal is persisted all the same, for a new boot baseline, live events are doubled
  and `validate` refuses the snapshot. `RateRefusalRebaselines` fails in `journal_rates` with
  `CollectCalled = TRUE` and `MaxTicks = 8`; no production code calls Collect today.
* Regressed samples: an admission stamped under a sample behind the high water is credited the
  whole interval at recovery, so its quota refills early, and its record expires early, against
  `journal.go:255`. `QuotaHolds` and `Remembered` fail in `journal_rates` with
  `ClockRegresses = TRUE`, windows and retention of a second and four attempts.
* The breaker counts 4xx answers as failures (`circuitbreaker.go:64`); `docs/webhooks/configuration.md:237`
  says they do not count, but for 429. `Record` takes no notice of the kind of error, so `OpensOnStreak`
  fails in `webhook` without `NoClientError`, when client errors are no failures.
* The bucket starts full and refills, so a minute may admit almost twice `requestsPerMinute`
  (`ratelimiter.go:24` calls it a maximum per minute). `BucketBound` is what it does bound.
* A lead that stops in the very second of the previous claim blocks the completion in every
  later second too (`teamstate.go:288`): `NoLostCompletion` without its conjunct on the stamps
  fails.
* A member that has gone back to work still counts as idle: `idle` is cleared by a claim only.
* Two processes that find one event lock stale both replace it (`dedup.go:115`): `Replace` removes
  whatever has the name by then.
* A question suppressed by a cooldown leaves its event lock behind, though `hooks.go:429` and
  `hooks.go:444` expect a deferred release: only a delayed Stop defers one (`hooks.go:388`). The lock is stale
  after two seconds.
* An interactive tool's unlocked write of the state undoes, or tears, a completion noted meanwhile
  (`state.go:113`): with two processes a question passes the cooldown it should meet.
* The content lock is released before anything is noted (`content.go:157`), so Stop and
  Notification of one turn can both pass the check.
* The gate of the sender asks the breaker's state with `GetState` (`webhook.go:135`), which never
  turns an open circuit half-open, and returns before `Execute` would: once open, the circuit lets
  no send of that `Sender` through. `docs/webhooks/configuration.md:207` says it tries again after
  the timeout. Each hook process makes a `Sender` of its own, so today a process that lives longer
  than the timeout would be needed to notice.
* A state file of sixty seconds is removed at the end of a hook (`hooks.go:488`), though the
  duplicate window is three minutes (`content.go:79`): a replay in between is delivered again. In
  `hook_overlap` a turn can be delivered, swept and delivered again within its window.
* A kill inside the write of the state leaves it torn (`state.go:79`): until it is cleaned up nothing is
  noted and every replay is delivered.
* A lead's Stop claims the completion before its filters are asked (`claude_policy.go:78`, against
  `hooks.go:356` and `claude_policy.go:185`): when they suppress it, nobody is told.
* A content lock that is released between the failed creation and the look at its age gives age -1,
  which passes for stale (`dedup.go:168`); the next hook's fresh lock is then removed and two
  processes are in the check that `content.go:50` means for one.
* An edit of a managed file between the decision and its replay refuses the replay and the
  reversal alike (`transaction.go:1158`): the installation stays pending until the file is put back.
  Uninstalling with a managed file the user has deleted is refused (`transaction.go:793`).
* The journal's blobs are unlinked before the removal of the marker is synced
  (`transaction.go:1268`): a power loss that brings the marker back finds a corrupt transaction. An
  error in that last step reports the failure of a transaction that is committed.
* A wrapper that stalls between `mkdir` and `ln` (`hook-wrapper.sh:454`) for longer than the back-off
  can link its record into a directory that holds only the witness of another hook's living
  installer. Its own child gives up, but its `finish_install_claim` then retires the directory with
  its own claim and deletes that witness. `WitnessStands` fails in `install_claim` without `HostLimit`,
  and, without its conjunct on `installed`, with it.
* The look of the installer child at its claim (`hook-wrapper.sh:171`) is not needed for these
  properties: without it they hold as well.
* A document somebody writes between the last comparison and the rename is overwritten
  (`store.go:457`); `Swap` allows exactly that, and the backup then holds the compared one.
* An `init` that is killed between its temporary file and the rename leaves evidence that keeps
  the configuration from being created, and hooks from falling back to defaults, until a person
  removes it; a hook that reads during an `init` gets the same `ConfigRecoveryRequired`.
* Moving the document from one candidate to the other during a hook's read can yield defaults:
  each was missing when it was looked at.
* Opening a journal whose bootstrap was interrupted between its namespace file and the first
  snapshot fails for ever, for Open and Initialize alike (`storage_unix.go:311`).

### Bounds

Every bound is a named constant. `MaxTicks`, `MaxTime`, `MaxBoots`, `MaxAttempts`, `MaxFinals`,
`MaxLogical` stop time, reboots, admissions, finalizations and the clock; `MaxGen`, `MaxEdits` and
`MaxStops` requests by generation, edits by others and interruptions; `MaxCalls` the calls of the
configuration store; `Rounds` the attempts of one claim, which the script bounds too.

* Journal: two keys suffice for a record that takes another's place, three for events of two
  sessions in one window; two boots make one reboot with everything before and after it; five or
  six ticks of half a second are up to three seconds, longer than retention or window, so that
  records expire and quotas refill with all roundings.
* Service: `service` has three calls of one process at the code's limit of two, so that two are inside,
  the third is refused, either may be the last to leave and all of them meet Close; no time passes
  and the machine stays up, since draining depends on neither. `service_retention` has two calls in two
  processes, where all they share is the journal. Retention is one second of logical time, which takes
  two ticks to be proven; with two ticks records expire, a key is admitted a second time and a
  finalization may come after its record was replaced. Two statuses tell a wrong receipt from a
  right one, and two finalizations are those of two attempts. The clock port always answers there;
  its failures are in the journal's runs.
* Webhook: both thresholds are two, so that there are streaks of failures and of probes, also broken and
  begun anew; five sends are two that open the circuit, two probes that close it, and one that
  began before either; a bucket of three is emptied and refilled. `Timeout` is one tick, a
  minute and the time modelled are two.
* Team: two members leave "some" and "all" apart; three hooks allow a lead and both members at
  once; four seconds make equal and different stamps on both sides of a claim.
* Hooks: two processes make the race of a check and a release; three are needed where one waits,
  one replays and one has been killed. The replay carries the same body and may be classified as a
  question. `hook_overlap` has a completion and a question of its turn; its four seconds are above the
  window of two, which is above the cleanup age of one, and its cooldowns are one and two; a
  third hook comes after two that overlapped. `MaxHooks` bounds the hooks started. `PendingReserves` is checked for as long as a reservation
  lives: an attempt that outlives its minute is replaced by design.
* Install transaction: two writers make one interrupt and another replay, or both stage before
  either decides; three generations are a first install, what follows it and its reversal; two
  assets make a half published set. Bundles, reservations and edits are in different menus since
  they meet in `Commit` only through the journal.
* Install claim: with three wrappers one stalls, one holds and one cleans up; four inodes are one
  for each of them and one more. Two rounds are a claim that finds something in its way and its
  second attempt.
* Configuration: two writers on the two candidates, with two calls between them, make every race
  of a creation or an edit with another; a document to be changed and one it is changed to are
  enough to tell old from new. One edit and one stop come at any moment; what somebody else
  writes is `Foreign`, here the document that was there first, which is the edit that a comparison
  of revisions cannot tell from no edit at all.

Processes, requests, members and keys that no constant tells apart are symmetric; no liveness
property is checked under symmetry. `CHECK_DEADLOCK FALSE` stands where the bounds, or the end
of the program's work, stop the system.

### Fairness

Only `CloseDrains` is a liveness property. It assumes weak fairness of the steps of each call
(`CallStep`), not of crashes, of Close or of time. The code justifies it: a call waits only
under a deadline (the lock is polled until the context ends, finalization has one second, ports
run under the call's context), so every wait ends in a step, whatever the outcome. The abstract
choice between success and failure is left open: no outcome is assumed.

The safety runs need no fairness. Delivery itself cannot be promised: the program may be killed.

## What is proved

Checked by TLAPS for every value of the constants that satisfies the modules' assumptions.

`JournalProofs`:

* `StoreTypeCorrect`: `StoreSpec => []StoreTypeOK`. `TypeInv` adds that the boot began in the
  past and that an admission in flight is the newest one.
* `ClockNeverAhead`: `LogicalNeverAhead`, of any clock. `PaceInv` is `Paced` with nothing
  to start from (`Sure`): the logical time of each snapshot is covered by the real time, with the
  uncertainty of its last sample counted in (`PaceAdvance`, shared with the next theorem).
* `TerminalsAreOwn` and `TerminalsAreFinal`: `TerminalIsOwn`, and the action property
  `TerminalIsFinal`. `RecordInv` says that every record is the admission it names (`OwnRecord`) and
  that the visible and the durable snapshot do not contradict each other over an attempt (`Agreed`).
* `JournalRemembers`: `Remembered` always holds, assuming `~ClockRegresses` (the boot's monotonic
  clock does not go back). `Remembered` is not inductive: it says nothing of when a record may
  expire. `MemoryInv` supplies it for each acknowledged attempt, in both snapshots: the record
  is there with its stamp or its logical age has reached the retention (`Kept`), and that age
  never exceeds the real one, with the uncertainty of the last sample counted in (`Paced`). The
  arithmetic is in `CreditArithmetic`: the second given up at each interval pays for the rounding of
  both its ends. Boots are numbered upward (`BootsKnown`), so a snapshot of an earlier boot is
  never taken for the present one. The lemma `MemoryNext` has one step per action; admission is the
  long one, since it credits, expires, adds and refuses in one transaction. The assumption is
  needed: under a regressing clock an admission may be stamped too early (see Observations), and
  then its record expires early too.
* `NeverRepairsItself`: `NoSelfRepair`, of any clock. `HealthyInv` says that both snapshots pass
  `validate`; what a transaction computes then passes it too (`AdmittedValid`, `RebaselinedValid`,
  `FinalizedValid`). `LivePart`, `LiveClasses` and `LiveMatched` carry the order of the events, their
  counts per session and their match with records over the cut that drops the stale ones.
* `RateRefusalsRebaseline`: `RateRefusalRebaselines`, assuming `~CollectCalled`. `CompactInv`: without
  Collect both snapshots hold no stale event of their own clock, so the compaction in place moves
  nothing. With Collect the property is false (see Observations); nothing in the program calls it.
* `QuotasHold`: `QuotaHolds`, assuming `~ClockRegresses`. `QuotaInv` is that property for an admission
  in flight as well. An admission acknowledged in the last window of real time still has its record
  (`RecentKept`, from `MemoryInv`), and by `HealthyInv` that record has a live event of its own: so the
  admissions of the window are mapped one to one to the events an admission counts
  (`RecentCounted`), and what it then lets through is within the policy (`QuotaAdmitted`).

`ServiceProofs`, for any set of clients that is finite, any processes and limits:

* `DrainedQuiet`: `DrainedMeansQuiet`. The invariant `Shape` counts: `active` of a process is the number
  of its calls inside, so the last one to leave is known to be the last.
* `ServiceTypeCorrect`: `ServiceSpec => []ServiceTypeOK`.
* `ServiceUsesJournal`: `ServiceSpec => StoreSpec`. Every step of the service is a step of the journal or
  leaves it alone, so the theorems of `JournalProofs` hold under the service and are used in what
  follows.
* `SentAtMostOnce`: `AtMostOnce`. `SendInv` ties a call about to deliver to an acknowledged attempt
  of its own that nobody has handed over (`Unsent`), different from that of every other call.
* `TruthfulReceipts` and `SafeRetries`: `ReceiptsTruthful` and `RetrySafeIsSafe`. `Honest` follows a status
  from the port through the call and through the records of both snapshots to the receipts.
* `ToldStable`: `ToldIsStable`. `ToldInv` says that what was told is durable already.
* `NoResendEarly` and `ServiceKeepsPromise`: `NoEarlyResend`, and `ServiceSpec => KeepsPromise`, the
  refinement of `IdempotentDelivery`, both assuming `~ClockRegresses`. `Promising` adds to the above that
  acknowledged admissions of a key are a retention apart (`Spaced`, a consequence of `Remembered`: while
  the record is kept, a second admission is a replay). Each step is then an acknowledgement, a
  hand-over, an abandonment or a stutter (`PromiseStep`).

`TeamProofs`, for any set of members, any number of hooks and any time:

* `TeamTypeCorrect`: `TeamSpec => []TeamTypeOK`.
* `TeamClaimsCovered`: `ClaimCoversAll`. The invariant is `Founded`: whoever the file shows idle or
  stopped has reported since the last claim.
* `TeamCompletionKept`: `[]NoLostCompletion`. The invariant is `Attended`: while a completion can be
  claimed and no report was given up, some hook stands between its two sections.

`InstallProofs`, for any paths, requests, writers and deliveries, and any number of interruptions:

* `InstallTypeCorrect`, `InstallSettled`, `InstallEnabled`, `InstallHandoff`: the type invariant,
  `SettledIsWhole`, `EnabledIsWhole` and `HandoffFenced` always hold. They are proved together:
  `InstallInv` adds to them what each step of a replay has already done (`Progress`), that the ledger
  counts up from the fence (`Grounded`), and what a decision, written or not, claims about the
  files and the bundle it starts from and leads to (`Decisions`). A decision is sound when it is
  made (`DecisionSound`, `ReversalSound`), and stays so since only its own replay changes what it
  speaks of, edits excepted.
* `InstallReplayable`: `Replayable`. The layer above, `Replaying`, follows each staged candidate
  until it is published or discarded, and the bundle a journal needs until it is promoted.
* `InstallCallbacks`: the action property `CallbacksKept`, that a published callback bundle disappears only
  with an explicit purge by the last consumer. `Purging` ties the pending decision to the request it was
  made for, through replays by others and reversals, which never purge.
* `InstallEditsKept`, `InstallUndone`, `InstallReservation`: the action properties `EditsKept`,
  `UndoneIsAsBefore` and `ReservationSticks`. `Traced` says what the pending decision owes to the request it
  came from: that it keeps the reservation it found or was allowed to clear it, that it captured what
  others had written to its files from what its request saw (`Honours`), and that a reversal takes
  back all of it (`Restores`). `Published` says that files the holder is done with are as it left them.
  A decision has this from the comparisons in Commit (`DecisionHonours`), a reversal from the decision it
  reverses (`ReversalHonours`), and neither loses it to other processes that replay it.
* `InstallKeepsPromise`: `InstallSpec => KeepsPromise`. `Promised` says how the journal's two ledgers
  relate; then each action is an undertaking, a reversal, an arrival or a stutter (`PromiseStep`).

`ConfigProofs`, for any processes, paths, documents and calls, with deaths and power losses anywhere:

* `ConfigTypeCorrect`: `ConfigSpec => []ConfigTypeOK`.
* `OldIsKept`, `DoneIsDone`, `EvidenceIsTrue`, `SwapCorrect`, `CreationIsFresh`: `OldKept`, `DoneStays`,
  `NoFalseAlarm` and the action properties `Swap` and `CreatesFresh`. `StoreInv` adds what makes them
  inductive: which step holds which lock, that what a writer has compared is still there unless somebody
  went past its locks (`raced`), that every temporary file has its writer, and what of all this the disk
  is sure to keep (`likely`, `synced`).
* `DefaultsAreTrue`: `DefaultsMeanMissing`. `ReadInv` says of each candidate a hook has passed by that it
  was missing at some moment of the read, or has left remains that the hook will meet, or is a
  document nobody is about to create.

`SenderProofs`, for any finite set of requests, any capacity, thresholds and times:

* `SenderTypeCorrect`: `SenderSpec => []SenderTypeOK`.
* `ShutdownWaits`: `DrainedMeansDone`. `GroupInv` says that the wait group counts the requests that are
  started and not done, so that zero means all of them.
* `BucketBounds`: `BucketBound`. `BucketInv` counts what was let through since any request against the
  tokens that are left and the refills since then (`Paid`).
* `OpensOnlyOnStreak` and `ClosesOnlyOnProbes`: `OpensOnStreak` (streaks with client errors left out) and
  `ClosesOnProbes`. In `BreakerInv`
  the breaker's two counters are lengths of streaks that end what has been recorded (`Streak`).

`HookProofs`, for any events, hooks and time limits in the order of the code (event lock below reservation,
reservation not above cleanup), with kills at every step:

* `HookTypeCorrect`: `HookSpec => []HookTypeOK`: what the files and the processes hold, and that a hook
  in its delivery has judged its event new.
* `TurnReserved`: `PendingReserves`, while `Fresh` holds: no lock of a delayed turn is as old as
  `pendingLockTTL`. `Reserved` says that a hook past its event lock has that lock on disk and is alone
  with it, that nobody is about to replace it, and that no cleanup has marked it. The assumption is needed:
  two hooks that find the same stale lock both remove it by name, the second one the lock the
  first has just made.
* `TurnReleased`: `UndeliveredReleases`, without that assumption. `Answered`: the lock of a delayed turn
  belongs to a hook at work, or to a killed one, or something of the turn has been delivered.
* `SilenceJustified`: the action property `SilentOnlyAfterShown`, for hooks that overlap in any way and
  cleanups at any time. `Backed` says that what the state file says was noted has been shown, and not
  before, and says the same of every state a hook has loaded and is about to write over it
  (`Backs`), however old: so a lost update brings back only what was true.

`ClaimProofs`, for any hooks, directories and rounds, with deaths of wrappers and installers at every
step:

* `ClaimTypeCorrect`: `ClaimSpec => []ClaimTypeOK`. `Shape` adds where a process of each kind may be, and
  that a record was written by the process it names.
* `WitnessKept`, `InstallsAlone`, `ClaimedAgain`, `BacksOff`: `WitnessStands`, `OneInstaller`, `NeverStuck`
  and the action property `BackoffKept`, all assuming `HostLimit`. None of them is inductive: what a step
  does to the directory depends on who has entered it under which name. `Inv` says that the directory
  of a living owner is young, that nobody who found it dead is at work in it, and that no other hook's
  child is inside (`Trusted`); the same of a directory that somebody is about to claim (`Entering`);
  that the witness stands as long as its child (`Standing`); that a witness noted for deletion is
  that of a dead child when it comes to that (`Finding`); that a failure is that of an owner whose
  child is gone, and is cleaned up only when its directory is old (`Failed`, `Cleaning`, `Cooled`).
  There is one lemma per action. Once the binary is in place all of it is history, and what remains is
  that no failure is reported (`Over`). The assumption is needed (see Observations).

The assumptions are `StoreAssumption`, `ServiceAssumption`, `TeamAssumption`, `InstallAssumption`,
`ConfigAssumption`, `SenderAssumption`, `HookAssumption` and `ClaimAssumption` of the modules: sets and bounds of the right kind, and no more.

Every invariant and action property and every refinement that a run checks is proved, some under an
assumption named above. What is only model-checked is `CloseDrains`, the liveness of Close: it needs
fairness and ENABLED, which are out of the prover's reach.

## What is not modelled, and the plan

1. **More behaviour.** The bootstrap of the journal (`storage_unix.go:303`) with interruptions
   between its files and what Open and Initialize then do; the focus daemon's socket and idle exit;
   the shared worker in front of the service; the intents of setup and registration.
2. **More of what is there.** Power loss, retirement by age and orphan recovery in
   `InstallTransaction`; Codex and Qoder policies and permission requests in `HookSession`; team
   configuration that changes; the Windows store of the configuration.
3. **More proofs.** With each new part its type invariant and the invariant its hazards call for; that a
   `ServiceSpec` without regressing clocks keeps the quotas follows from `ServiceUsesJournal` and
   `QuotasHold` and can be stated.

Not planned: formats and decoders, transcript analysis and the values inside the configuration, which are
sequential and covered by unit tests; the notifier, audio and native helpers, whose behaviour is the
platform's; installers' dialogues, assets, website and release tooling.
