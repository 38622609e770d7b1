# A verification project for letcode

letcode is a coding agent for the terminal, written in Rust: sessions with a
model that calls tools, delegates work to subagents, and keeps everything in
append-only transcripts. This directory holds TLA+ modules of the parts whose
correctness depends on interleavings, failures and the order of steps, TLC
configurations that check them, and theorems that TLAPS proves about them.

Run from this directory:

    tlc -config MCPoolLocks.cfg MCSubagentPool     # one of the runs below
    tlapm SubagentPool_proofs.tla                  # the proofs of a module

Paths below are those of the repository.

## 1. The system

### Components

| Component | Keeps | Operations | Interacts with |
| --- | --- | --- | --- |
| Session engine `src/session/engine.rs`, `engine/control.rs`, `runner.rs`, `coordinator.rs` | the current turn, deferred, parked and boundary commands, pending background deliveries | run a turn, handle commands during a turn, cancel, continue with a background result | agent loop (polls its future), pool (claims, completions), transcript |
| Agent loop `src/agent.rs`, `src/agent/` | history, prepared request, active epoch | request, stream, run tools in parallel, compact the history | model runtime, tools, permission, historian |
| Subagent pool `src/subagent/pool.rs` | `SubagentPoolState` behind one mutex: slots of active runs, results, claims | `start_run`, `activate`, `cancel_run`, `complete_started_run`, `wait_for_result` | parent's and child's transcripts, delegation, engine |
| Swarm messages `src/subagent/messaging.rs`, `swarm.rs` | mailboxes, waking owners, restored scopes | send, wake, settle, stop, close | pool, engine, transcripts |
| Delegation `src/tool/delegation.rs` | the path scope of each subagent | parse a request, narrow or inherit a scope, decide about a path | pool (locks), every file tool |
| Transcript `src/transcript/` | one JSONL file per session, a writer lock, projections | append, append a transaction, repair, read, project | everything that persists |
| Session archive `src/session/archive.rs` | compressed families beside the live ones, an index | archive pass, restore, cleanup, delete | transcripts, artifacts, resume |
| Lifecycle and restore `src/session/lifecycle.rs`, `restore.rs` | nothing of their own | open, replace, resume, end interrupted turns | archive, transcript, pool |
| History and historian `src/agent/history_runtime.rs`, `src/session/historian.rs`, `src/context_history.rs` | publications and the applied history | summarise in the background, publish, apply | transcript, agent loop |
| Tools `src/tool*`, `src/mcp.rs`, `src/process_tree.rs` | processes, MCP connections | read, edit, run, call | permission, scopes |
| Permission `src/permission.rs` | rules and grants | decide about a call | tools, engine |
| Request building, model runtime | budgets, provider state | build, send, stream, retry | agent loop |
| Project memory, evidence, workflow state, context tree | facts, notes, todos | record, render | transcript, requests |
| ACP server, terminal interface, CLI | views | translate events and commands | engine |
| Configuration, skills, updater, tracing | files | load, save, send | all |

`PROJECT.json` lists them with what is modelled of each and why the rest is not.

### What is hard

* **Concurrency without a scheduler to rely on.** Every run is a task; the
  parent, its tool calls, `agent__wait`, cancellation and completion meet in
  the pool's mutex, which is taken and released many times per run. State read
  under one acquisition is used after the next.
* **Tasks that disappear.** A turn that is interrupted drops its futures where
  they await; what remains is done by destructors.
* **Appends that fail.** A record may be in the file although the caller is
  told it is not, or torn; the recorder then refuses everything and gives up
  the lock, and somebody else opens the file.
* **Several processes on one directory.** Two instances may resume, archive and
  clean up the same family of sessions, with only advisory locks between them,
  and either may be killed anywhere.
* **Commands in four queues.** What a frontend sends waits in a channel and in three
  queues of the engine's loop, each with its own rule of who may overtake whom,
  while cancellations and interrupts withdraw from all of them.
* **Summaries made beside the conversation.** A historian task writes to the same
  transcript as the loop that planned it, may be cancelled too late, and fails
  for reasons that a shorter prefix cures or does not.
* **Rights along a chain.** Scopes are narrowed by delegation, inherited by
  default and rebuilt from transcripts when a member is woken.

### What makes each component correct

* Delegation: rights only narrow; a lock covers everything its holder may write.
* Pool: locks exclude; one run per child; no cancellation is lost; a published
  result agrees with both transcripts and does not change; it outlives the process,
  and after a resume no run of the interrupted turn seems to go on.
* Delivery: each background result reaches the session once.
* Swarm: every queue of messages has one owner that will look at it; wakes and runs
  together respect the capacity; a stop reaches the whole subtree.
* Engine: prompts start in the order they were sent, under the settings asked for
  before them; what was withdrawn never starts; nothing is forgotten (with the exceptions under Findings).
* History: each message of the branch is raw or replaced exactly once; a session under
  pressure gets room; attempts are bounded.
* Transcript: the file stays parseable, one writer continues where it ends,
  nothing that was reported as durable is lost.
* Archive: no record or artifact is lost, no transcript disappears under its
  writer, a resumed session has its whole family, a deleted one stays deleted.

The hazards behind these, each at its line, are listed under `hazards` in
`PROJECT.json`, the ones without a property included.

## 2. The modules

    PathScope           paths, scopes, locks (operators only)
      DelegatedScopes     a tree of members that delegate and are resumed
      SubagentPool        the life of runs           implements  RunTable
    RunTable            slots, results, each settled once
      ResultDelivery      RunTable's steps, with the engine and agent__wait
    SwarmMessaging      mailboxes, wakes and stops over the life of runs
    EngineCommands      the command queues of the engine's loop
    HistoryPublication  summaries made, published and applied
    TranscriptJournal   one transcript file          implements  DurableLog
    SessionArchive      one family of sessions       implements  SessionStore

`MC*.tla` and `MC*.cfg` give the constants values; `*_proofs.tla` hold theorems.
`SwarmMessaging` keeps the pool's runs to the phases that messages tell apart (a member
has one slot at most), so that a chain of members stays checkable; what the
slots themselves guarantee is `SubagentPool`'s. Operators under a comment that
begins with "Fault:" are not part of the
specifications: each is the form that a definition would have after a plausible
mistake, and shows which property notices it (`mutants` in `PROJECT.json`).

### PathScope and DelegatedScopes (`tool/delegation.rs`, `subagent/pool.rs`, `subagent/messaging.rs`)

A path is the sequence of its components, a scope is the three lists of
`SubagentPathScope` and a lock is a `RunPathAccess`. `PermitsRead`,
`PermitsWrite`, `Narrow`, `Inherit`, `RunPathAccess`, `Conflict` and `Unlocked`
are the functions of those names. `DelegatedScopes` puts them to work:
`Delegate` is `start_run`'s admission by a running member or the root,
`TakeOver` a fresh run in a finished member, `Resume` the waking of a member
whose parent may be gone (`restored_member_scope`), `Finish` the end of a run.

### RunTable and SubagentPool (`subagent/pool.rs`)

`RunTable` is what the rest of the program may believe: a run takes a slot once,
gives it up without a result if it never started, or settles a result that then
stays as long as the process lives. `SubagentPool` is the code: `pc[r]` says where the task of run `r` is, and
each step is one critical section, one append or one poll:

| Code | Steps |
| --- | --- |
| `reserve_governed_run` | `Reserve` (locks and the takeover check are in its guard) |
| `start_run` | `List`, `Setup` or `SetupFails`/`SetupRefused`, `RecordStart` or `RecordStartFails`, `AbortChild`, `AbortParent` |
| `RunReservation::activate`, `drop` | `Activate`, `DropReservation` |
| `cancel_run`, `cancel_active_run_ids` | `CancelRun`, `CancelActive` |
| the `select!` of `complete_started_run` | `Poll`, `Touch`, `LogChange`, `LogUnnamed`, `LogChangeFails`, `Yield`, `EndExecution` |
| the rest of `complete_started_run` | `CheckChanges` or `CheckUnread`, `RecordChild`, `RecordParent`, `RecordParentFails`, `AmendChild`, `Complete`, `Release` |
| `ActiveRunGuard::drop` | `DropRun` |
| a turn ends and another begins | `NextTurn` |
| the process dies | `Die` |
| `prepare_resume_package`, `interrupt.rs` | `Recover`, `Resumed` |

The transcripts are reduced to what is read back from them. An append fails in
each of the ways the recorder can fail: nothing written, a torn line, or the
whole record with a failed sync. The child's recorder is the writer lock of its
file, so a takeover meets the recorder of the run before it.

What a run changed and what the pool can know of it are two things. `touched` are the files
that its tools changed, `recording` the one whose record is still to follow, `logged` what
the records name (`NamePath`). A tool that fails after it changed something is recorded without the file
(`LogUnnamed`), an append may fail (`LogChangeFails`), and at the end the log of the whole child is compared
with the lock (`CheckChanges`), or an empty list when it cannot be read (`CheckUnread`:
the file is torn, or the read fails; see Findings). `unaudited` is a history: the changes that no record
names, or all of them after a comparison with nothing. Changes made by shell commands, which
no record names either, are not in `touched`.

A death takes the pool, the tasks and the recorders with it at any moment; a child's file
may then end in a partial line, which a takeover of that child refuses. The resume ends
the unfinished runs of the turn that was cut short, one append after the other, and
may itself be cut short by another death; it is modelled in place, without the archive's
part of it. `current` holds the runs recorded as started in the active turn,
`old` those that were still running when theirs ended, and `told` those that were
published while the parent's recorder worked; the last two are histories for the properties.

### ResultDelivery (`session/subagent_delegate.rs`, `session/engine.rs`, `subagent/pool.rs`)

It takes the table's steps from `RunTable` and adds the task that posts a
completion (`Announce`, `Launch`, `Post`), the engine or, for a swarm member,
its own queue (`Observe`), and the calls of `agent__wait` step by step:
`Claim`, the two reads of `wait_for_result` (`Look`, `LookActive`), the
registration for the notification (`Register`), the sleep (`Wake`), and
`ReturnResult`, `ReturnNothing` or `Interrupt`. `RootRuns`
are delegated by the root session, whose engine takes completions while its own
waiters sleep; the others by a swarm member, which takes them at the boundaries of
its turn (`BetweenPolls`). The root may wait for any run, the member for its own
(`MayAwait`). The sessions stay the same while this goes on, and appending the
delivery's record succeeds.

### SwarmMessaging (`subagent/messaging.rs`, the swarm part of `subagent/pool.rs`, `session/engine.rs`)

Per member: `phase` of its run, `pending` messages, the mailbox flags `waking`,
`wakeCancelled` and `stopped`, the `task` that is to wake it, and `releasing` when
a destructor is about to give its queue up. Each step is one critical section:

| Code | Steps |
| --- | --- |
| `enqueue_member_message`, `wake_message_target` | `Send` |
| `release_message_owner` | `Release` |
| `start_message_run`, `reserve_governed_run` | `ReserveWoken`, `WakeRefused`, `FailWoken`; `Reserve` for a takeover or a delegation |
| `RunReservation::activate`, `drop` | `Activate`, `StartFails` |
| a member's turns | `TakeInitial`, `TurnEnds`, `Fail`, `Cancelled` |
| completion and its guard | `Settle`, `RecordFails`, `Complete`, `DropRun`, `Dropped` |
| `cancel_run`, `cancel_descendants` | `CancelRun` |
| the engine | `BeginTurn`, `TakeReady`, `RootTurnEnds`, `RootTurnFails`, `RootInterrupted` |
| `close_swarm_sessions`, `wait_until_idle`, `resume_swarm` | `Close`, `CancelAll`, `Resume`, `GiveUp` |

A message is counted, not told apart. `stranded` and `halted` are history variables: the queues
that a start that failed, an interrupted root turn or a close left without an owner; the
members of the subtrees that a cancellation or a dropped run has stopped.

### EngineCommands (`session/engine.rs`, `session/engine/control.rs`)

The loop is idle, in a turn, in a manual compaction, or stopped; each phase reads
the channel its own way. `Enqueue`, `EnqueueSetting` (only the trailing run of
settings may be superseded), `Without`, `WithoutPeers`, `Absorb` and `Flush` are the
queue operations of `control.rs`; `IdleReceive`, `IdleInterrupt`, `IdleCommand`,
`IdleShutdown` the idle loop, `TurnCommand`, `TurnInterrupted`, `TurnCompletes`,
`ToolBatchEnds`, `TurnShutdown`, `TurnUnrecorded` the loop in a turn, the actions
named after compaction the third. The outside sends prompts, peer messages (some for a
session that is no longer open), settings, withdrawals, cancellations, compactions,
interrupts and a shutdown, and changes the config file (`Reload`). `asked`, `started`,
`revoked`, `spared` and `inserts` are histories that the properties read: `revoked` are the messages whose
cancellation (or interrupt, for a peer's) the loop received before they started, `spared` those of them that
were in the boundary queue then, and that the code did not take out of it.

### HistoryPublication (`agent/history_runtime.rs`, `session/historian.rs`, `context_history.rs`)

`path` is the selected branch of the transcript: messages, publications, applications.
`AcceptsPublication` and `AcceptsApplication` are the recorder's checks;
`Raw`, `Candidates` and `Pending` what the context history computes from the branch.
`Advance`, `Plan`, `PlanAgain`, `Apply`, `Work`, `Join`, `Wait`, `WaitTimesOut` are
`advance()` of the loop between its awaits, in its background and its blocking form;
`TaskPublishes`, `TaskOversized`, `TaskBreaks`, `OrphanEnds` the historian's task;
`Failure`, `Exhausted`, `Reduced` the bookkeeping of attempts and of the length to ask
for. `Interrupt`, `Undo` and `Restart` come at any time (`Undo` between two calls).
A failure is of class `rejected` (a shorter prefix may help: overflow, or an answer
outside the contract) or `transport`.

### DurableLog and TranscriptJournal (`transcript/recorder.rs`, `transcript/journal.rs`)

The file is the sequence of its complete lines and the state of what follows
the last newline: nothing, a line without its newline, an incomplete line, one
that ends inside a character. A line is a record, a member of a transaction or
the transaction's commit mark, with its revision. `AppendRecord` and
`AppendTransaction` write, `Sync`/`SyncFails` end a durable append,
a failing write leaves any part of its batch and poisons the recorder; `Open`,
`Load` with `OpenLoaded`, and `OpenRepaired` are the three ways to open a file;
`Close` is the drop of the recorder or the death of its process, `PowerLoss` cuts
the file anywhere behind what was synced. `DurableLog` is what a reader sees of
this: batches appear whole, may be lost from the end, and never if they were
reported as durable.

### SessionStore and SessionArchive (`session/archive.rs`)

A family is a root and its descendants; a transcript is the number of its
records, and a child is in the family from the record of its parent that names
it. Processes open the session (`Resume`, `Open`, `Append`, `Save`, `CreateChild`,
`RecordChild`, ...), run an archive pass (`Clean`, `Collect`, `LockFamily`,
`Publish`, `Pack`, `RemoveTranscript`, `RemoveArtifact`, `RemoveFolder`) or
restore (`Resume`, `Unpack`, `Land`, `Drop`, `DropPacked`, the drop of stale pairs),
one file operation at a time; `Stop` is an error, the end of a session or the
death of a process. `Walk` is the code's breadth-first queue, as the least set
that it fills. A deletion chooses its family (`Choose`), takes all its locks
(`LockForDelete`) and removes transcripts, archived transcripts, archived artifacts and
folders (`EraseTranscript`, `EraseArchive`, `ErasePacked`, `EraseFolder`,
`EndDelete`), parents before their children. `SessionStore` says that none of this
is visible: the records of a session only grow, unless it is deleted, and then they
go as a whole.

`Choose` is one step: what a restore that runs meanwhile hides from it, or a child
created between choosing and locking, is left behind, which the model allows
because the lock comes later. Siblings are taken in one fixed order.

Whether a family is old enough is not in the guard of `Collect`, because time may
always pass. All locks of a family are taken at once: the code takes them one by
one without waiting and lets go of all when one fails, which nobody can tell
apart. `plan_family_restore` is one step: it changes nothing but its own staging
directory, it holds the root's lock, and what others may do to the members
meanwhile (drop an archive beside a live transcript) does not change its result.

## 3. The runs

| Run | Bounds | Distinct states | Question |
| --- | --- | --- | --- |
| `delegated_scopes` | 3 members, depth 2, 4 paths, 11 requests | 84,607 | do rights narrow, locks cover, restored scopes agree |
| `pool_locks` | 2 runs, 2 children, locks on a file, on its directory or none, 2 paths, 1 append, tool or reading that fails | 3,681,130 | locks, cancellation before activation, success within the lock as far as the log shows the changes and can be read |
| `pool_takeover` | 2 runs, 1 child, 2 failing appends, 2 deaths, fair | 294,784 | one run and one recorder per child; results agree with transcripts and outlive the process; nothing seems to run after a resume; cancellation ends runs; refinement of `RunTable` |
| `delivery` | a run of the root and one of a member, a waiter of each, fair | 284,029 | delivered once, claims exclusive; delivered, no lost wake-up |
| `delivery_missed` | 1 run, 1 waiter | violated | finding 1 |
| `journal` | 2 recorders, 3 appends, transactions of 2 | 107,314 | parseable, one writer, refinement of `DurableLog` |
| `journal_torn` | 1 recorder, 1 append | violated | finding 2 |
| `archive` | 2 processes; root, child and grandchild; artifacts of the grandchild, 2 records, 1 file that stays | 2,456,262 | nothing is lost, a restored family is whole, nothing deleted comes back; refinement of `SessionStore` |
| `archive_torn` | 1 process, root and child | violated | finding 3 |
| `swarm` | a chain root, a, b; capacity 1 or 2, queues of 1, 2 messages, fair | 582,000 | capacity, one owner per queue, stops reach the subtree; messages and closes settle |
| `engine` | 4 steps of the outside, 2 models (one without credentials), 2 efforts, fair | 131,037 | order, settings in force; revoked prompts never start and every message settles, but for what is left in the boundary queue |
| `history` | 2 messages, 2 attempts, 2 shrink rounds, 1 break, fair | 128,714 | each message once, nothing refused, attempts bounded; room is made |

Why the bounds are enough. *Locks* relate pairs of runs, so two runs show every
conflict; a third adds nothing that the theorem for all runs does not cover.
*Takeovers*: two runs create a child and take it over, or compete for it; the
guard of `Reserve` looks at one other run at a time, so a third meets nothing new.
*Faults*: an append fails or tears wherever one is made, together with
dropped tasks, cancellations and a takeover that reads what was left; two of them let the child's
and the parent's recorder fail in one run. `MaxFaults` counts, in `SubagentPool`, the appends, the tools that have
changed something, and the readings at the comparison that fail. *Deaths*: the process dies at any two points, the second of them also during the
resume after the first; the second run may be started before or after. The theorems are for any
number of both. *Scopes*: three
members give a chain of three or two siblings under one; the workspace has a
directory, a file in it and a sibling directory, so that a root can be above,
equal to, below or beside another. *Journal*: three appends give a committed
batch, a failed one and one that continues behind it, by another recorder.
*Archive*: with two records a stale archived copy and the live transcript that
alone names the child are different; the child is a parent too, so members
stand first, between and last in every phase; two processes are any two of a
session, a pass, a restore and a deletion. *Swarm*: a chain of two below the root has a
member that is sender, target, parent and child; capacity 1 is full at once,
capacity 2 lets a wake and a run meet; a queue of one is empty or full (what needs a
longer chain is under Findings; the proofs are for every tree). *Engine*: four
commands let a prompt, a setting, a second prompt and a withdrawal of either be in
different queues at once (the safety part also holds with five, 1.7 million states).
*History*: two messages allow a publication and an application that cover a part, a
shrink from two to one, and the attempts of one region to end before the other's;
three messages and, without the liveness, two breaks hold too. The numbers named
`Max...` in `SwarmMessaging`, `EngineCommands` and `HistoryPublication` are, apart
from `MaxPending`, `MaxAttempts` and `ShrinkRounds`, bounds of the models and not of the
program, like `MaxAppends`, `MaxRecords`, `MaxFaults` and `MaxDeaths`. `NextTurn` is bound to
a death that may follow, since nothing else tells when a turn has ended.

`CHECK_DEADLOCK FALSE` is set for `ResultDelivery`, where all runs may have ended
and all waiters returned, for `SwarmMessaging`, which may come to rest with its messages sent,
and for `EngineCommands`, whose loop stops on a shutdown; `SubagentPool` says so itself (`Exhausted`).

### Fairness

`SubagentPool`: a task that is not awaiting the execution runs on (weak fairness of
`Start` and `Finish`: tokio polls tasks that are ready), a poll returns
(`Yield` or `EndExecution`), and a run whose cancel receiver is signalled is
polled. Nothing says that an execution ends. `CancelTerminates` therefore
rests on the `select!` alone, as in the code.

`ResultDelivery`: the task of a run posts, waiters that are not asleep go on, and
the engine takes completions: its `select!` is `biased` towards commands
(`select_active_session_operation_with_events`), so polls of the turn do not starve
them; this is the strong fairness of `Observe`. Runs need not end.

`SwarmMessaging`: tasks that are ready are polled, and every run of a swarm ends, because
`run_timeout_secs` gives it a deadline (`Fail`). The root's turns need not end:
`MessagesSettle` is about members' queues.

`EngineCommands`: the loop takes a command when there is one (the channel is polled first),
and turns and compactions end.

`HistoryPublication`: the session is used on and, under pressure, calls `advance` in its blocking
form; pauses end. The strong fairness of `Answer` says that a provider that is asked
again and again answers in the end, or rejects the size; without it an outage
lasts for ever and no program makes room.

`DelegatedScopes`, `TranscriptJournal` and `SessionArchive` state safety only.

## 4. What is proved

TLAPS checks the following for every value of the constants that satisfies the
named assumptions (any number of members, runs, children, waiters, paths).

* **`DelegatedScopes_proofs`** — `NarrowingIsSound`: a scope that passes the check of
  `narrowed_from`, or is inherited, permits no path that the parent's forbids.
  `LocksExclude` and `OnlyRootDelegatesWrites`: the second is a consequence that no line of the
  code states, since a delegated write must lie within the caller's own write lock and the caller
  must be running to delegate, so that the new lock meets the caller's
  (`DelegatedWriteMeetsCaller` turns coverage into conflict); the inductive invariant adds to the
  type invariant that an active member holds exactly the lock its scope asks for.
  `ResumeKeepsScope`: what `restored_member_scope` computes down the chain is what was granted. It
  is defined by recursion over the chain, so the invariant says that parents stand one level
  higher, and the proof takes a member of least depth for which the two differ.
  `RightsOnlyNarrow`, `WritersLockWhatTheyWrite` and `ScopesTypeCorrect` come from the same invariant.
* **`SubagentPool_proofs`** — all safety properties of the pool. `ConflictSymmetric`: conflicts do
  not depend on the order of the two locks. `TypeCorrect`; `NoCancellationIsLost`, whose invariant
  relates the slot's flag, its sender and the receiver (a run that is requested and
  not yet started is still unarmed, one that is armed is not requested, or has
  been signalled); `PoolLocksExclude`, from the guard of `Reserve` and the fact that a
  task in flight has a slot whose lock does not change; `PoolIsRunTable`, the refinement,
  step by step, a death being its `Restart`. `OneRunAtATime` and `OneRecorder` need `ChildInv`:
  takeovers in flight have different targets and work in them (`Targets`); the run that created a
  child has it alone, and the child is not listed as terminal, until its result is recorded (`Fresh`);
  hence a takeover that found its target terminal still finds nobody there when it
  opens the file (`Eligible`), although it looked at the slots before. The writer lock alone
  would not do, because a recorder that failed has given it up. `ResultsAreShown`, `ResultsStay`
  and `NothingLeftRunning` need `RecordInv`: what both transcripts show at each step on the
  way to the result (`Progress`), that a run which was told of is over (`Told`), and that
  one which shows as running is the active turn's or was left by an earlier one (`Shown`).
  `SuccessIsWithinLock` follows the changes: each is named in the log, about to be recorded or one that the
  pool cannot see, and none is about to be recorded when an execution has succeeded (`LogInv`); from the
  comparison on, a success is within its lock but for those that it cannot see (`SuccessInv`). The theorem says
  no more than the code does: a comparison with nothing (`CheckUnread`) makes all changes of that run unseen.
* **`ResultDelivery_proofs`** — `DeliveryTypeCorrect`, `ClaimsAreExclusive` (waiters in
  progress hold distinct claims) and `AtMostOneDelivery`, whose invariant says that
  a returned result keeps its claim, and that what is claimed is not delivered and
  what has a result is not claimed any more.
* **`TranscriptJournal_proofs`** — `JournalTypeCorrect`, `FileAlwaysParses`,
  `WriterContinuesFile` (a recorder's next revision is the frontier of the file, unless it is
  poisoned) and `JournalIsDurableLog`, the refinement. An append writes a batch (`IsBatch`: lines that
  follow each other, the last and no other of which closes it); the lemmas say what a batch, a part of one,
  a cut and a repair do to a file that parses, to its frontier, which is a maximum over the file, and to what a
  reader sees. Besides the properties the invariant needs that what was reported as durable ends
  with a whole batch (`PromiseCloses`) and that two recorders never write (`Alone`).
* **`SessionArchive_proofs`** — all safety properties that hold: `ArchiveTypeCorrect`,
  `WritersKeepTheirs`, `NothingComesBack`, `FamiliesReturnWhole`, `SavedArtifactsKept` and
  `ArchiveIsStore`, the refinement of `SessionStore`. The argument is one of
  ownership: `Owner(p)` says what the locks of a process guarantee in each phase (an
  archive pass holds those of its whole family, the root's included, and its originals
  equal the copies before one is removed; a restore holds the root's, and what it
  lands was absent), `Undisturbed(q)` what a step of another process leaves alone.
  Each action is shown to keep the first for its own process and to respect the
  second for all others; the lemma `UndisturbedOwner` puts the two together. That
  a cleanup and a restore may hold different locks of one family is the case
  that needs `Absent`: a cleanup only touches members that are live. A deletion holds
  the locks of all it removes, and the part of the family that it has dealt with
  has no transcript in either place, so that nobody can hold one open, pack
  it or land it (`Removed`); that is why it stays away after the locks are gone.
  For the artifacts, `Stored(m)` says where they are: in the folder, or, of a member that only the
  archive has, packed, with the folder gone or being emptied. `Handling(p)` says what a pass has made safe
  and a restore has put in place. Beside the holder of the root's lock others can only clean up
  (`Bystander`), so that the set a restore planned can only shrink while it works: the walk of the
  family need not be computed, it is enough that it does not change (`ReachKept`).
* **`SwarmMessaging_proofs`** — all safety properties, for any tree of members and any capacity:
  `SwarmTypeCorrect`, `CapacityIsKept`, `QueuesAreOwned` and `StopsReachSubtrees`. A queue goes from hand to
  hand: a sender gives it to a task, the task to a run, the run to its releaser, the
  releaser to a task. `Owned(m)` says that at each moment one of them has it, and that a
  task and a releaser hold the place `waking` for the run to come. Hence a woken
  run may start without counting its own place again: the set whose size the capacity
  bounds does not grow (`CapacityStep`, with the library's facts on cardinality). That a stop reaches
  the runs below rests on the equation of `Lineage` (`LineageIs`, which exhibits the least closed
  set one step up, and needs no acyclic tree) and on `Reach`: what is halted is closed downwards,
  its topmost member's mailbox is stopped until a resume, and a member in it whose mailbox is not stopped was
  only being started when it was halted, so that it has no children to start (`Barren`).
* **`HistoryPublication_proofs`** — `MessagesKept` (each message is seen raw or in one summary, in
  order), `NothingIsRefused` and `RegionAttemptsBounded`. A path's messages, publications and applications
  are three sequences, each a prefix of the one before (`Layered`), messages are numbered
  and distinct (`Numbered`), hence what the context history selects is a window of the messages
  and what a publication covers is the next part of it. `Control` says that a publication
  waits from its answer to its application only: the historian works when none waits, until it answers
  the messages it was given stay the oldest raw ones, and a planned application is still one that the
  recorder accepts. `Counting` relates the history of jobs asked for a
  region to the failure on record and the job in flight. `FlattenSeq` of the community modules is defined by
  recursion; the first part of the module proves its equations from least elements.

* **`EngineCommands_proofs`** — all safety properties of the queues: `CommandsTypeCorrect`,
  `TurnsRunUnderTheirSettings`, `TurnsStartInOrder` and `RevokedStayUnstarted`. Draining the channel and
  flushing what a turn parked absorb a sequence of controls into a queue, one after the other, and an
  absorbed control may remove others, go to the front or replace one in the trailing run of settings. Three
  facts about a queue survive that: `Sorted`, its messages stand in the order of sending;
  `Shielded`, a prompt whose revocation is firm has its cancellation ahead of it; `Chain`, the settings in it lead
  from one value to another and meet each message at the value it was sent under. Each is proved for
  one control and then for a sequence. The invariant `Sound` puts the four queues together: what is
  parked was sent before what is deferred, and that before what is in the channel (`Order`, where
  the boundary queue is the exception that it is in the code); the cancellation of a parked prompt waits
  in the deferred queue until a flush brings them together, the cancellation first (`Revocation`); both are
about the revocations that are `Firm`, those that spared nothing in the boundary queue (`Untouched`);
  and the settings in force, taken through parked, deferred and channel in that order, become
  those that were asked for (`InForce`), a chain with one link less when its first queue is flushed. The parked
  queue before the deferred one is what the last two rest on. The first part of the module
  shows, by taking least elements, that the recursive functions `Dropping` and `AbsorbAll` exist for a sequence
  of any length (`StepsExist`) and so satisfy their equations, and carries facts along them (`UpTo`).

Proofs of an invariant have a step for each action. Invariants were checked with TLC
before they were proved.

Model-checked only: everything temporal under fairness (`CancelTerminates`, `WaiterReturns`,
`DeliveredUnlessGivenUp`, `MessagesSettle` of both modules, `ClosedSettles`, `RoomIsMade`), which is out of the prover's reach.

## 5. Findings

1. **`agent__wait` may deny a result that exists** (`delivery_missed`).
   `wait_for_result` looks into `completed_by_run` and `active_by_run` under two
   acquisitions of the mutex. `complete` in between leaves neither visible, and
   the tool reports that the run "ended without a terminal result".
2. **A file torn inside a character cannot be read at all** (`journal_torn`). The tolerant
   reader and the repair read the file as UTF-8 first.
3. **A half-removed artifacts folder replaces its archive** (`archive_torn`). A pass that is
   killed in `remove_dir_all` leaves a folder that the next restore takes for
   authoritative, and then drops the archive.

Not runs, but worth knowing; the models show these behaviours, and the properties are
stated so as to allow them:

*Delivery.* The engine skips the completion of a claimed run (`engine.rs:3031`). If the
waiter is interrupted before its next poll, its guard releases the claim and no
continuation is posted again; the result stays in the pool and the transcript.
`DeliveredUnlessGivenUp` excludes it.

*Changes.* When a child's transcript cannot be read at the end of its run,
`observed_changed_paths_from_child_transcript` answers an empty list (`pool.rs:2364`): a success stands although the
log may name a file outside the lock, against `docs/components/subagents.md:76`. A file that a failed
tool or a shell command changed is named nowhere. `SuccessWithinLock` holds for the rest
(`unaudited`); with `logged[r]` in place of `touched[r] \ unaudited[r]` it is violated.

*Swarm.* Messages that a member accepts while a takeover of it is starting stay without an
owner when that start fails (`stranded`), until somebody else wakes the member.
`release_message_owner` resets `wake_cancelled`, so a wake cancelled just
before may happen after all. A root turn that is interrupted or preempted leaves the
root's queued messages until the next turn. A release after the close (no host)
leaves `waking` set without an owner, and `wait_until_idle` then always takes its three
seconds; when it gives up, the root's mailbox stays stopped. A close stops the members that have
started and then cancels all slots, in two critical sections: a member that was about to start and delegates
between the two leaves a child that a wake spawned before can start after the close. A member that is
cancelled because an ancestor of it failed closes its own mailbox only, and a start looks at the direct parent's
flag only, so that its finished grandchild can still be woken by a message. Neither fits the
chain of two that is checked; the proof of `StopsReachSubtrees` showed them, and the property
is about explicit cancellations and dropped runs (`halted`), which stop whole subtrees.

*Engine: a withdrawn prompt may run.* A cancellation removes a prompt from the deferred commands at
once, from the boundary queue only when a turn handles it. If the turn ends in between (an interrupt
came with it; or the cancellation of the active prompt, which goes to the front), the boundary prompts
are put ahead of the cancellation (`engine.rs:2897`), and the prompt runs, against
`docs/components/session.md:20`. In the default mode `insert` every prompt sent during a turn passes through that queue.
`RevokedNeverStarts` holds for everything else: `spared` are exactly the messages found in the
boundary queue and not taken out. Without `spared` it is violated: prompt 1 is in its turn,
prompt 2 in the boundary queue, and the withdrawal of 2 and the cancellation of 1 arrive together.

*Engine: an inserted prompt may wait for ever.* A turn that is closed at a tool batch keeps the other
boundary prompts for its successor (`engine.rs:2895`). If the prompt that interrupted it does not become a
turn (its model has no credentials, it is for another session, it is cancelled while the loop is idle), the loop
is idle with prompts in the boundary queue until something else has started a turn, against
`docs/components/configuration.md:80`. `MessagesSettle` holds for everything else; without
`Stranded` it is violated: prompt 1 is in its turn, a message for another session and prompt 2 are in
the boundary queue, and a tool batch ends.

*Engine, further.* Boundary prompts are put ahead of settings that were parked before them
(`engine.rs:2894-2899`), although settings are to take effect after the current turn (`docs/components/session.md:22`);
`SettingsInForce` leaves out messages that were inserted. Peer messages in the boundary queue
survive an interrupt that is received when the loop is idle or compacts (`IdleInterrupt`; they are `spared` too).

*History.* A historian's task that cannot be started, and one whose channel closes without an
answer, record no failure (`historian.rs:456-458`) and so are no attempts that `AttemptsBounded` counts; the model leaves both out.
With three attempts a region is parked before the six shrink rounds of a blocking
preparation can be used. Attempts are counted for the last region that failed only, and
a cancelled job is not counted.

*Archive.* When a resume gives up waiting for the lock,
`restore_session_family_for_resume` looks at the root only: if the restore that holds the
lock has landed the root and then stops, the session opens while its child is
still in the archive, until the next resume (`ResumeWithout`). A deletion that stops
half-way, or did not see a child when it chose, leaves descendants that no transcript
names, and may leave an older archived copy. `Save` stands for an artifact that is
written while its session holds the lock; the code writes it in a blocking task without one
(`fold_artifact.rs:140`), which may outlive the turn that is dropped, and so the lock: an artifact that
lands after a deletion or a pass began is not modelled.

*Recovery.* A resume records as cancelled the unfinished runs of the active turn
only (`restore.rs:176`, `interrupt.rs:75`). A background run that an earlier turn left running when
the process died stays "running" in the parent's projection (`old`, which `NothingSeemsToRun`
excludes), and its child is refused by every takeover, as not terminal (`pool.rs:1410`).
So is a child whose transcript ends in a partial line: the takeover does not repair it.
`remove_empty_session_file` (`transcript.rs:505`), which checks that a session is empty and
then removes it without its writer lock, is not modelled.

## 6. Plan

Done, in this order: scopes, pool, delivery, journal, archive; swarm messages, engine commands,
history publication, deletion of a family, death and resume of the pool; proofs of scopes,
pool, delivery, archive, swarm, journal, history, engine commands: every safety property of a passing run
is proved.

Next, in order:

1. `EmptySession`: removal of an empty transcript against another process's append.
2. The branches of the history: redo and navigation beside undo.
3. Permission grants as operators with a reference definition; MCP connections.

## 7. Not modelled, and why

Model providers, tools, MCP servers and the terminal are I/O with things outside the
repository; what they do to the modelled parts appears as nondeterministic steps
(an execution ends or does not, a change is made, an append fails). Formatting,
token budgets, projections and configuration are pure functions whose results no
property here depends on. Contents of records, names of files and models of
subagents are abstracted to members of small sets.

Of modelled components the following is left out. *Engine*: switching and replacing
sessions, child views and settings with unknown values, which touch none of the queues. *History*:
facts and tiers of a summary, the synchronous path of a child session, the
suppression of work that was just done, redo and navigation (only the truncation of
a branch), summaries of older versions, the tail that is preserved. *Swarm*: depth, path locks
and transcripts are starts that fail. *Archive*: how old a family is, the rows of
the listing, leftovers in the staging directory. *Scopes, pool, delivery, journal*: said
with the modules above. The lines that each
definition stands for are in `map` of `PROJECT.json`.
