# Verification of r42

r42 runs declared research blocks: HCL files describe blocks with dependencies, an
executor applies them in order, and each research block drives several LLM sessions
through a fixed workflow (Collection, Collection QC, Research, Final QC) in which a
*host* owns every decision and the models can only call tools. This directory holds TLA+
modules of that host, the TLC configurations that check them on small instances, and
proofs that the TLA+ proof system checks for all instances.

Contents: 1 the system and its parts; 2 what is modelled, and how it corresponds to the
code; 3 the runs, their bounds and what they show; 4 fairness; 5 what is proved;
6 disagreements between the code and its documents; 7 what is not modelled; 8 the plan;
9 running it.

All paths below are relative to the repository's root; `internal/` is the Go code.

## 1. The system

| Component | State it keeps | Operations | What makes it correct |
|---|---|---|---|
| Workflow state machine, `internal/workflow/state.go` | phase, rounds used, verdict cursor, unreviewed count, gate, stored outcomes | Begin, Advance, RegisterEvidenceArtifact, Checkpoint, AcquireGate, SetInformationNeedOutcomes, Snapshot, Restore | legal phases only; the round budget is a hard cap; the gate is closed exactly when a batch waits; a machine that has begun can be restored |
| Collection, `internal/collection`, wired by `internal/cli/runtime_workflow_tools.go` | frozen plan, need ledger, evidence, leases, closed-round flag, checkpoint recorder | set needs, acquire, save, write, register, submit checkpoint; turn runner | a checkpoint covers all evidence of its round and nothing is added behind it; leases balance; the round ends |
| Collection QC, `internal/collectionqc` | verdict recorder | verdict tool; turn runner; apply | a verdict fits the ledger when it is applied; needs are only ever decided once; Research sees decided needs and reviewed evidence |
| Closed Research, `internal/research/runtime`, quota in `internal/cli/runtime.go` | quota, terminal recorder, attempts | terminal tool call; turn runner | the quota counts accepted answers; a run completes with an answer of its last turn |
| Final QC, `internal/qc` | issue ledger, completion, attempts | open, resolve, complete; turn runner | stable issue identities; a pass leaves nothing behind that was open at the completion; bounded |
| Coordinator and block, `internal/coordinator`, `internal/cli/runtime_workflow.go` | the phase loop | run a phase, advance, complete | the result others read was decided, reviewed, confirmed and committed; the loop ends |
| Unit checkpoint, `internal/checkpoint` | workspace, published checkpoints, `latest` pointer, staging | Load, Commit, Rollback, RestoreCompleted | at any crash: an interrupted unit returns to its pre-unit snapshot, a completed one is never rerun |
| Executor and scopes, `internal/executor`, `internal/concurrency` | block graph, first failure, semaphores | apply, fail, cancel, cleanup, nested modules | dependents after dependencies; limits hold; slots come back; no deadlock; first failure wins |
| Dynamic research, `internal/cli/runtime_dynamic.go` | task list checkpoint, per-task units | evaluate or reload tasks, fan out | the same task list after a restart; results only when all tasks succeeded |
| Session watchdog and SDK sessions, `internal/cli/runtime.go`, `internal/copilot` | attempts, admitted callbacks, timers | send, stall, abort, recover, retry | nothing of an aborted attempt is at work in its continuation; nothing that hangs holds the run; no SDK session is left over |
| Artifact registry and evidence files, `internal/artifact`, `internal/evidence` | identities, quotes with the digest of what they quote | register, list, snapshot, restore; search, capture, expand, patch | a file has one identity, also after a restart; a citation is a passage the file held |
| Run and project directories, `internal/run`, `internal/project` | installed modules and configuration, transaction marker, state with outputs, runs | init, open, save outputs, choose the run to resume | what opens was installed by one init; a resumed run fits its checkpoints |
| S3 upload, `internal/s3` | recorded object versions | upload, retry, roll back | a failed upload takes back what it can name, or says that it could not |
| Progress stream and debug log, `internal/progress`, `internal/debuglog` | frame queue, subscribers | publish, project, subscribe | a consumer that has read everything knows every block's state; slow consumers do not stop a run |
| Provider settings, plan files, modules, configuration, block schemas, tool runners, UI | mostly data | load, validate, encode, present | mostly pure; see section 7 |

How they interact. The executor applies blocks concurrently, as many at a time as the
nested semaphores of its scope let through. A research block first loads its unit
checkpoint and rolls back if it was interrupted. Then the coordinator's one goroutine
calls one runner after the other; each runner sends a prompt to its own session and waits
for the turn to end. Meanwhile the SDK calls the host's tool handlers *on goroutines of
its own, several at once*: they share the collection context, the workflow state and
small "recorders" with the runner, each under its own mutex. What a handler accepted is
read by the runner after the turn. When the phases are through, the unit is committed, and
only then is the block's result visible to the blocks that depend on it.

What is hard about it:

* **Interleaving of tool calls.** A handler takes two to four locks one after the other;
  between them other handlers run. The checkpoint of a round must be the last word of it
  all the same.
* **Check in one place, use in another.** A verdict is validated when the tool is called,
  against the ledger of that moment, and applied after the turn.
* **Counters at their limit.** Rounds, protocol attempts, stall streaks, completion
  attempts and quotas all decide how a run ends, and each has an off-by-one to get wrong.
* **Lost callbacks.** The lease of a built-in web tool is returned by a post-use hook,
  which does not come when the attempt is aborted.
* **Crashes.** Commit, rollback, restore and init are sequences of file operations; the
  process can be killed between any two of them, also during a recovery.
* **Cancellation.** One failure cancels everything beside it, and what is cancelled fails
  too: the cause has to stay on top. Permits of nested scopes have to come back.
* **Services that answer late or never.** An abort, a resume or an upload may have happened
  although its answer is missing.
* **No lock across processes.** `r42 init` and `r42 apply` may run at the same time in one
  directory.
* **Termination.** Models are not obliged to do anything; the host has to end every loop.

`PROJECT.json` lists these hazards at the line where they bite, with the property that
would notice.

## 2. What is modelled

    WorkflowState            state and operations of workflow.State
      WorkflowMachine        ... in any order, with snapshots        -> WorkflowMachineProofs
      CollectionRounds       ... driven by the Collection tools and runners
        CollectionProperties its properties; refines CollectionContract -> CollectionProofs
        StallHistory         with a history of idle reviews          -> CollectionProofs
        ResearchBlock        composed with ResearchTurns and FinalQC: one whole block
                                                                     -> CollectionProofs
    ResearchTurns            closed Research                       -> TurnsProofs
    FinalQC                  final QC in completion mode           -> TurnsProofs
    Sessions                 one session and its watchdog          -> SessionsProofs
    UnitCheckpoint           a block's recovery unit; refines UnitContract -> RestartProofs
    ApplyPlan                executor, scopes, dynamic research, modules -> ApplyPlanProofs
    S3Folder                 the upload of a folder and its rollback -> OutputsProofs
    Evidence                 artifact registry, evidence files, quotes, knowledge patches
                                                                     -> RestartProofs
    Project                  .r42: init, open, runs, outputs       -> ProjectProofs
    Progress                 event bus, projector, publisher and its consumer -> OutputsProofs

The `*Constants` modules (and `ProtocolAttempts`, which closed Research and Final QC share)
hold a component's parameters and their assumptions apart from its actions; the `*State`
modules hold its variables and the properties stated of them as well (`PlanState` and
`BlockState`: what the rounds leave to a block's later phases, and what a block promises those
that depend on it). One MC module can so extend several of them and instantiate the components:
what a run checks and what a theorem states is then the same definition. `MC*` modules name the
constants of the instances; section 3 says why some hold several components.

**WorkflowState / WorkflowMachine** (`internal/workflow/state.go`). One action per method.
An action is enabled exactly when the method returns nil: a method that returns an error
leaves the state as it was. `Edges` is the transition table of `Advance`; `Accepts` adds
the veto of `needs_more` when the budget is used up. `WorkflowMachine` calls the methods
in any order, takes a `Snapshot` at any time and restores it in any later state, which
covers a restart: `Restore` overwrites every field. Of the outcomes that
`SetInformationNeedOutcomes` stores the machine only asks whether there are any: it has no
guard, so it can be called before `Begin`, and the snapshot of such a machine is the one kind
that `Restore` refuses (`RestorableOnceBegun`). No caller in a run does either.

**CollectionRounds** (`internal/collection/tools.go`, `internal/collection/runner.go`,
`internal/collectionqc/runner.go`, and the wrappers in
`internal/cli/runtime_workflow_tools.go`). `call[c]` is a program counter per call in
flight; a call makes one step per lock it takes:

| Tool | Steps |
|---|---|
| acquisition (custom or built-in web) | `BeginToolCall` (lease under the context's lock), `PassGate` (workflow lock) or `TurnAway`, `FinishAcquire` (result retained or failed, lease back); `LoseHook` for a web call whose hook never comes |
| `r42_save_artifact` | `BeginToolCall`, `SaveWrite` or `TurnAway`, `SaveRegister` |
| `r42_write_markdown` | `BeginToolCall`, `WriteMarkdown` or `TurnAway` |
| `r42_register_artifact` | `RegisterArtifact` (holds the context's lock, no lease) |
| `r42_set_information_needs` | `SetInformationNeeds` |
| checkpoint | `SubmitCheckpoint` (context and workflow), `RecordCheckpoint` (recorder) |
| `r42_collection_qc_verdict` | `SubmitVerdict` |

`EndCollectionTurn` and `EndQCTurn` are what the runners do when a turn is over, up to the
coordinator's `Advance`. A need's ledger entry holds the conditions its last assessment
left unsatisfied (a set: their wording is data), whether it was assessed, its stall
streak, and its outcome. A call that is refused before it holds anything changes nothing
and is not a step.

**StallHistory** runs beside CollectionRounds and counts, per need, consecutive reviews
that the documentation calls idle. It exists so that the stall rule is checked against
what happened and not against the code's own counter.

**CollectionContract** is what the rest of the workflow relies on: a plan frozen once,
evidence gathered for it, reviews that cover *all* evidence gathered so far, Collection
closed by the review that decides the last need. `CollectionProperties` maps
CollectionRounds onto it.

**ResearchTurns** (`toolCallQuota` and the typed-tool handler in `internal/cli/runtime.go`,
`internal/research/runtime/runtime.go`). A terminal call reserves quota, runs its program,
settles the reservation, checks its postcondition, and records; calls overlap. `EndTurn` is
the body of `Runner.Run`'s loop after the prompt, which begins with the recorder's `Drain`. It
does not wait for the calls: a typed tool is not tracked by the session (`session_tools_untracked`),
so one of an aborted attempt may still run, and its answer be recorded in the next turn.
`fresh` is a history variable beside the recorder, the first output accepted since the prompt;
`CompletionIsOfThisTurn` compares the two. `EndCollectionTurn` of CollectionRounds does assume
that all calls have returned. Artifacts are one Boolean, `missing`:
"the registry finds every declared artifact in order", which editing tools change at will.

**FinalQC** (`internal/qc/runner.go`). The three tool calls under the recorder's lock and
`reviewCompletion`; the history variables `clearedID` and `confirmed` keep what was accepted.
`ResearchOnly` selects how the CLI wires `MaxRounds`: a research-only
block passes `max_qc_rounds`, a full block passes nothing.

**ResearchBlock** composes these three over the one phase variable, with INSTANCE. The
coordinator calls one runner at a time, so a component is live only in its own phases.
`mode` is the block's `phase_mode`: a `full` block runs all phases; a `collection_only` block is
one session's run alone, and a `research_only` block that run and a Final QC of its own, with
`max_qc_rounds` in force. `CompleteUnit` and `Publish` are the end of
`researchApplyBlock.Apply`.

**UnitCheckpoint** (`internal/checkpoint/unit.go`, `internal/checkpoint/store.go`, and
`newResearchBlock`/`Apply` in `internal/cli`). Every file operation is a step: emptying
the workspace entry by entry, copying back file by file, staging file by file, renaming
the staged directory, renaming the pointer (whose sync may fail after the rename took
effect). `Stop` can come anywhere. A workspace is a set of files; a file is there or not,
since copies are verified by hash. Checkpoints are numbered in order of publication where
the code draws random IDs. `LoseFile` removes an archived file between two processes.

**UnitContract**: absent, started, completed; completed once, with an outcome that never
changes and is the only thing anyone reads.

**ApplyPlan** (`internal/executor`, `internal/concurrency/scope.go`,
`internal/cli/runtime_dynamic.go`, the apply blocks of `internal/cli/runtime.go`). A plan is a
set of nodes, each in the plan of the root or of a module (`Home`); a node's dependencies hold
between base addresses, as the reconstructed plan knows them. `step` takes a node from
`Execute` through the permits of its scope (one `Acquire` per semaphore, outermost first; `held` is
the set it has), building, applying and cleaning up; a dynamic block's tasks take the same way from `StartTask`.
`Record` is `planExecution.fail`: the first failure of an executor stays, and cancels what is
below it. `Interrupt` ends the caller's context, `Expire` a module's; `Restart` is a
`--resume`, which keeps units and task lists only. golden's traversal, a library, is modelled
by how the executor uses it. `Within[x]` is what an executor is nested in: the least set with `x`
and the home of every module it has, which needs no recursion and can be proved about.

**S3Folder** (`internal/s3`, `internal/cli/runtime_s3.go`). `at` is the next call. Every call can
be answered, executed without an answer, refused (and retried) or rejected; the bucket may have
versioning enabled, disabled or suspended, and may name no version; a key holds a set of
versions. `RollBack` follows `RollbackUploaded`: nothing is deleted without versioning; what was
recorded is deleted from the last object back, and `Skip` passes over an object whose version was
never named, which is reported.

**Sessions** (`recordingSession` in `internal/cli/runtime.go`, `internal/copilot/session.go`). Three
parties: the caller in `SendAndWait` or `Close` (`pc`), the sender's goroutine (`sender`), and the
goroutine of a bounded operation (`operation`: abort, disconnect, reopen, deliver, close), which
outlives its caller when the recovery window passes (`WindowExpires`). The SDK delivers `events`;
a callback is admitted (`CallbackBegins`) and finishes as two steps, between which the watchdog
may act. `handle` is the session r42 holds, `connected` those the SDK holds open. `tracked` says
whether the typed-tool handlers the SDK calls are the wrapped ones: `Factory.Open` copies the tools
before they are wrapped, so in production they are not; both cases are explored.

**Evidence** (`internal/artifact/registry.go`, `internal/evidence`, the artifact tools of
`internal/cli/runtime_workflow_tools.go`). Two units: a Collector that gathers files and a Reader
that imports, searches and cites them. The registry's three indexes change together under one
lock; what a handler reads before the lock or before a rename is a step of its own (`RegisterRead`
/`RegisterEnd`, `SearchRead`/`Capture`, `PatchRead`/`PatchEnd`). A file's content is its version
and whether it has a source header; a digest is that content, and a quote's text is the content
it was cut from, so that a quote of another version is visible as such. The key of a path is the
path with its links resolved if it exists, and as it is written if not (`canonicalArtifactPath`): `Real`,
`Spelled` and `KeyIn`. That matters when the run's directory is named through a link (`spelling`) and
the Collector declares a file in its directory (`report`) before it writes it: `RegisterEvidence` tries
both keys, `ListDirectoryFiles` only one, and `OneIdPerFile` says what follows. Files of two units are
never the same: each block works in `<run>/blocks/<hash of its address>` (`internal/run/manager.go`),
so the workspaces do not nest as those of `registry_test.go:483-500` do, where one file has two ids. A `Crash` empties
registry and quotes; the units' checkpoints are each one step here, since `UnitCheckpoint` is
about what happens inside one.

**Project** (`internal/project`, `internal/module/init.go`, `internal/run/manager.go`,
`internal/cli/command.go`). One `init` and one `plan` or `apply` beside each other. Every rename is
a step and can fail; either command can be killed anywhere. `r42 init` always installs all modules
through a staging directory, which then replaces the old one: it has no upgrade switch, its one caller of `InitProject`
(`internal/cli/command.go:149`) passes `upgrade` as true, and `docs/design.md:1234` and `1436` say so
too. The in-place installation of `module.Init` without `Upgrade` is code that no command reaches. Directories hold the number of the init
that wrote them. `Compatible` compares the *shapes* of two plans (addresses, kinds, dependencies and
schemas).

**Progress** (`internal/progress`, `internal/debuglog`, `internal/cli/command.go`). The bus updates
the projector in the step that logs an event and hands the records to the publisher in a second
one; dispatch is serialized by a mutex of the bus (`internal/debuglog/bus.go:67`). The worker takes
a record, then writes it. `view` is what a consumer knows, `dropped` the
blocks whose newest state the full queue dropped.

### Abstractions

* Names, paths, prompts, contents and wording are model values or absent. Two files are
  the same or different; a result has an identity only.
* A mutex-protected method is one step. Nothing else is: whatever a handler does under two
  locks is two steps.
* The LLM is nondeterminism: any tool call, in any order, with any arguments from the small
  sets, or none.
* Errors of the operating system, of sessions and of services are nondeterministic
  alternatives, each at the call that may return them.
* Time is the choice of when a timer fires. Durations, back-off and deadlines of the code are
  a step that may come early or late.

## 3. The runs

Passing runs together take every action of every next-state relation. Three of them check
several components *side by side*: a variable (`part`, `checked`) that never changes says which
component is at work, the variables of the others stay as they began, and each property speaks of its
own part. The states of the run are the disjoint union of the components' states; nothing is
composed by it that is not composed in the code.

| Run | Instance | Checks |
|---|---|---|
| `phases` | *machine*: 3 rounds, batch 2, up to 4 unreviewed. *turns*: 2 calls in flight, quota 2, 2 values, 4 attempts, up to 3 outcomes per turn. *review*: limit 3, 4 attempts, 4 issues, 5 completion calls. *block*: 1 call, 2 artifacts, 2 rounds, 2 attempts, each phase mode, with and without Final QC | `RestorableOnceBegun`, `NeverReopensCollection`; `QuotaCountsAccepted`, `CompletionIsOfThisTurn`; `PassLeavesOnlyLateIssues`, `VerdictFollowsCompletions`; `PublishedIsConfirmed`, `BlockTerminates` |
| `collection_calls` | 2 calls in flight, 3 artifacts, batch 2, 2 rounds, 2 attempts, 1 lost hook | `UnreviewedMatchesEvidence`, `QuietAfterCheckpoint`, `AcceptedIsRecorded`, `LeasesAreAccounted`, `ResearchSeesReviewedEvidence`, `Termination`, `LostLeaseEndsTheBlock` |
| `apply` | *plan*: an upload, then a parallel dynamic block beside a module of parallelism 1 with a research block and a serial dynamic block, parallelism 2, 1 restart. *folder*: a small file, a large one, a small one, over older objects; 1 retry, 4 failed calls | `ResearchWithinLimits`, `RootCauseReported`, `SuccessIsComplete`, `ResultsMatchTasks`, `ApplyEnds`; `RollbackIsExact` |
| `sessions` | 1 prompt, 1 retry, 1 typed tool call | `CloseIsAlone`, `NoOrphanSession`, `ContinuationStartsQuiet`, `NothingHangs` |
| `records` | *ledger*: 2 needs with 2 conditions each, 4 rounds, 1 call. *unit*: 2 files, 2 results, 4 commits, crashes anywhere. *evidence*: a listed file, declared or not, and a retained result, with and without a link, 2 quotes before a search, 2 items, 9 ids, 1 crash. *project*: 2 sources of different shapes, 3 inits, 2 runs, 2 applies, 2 faults. *progress*: 2 blocks and 2 tasks, a queue of 3, 3 events | `VerdictAlwaysApplies`, `ResearchSeesDecidedNeeds`, `BudgetIsUsedUp`, `StallIsEarned`, `LedgerOnlyAdvances`, `ImplementsContract`; `StartedHoldsPreUnit`, `PublishedIsDurable`, `UnitKeepsContract`; `OneIdPerFile`, `CompletedIdsKeep`, `CitationsAreGenuine`; `OpenReadsOneInit`, `CheckpointsFitThePlan`; `ConsumerIsCurrent` |
| `stall_history_docs`, `final_qc_late_issue`, `final_qc_unlimited`, `unit_checkpoint_missing`, `session_tools_untracked`, `outputs_of_other_configuration`, `progress_terminal_dropped` | small instances of one component each | find one property of the documents violated (section 6) |

### What they show

* *A checkpoint is the last word of its round* (`QuietAfterCheckpoint`,
  `AcceptedIsRecorded`, `UnreviewedMatchesEvidence`): with two handlers overlapping at every
  lock, once a checkpoint is accepted no call holds a lease, all registered evidence is in
  a checkpoint, the counter behind the gate agrees with the evidence list kept under another
  lock, and exactly one call is on its way to the recorder. Leases balance, lost hooks
  included.
* *What Research starts from* (`ResearchSeesReviewedEvidence`, `ResearchSeesDecidedNeeds`,
  `ImplementsContract`): every registered artifact was under a verdict, every need is
  decided, and what later phases are told is what the ledger says.
* *The ledger* (`LedgerOnlyAdvances`, `VerdictAlwaysApplies`, `BudgetIsUsedUp`,
  `StallIsEarned`): decided needs stay decided, conditions only shrink, an accepted verdict is
  never refused by the runner later, no need is written off while a round is left, and no search
  is given up without two idle reviews in a row.
* *Ends* (`Termination`, `LostLeaseEndsTheBlock`, `BlockTerminates`, `ApplyEnds`,
  `NothingHangs`): whatever the models do or omit, the host ends the phases, in every phase mode. A lost lease
  makes checkpoints impossible, and the block then ends by its protocol attempts. No nesting of
  scopes makes workers wait for each other's permits, and no SDK call, tool or callback that never
  returns keeps `SendAndWait` or the end of the client waiting.
* *One cause, all results* (`RootCauseReported`, `SuccessIsComplete`, `ResultsMatchTasks`): an
  apply says "cancelled" only if the caller or a timeout cancelled it; one that succeeds has applied
  everything in every nested plan, also if a failure was recorded where golden does not look; after a resume the
  results of a dynamic block are those of the list its tasks were started from.
* *Sessions* (`ContinuationStartsQuiet`, `CloseIsAlone`, `NoOrphanSession`): a continuation
  begins when sender, callbacks and native tools of the stalled attempt have ended; a session at which
  something may still be at work is tainted and never closed under it; a resume that comes too late leaves
  no session open.
* *Recovery* (`StartedHoldsPreUnit`, `PublishedIsDurable`, `UnitKeepsContract`,
  `OpenReadsOneInit`, `CheckpointsFitThePlan`): with a crash between any two file operations, also in the middle of
  a rollback or of the commit that follows it, a started unit is always rolled back to the
  workspace it first had, and results others read are those of the completed checkpoint on
  disk. A project that opens was installed by one init; a run that can be resumed has
  checkpoints of plans compatible with its own.
* *Turns* (`CompletionIsOfThisTurn`, `VerdictFollowsCompletions`, `PassLeavesOnlyLateIssues`): what
  Research returns is the first output accepted since its last prompt, also if an earlier turn's output was
  sent back or a call of an earlier turn comes late. A review that accepted a completion never ends
  exhausted, whatever the limits and the refused calls of that turn, and no review passes without one.
* *Records* (`OneIdPerFile`, `CompletedIdsKeep`, `CitationsAreGenuine`, `ConsumerIsCurrent`,
  `RollbackIsExact`): files keep one identity through listings, registrations, restores and
  restarts (section 2 has the one exception); every citation in `knowledge.json` resolves to a text its file held, whatever overwrote the
  file since; a consumer is up to date when the queue is empty, but for states that were dropped; a failed
  upload that reports no cleanup error has left only what it was never told about.

### Bounds

The counters of the code that are bounded by the code itself (rounds, attempts, streaks)
get their real bounds as constants. The bounds the models add:

* `MaxLostHooks` (hooks lost in one block): one is enough, since a single lost lease already
  blocks every later checkpoint; a second changes nothing but the counter.
* `MaxUnreviewed` (registrations between checkpoints in `WorkflowMachine`): two batches, so
  the counter passes the limit and goes on.
* `MaxRecorded` (terminal calls per turn): three; the runner distinguishes only the first
  accepted call and the rejected ones before it.
* `MaxIssues`, `MaxCompletionCalls`: four issues and five calls with a limit of three, so
  that calls go on after the limit within the turn.
* `MaxCommits`: four checkpoints, that is begin, interrupted, begun again, interrupted, begun
  again, completed. The fifth would repeat the third.
* `MaxLostFiles`: none in `records`, one in `unit_checkpoint_missing`. `PublishedIsDurable` with
  losses is a theorem.
* `MaxRestarts`: one resume; a second finds the same units and task lists. One context ends per
  run (`Interrupt`, `Expire`): the first error is what is reported.
* `MaxFailures`: four failed S3 calls, enough to use up the retries of a call and of one cleanup
  call after it.
* `MaxPrompts`: one prompt, which leaves the session as a second would find it (the proofs have any number).
* `MaxIds`, `MaxBody`, `MaxQuotes`, `MaxCrashes`: every file can be listed, registered and restored before
  and after a restart, rewritten once, and quoted in both versions. The Collector declares at most one file
  besides its directory; the registry treats declared files one by one.
* `MaxInits`, `MaxRuns`, `MaxApplies`, `MaxFaults`: an init over an interrupted one over a good one,
  with an apply across them.
* `Capacity`, `MaxEvents`: three records, so that the queue fills while the worker is writing.

Two calls in flight are enough for pairwise interleavings, and the properties relate one
call to the round. Three artifacts with a batch of two let the gate close while a third
acquisition is already leased. Four rounds let a need stall, recover and stall again before
the budget ends. Runs say `CHECK_DEADLOCK FALSE` where a component ends: a returned apply, a
stopped client, a finished command.

## 4. Fairness

Safety needs none. Liveness uses, per component:

* `CallReturns(c)`, weak: a handler that has started returns. Handlers take mutexes for
  short sections and tool programs run under deadlines. `ProgramAnswers` counts with its
  rejection only: fairness does not promise an accepted answer.
* `[]<>(AllReturned \/ Over)`: the model does not overlap tool calls for ever; again and
  again none is in flight. A session's turn is a finite sequence of tool calls, and the
  session watchdog aborts a turn that makes no progress.
* `EndTurn`, `EndCollectionTurn`, strong (they are enabled only when no call is in flight) and
  `EndQCTurn` weak: a turn ends, because the SDK reports the session idle or its watchdog
  gives up.
* The coordinator's steps, weak: it is one goroutine that waits for nothing else.

* `Progress` of ApplyPlan, weak: golden's scheduler, the workers and the executors go on while
  anything can. It is one condition over all of them: nothing is assumed of which one moves. It covers
  the research blocks' own end, which `BlockTerminates` shows of each. Contexts need not end and
  processes need not restart.
* `Watch` of Sessions, weak: the watchdog's goroutine is scheduled and its timers fire. Nothing
  is assumed of the SDK, of the model or of the tools.

S3Folder, Evidence, Project, Progress, UnitCheckpoint and the machines are checked for safety
only. In the side-by-side runs the fairness is that of the one part that has a liveness property;
the behaviours of the other parts either satisfy it trivially or are left out by it, and those parts have
safety properties only, which do not depend on it.

No fairness is assumed of any tool *call*: a model that never calls a mandatory tool is a
behaviour of the specification, and the runners end it by their attempts.

## 5. What is proved

The proofs hold for all values of the constants under the modules' named assumptions.

**WorkflowMachineProofs** (assumptions: a positive budget and batch, as `Begin` demands).
`IInv` is the inductive invariant: a snapshot of the state satisfies `Consistent` (types; `CursorTracksRounds`;
the gate equivalence; rounds within the budget), and *so does the saved snapshot*. The last part is
what makes it inductive: `Restore` sets the state to the snapshot, so the snapshot has to
carry everything the invariant says. From it follow `TypeCorrect`,
`CursorAlwaysTracksRounds`, `GateFollowsBatch`, `BudgetIsHard`, `BegunSnapshotsRestorable`
and, as an action property, `CollectionStaysClosed`.

**RestartProofs** is about what a restart finds. *Unit checkpoints*. `UnitTypeCorrect` and `PublishedStaysDurable` need no assumption
about losses: `DurInv` follows a commit from staging to the pointer and says at each place of the process what the
pointer, the workspace and the registry are, so that "done" implies a completed checkpoint that equals the
live workspace. `StartedAlwaysHoldsPreUnit`, `AlwaysRunsFromPreUnit` and `UnitImplementsContract` assume
`MaxLostFiles = 0`. Their invariant `PreInv` says that archives are intact and that every started
checkpoint, a commit in progress, and each place from which a unit is begun hold the pre-unit
workspace; `StartedHoldsPreUnit` alone is not
inductive because it says nothing of a rollback under way or of a renamed directory the
pointer does not name yet. With losses the first is false
(`unit_checkpoint_missing`), so the assumption is needed. `UnitImplementsContract` is the refinement: the initial
states map to the contract's, and each step maps to one of its steps or to a stutter.

*Artifact ids* (any files, numbers of ids and of crashes, with or without a link). `OneIdPerFile` and
`CompletedIdsKeep` speak of the live registry, which a crash empties and a restore fills again from
the checkpoints, one unit at a time, while fresh ids are minted in between. `RegistryInv` therefore says it of
all of them. `Indexes` is what the registry's lock keeps: a file has at most one entry that no listing
made, and a path leads to the last of its entries, which is the `Certain` one if there is one (evidence, or
of a path that no unwritten declaration names through a link). `Filed` ties this to the files: a
certain entry under a link is of a file that is there, so its links resolve whenever its key is computed again.
An entry of a checkpoint belongs to its unit, and the registry and the checkpoints agree on what an
id denotes (`Recorded`). `Grows` is what declaring, registering and listing have in common: they keep
what an id denotes and add fresh ids only; `Restored` says what a restore replaces and what it leaves
alone.

*Citations* (any number of items, quotes, versions and patches). What makes `CitationsAreGenuine`
inductive is that every text that may *become* knowledge.json is genuine: what an overlapping patch
has read, and the file in the Reader's checkpoint; and that every quote the host knows has the text
of its digest, which `Expand` keeps because it reads the file again and compares.

**CollectionProofs** (assumptions: needs, conditions and a positive budget, batch and number of
attempts; finitely many artifacts and calls; `None` is no record; nothing else, so any number of
tools may be in flight). `IInv` follows one checkpoint through the three hands it passes: the
call that was accepted (`At(c, "accepted")`), the `CheckpointRecorder`, and the review
(`handoff`). In each hand it `Covers` the round: it lists exactly the evidence recorded as
checkpointed and a disposition for exactly the active needs. That, and not the properties by
themselves, is what makes them inductive: `MarkEvidenceReviewed` unions the evidence of the
checkpoint *in hand*, so "everything is reviewed" needs the checkpoint to have stayed complete
while calls returned; and `Covers` needs `RoundInv` (no lease and no unlisted evidence while the
round is closed), which needs the lease accounting. `NeedInv` keeps every open need's streak
below two and some need open in every round; `VerdictInv` keeps an accepted verdict acceptable until it is
applied. The theorems are `CollectionTypeCorrect`, `GateAlwaysMatchesEvidence`,
`LeasesAlwaysAccounted`, `AlwaysQuietAfterCheckpoint`, `CheckpointIsRecordedOnce`,
`VerdictNeverRefused`, `ResearchIsPrepared`, `RoundsAreWellSpent`, the action property
`LedgerAdvances`, and the refinement `CollectionKeepsContract`: a step of the rounds is a
contract step only when it begins the block, freezes the plan, registers evidence or applies
a verdict (or fails), and a stutter otherwise.

Two compositions of the rounds are proved on top. `StallsAreEarned` is about the history beside
them: `StallInv` says that an open need's streak never exceeds its idle reviews in a row (the code
starts the streak again where the history goes on, never the other way). `BlockPublishesConfirmed`
is about the whole block, in every phase mode: `BlockInv` carries the rounds' invariant while a
full block is in its early phases and keeps, from then on, what each later phase found settled:
the decided and reviewed plan, the completed run, the passed QC, the commit. The later runners are
used only through what they leave alone and how they end.

**TurnsProofs**. Closed Research (finitely many calls, any quota): `QuotaCountsAccepted` is
inductive with the types; the proof counts the running programs before and after one call changes,
which is where a rollback that gave back another call's place would show. `CompletionIsConfirmed`
also needs that the code's scan finds the *first* accepted call: the least element of a set of
positions, from the well-foundedness of the naturals. Its invariant `FreshIsFirst` says that the first
accepted output in the recorder is `fresh`, at every step of overlapping calls; emptying the recorder
at the end of a turn is what keeps it. Final QC (any limits):
`PassLeavesOnlyLateIssues` is inductive once active IDs are known not to exceed the last ID given
out, which `TypeOK` says. `VerdictFollows` is proved from: while a review goes on, a completion is pending
exactly when one was accepted. Of the limit itself nothing is proved: a full block has none
(`final_qc_unlimited`).

**ApplyPlanProofs** (any finite plan, nesting, dependencies, parallelism and task lists, any number
of restarts; the assumptions say that every module is nested in the root and that names, tasks and
lists are not taken for each other). None of the four properties is inductive, and each has its own
part of `IInv`. `PermitInv`: who works has every permit of its scope, who is done has none, and no
semaphore gave out more than it has; `LimitsAreKept` follows by counting the workers below a level.
`CauseInv`: while no context has ended, a cancelled error is due to a failure recorded by an
executor *around* it or by its own dynamic block. The property speaks of the root only; a module
that reports a cancellation to its parent, which then reports it as its own failure, is where it
would break, so the invariant is stated along the nesting, and `NestInduction` (what holds of the
root, and of each module once it holds of its home, holds of all executors) carries it up.
`DoneInv`: what has succeeded, or will unless its cleanup fails, has a result, and so has all of its
module or its task list. `MatchInv`: a block works on the list that is durable, and the unit of a
completed task holds the task which its index has in that list, which is what a restart relies on.

**OutputsProofs** is about what a run hands to the outside. *S3 folder* (any folder, number of parts,
retries and faults, any status of the bucket).
`FolderInv` follows what the block made from the call that makes it to the one that takes it away:
an object is recorded for the rollback, or was made without an answer, or an error tells of it
(`ObjectsInv`); a multipart upload is the current one, or was begun without an answer, or an error
tells of it (`UploadsInv`). `RollbackIsExact` is that statement at the end, where nothing is
recorded any more and no upload is current. The clause about the current upload is what fails if a
completion that failed is not aborted.

*Progress stream* (any plan, tasks, capacity and number of events). `ConsumerIsCurrent` speaks of an
empty queue only. `StreamInv` follows the newest record of each block to the consumer: a pending
state is the projected one, unless it is about to be replaced (`PendingInv`); where none is pending,
the last queued record that mentions the block, else the one being written, else the consumer, has the
projection (`ReachInv`, whose `Reaches` spells out that order). Coalescing keeps this because the
pending state is overwritten, not kept; evicting keeps it because only timelines are evicted, which
mention no block's state (`Enqueued`); and the worker keeps it because structural records, which may
hold an older state than the pending one, are written before it (`TakeStep`).

**ProjectProofs** (any number of inits, runs, applies and faults). `OpensOneInit` says that a project
that opens has the modules of the init its configuration is of. The property says nothing of a
project whose init is under way; `ProjectInv` does: while an init runs the marker stands
(`MarkerInv`), so a project is openable only between inits; until an init replaces the modules they agree
with the configuration unless an earlier init was interrupted (`ModulesInv`); from the modules' activation on
they are this init's, and from the configuration's activation on so is the configuration (`ConfigInv`). What needed care is the failure of the modules' step: the
marker is removed there, and may be only because the modules were put back or never moved.
`ResumesFindFittingCheckpoints` needs another invariant, `FilesInv`: the shape of a saved plan does
not change later, because its configuration was written by an init that has begun
(`ConfigsBegan`); a run's checkpoints have the shape of the plan saved in it (`RunsInv`); and,
since a resume saves a plan into a run it did not make, also that of the plan *file* it compared,
which stays behind (`PlanFileInv`, `ApplyInv`).

**SessionsProofs** (any set of typed tools, any number of prompts and retries; `NoSession` is not a
session's number). `ClosesAlone` and `LeavesNoOrphan` come from one invariant. `QuietInv` says for
each place of the watchdog what may still be under way there: an operation that outlived its window
leaves the session tainted, so that whoever closes an untainted session finds no sender and no
operation. `HandleInv` (a session is reopened only after the handle was given up) and `AnswerInv` (an
answer ends its operation) are what `NoOrphanSession` needs to be inductive. `ContinuationsStartQuiet` is
an action property: while an attempt is being recovered nothing new is admitted, and from the
barrier's passing until the continuation is sent nothing admitted is at work (`ResumeInv`).

Every safety invariant and action property of the passing runs is stated by a theorem above. TLC checks only
liveness (`BlockTerminates`, `Termination`, `LostLeaseEndsTheBlock`, `ApplyEnds`, `NothingHangs`),
which needs fairness and ENABLED.

## 6. Disagreements

* `final_qc_unlimited`. `docs/design.md:1101` and `README.md:925-926` say that
  `max_qc_rounds` limits the confirmation attempts of Final QC. `newResearchBlock`
  (`internal/cli/runtime_workflow.go:639`) builds the `qc.Config` of a full block without
  `MaxRounds`; only the research-only block sets it. A full block ends by its protocol attempts.
* `final_qc_late_issue`. `README.md:745`: "Complete QC only when every host-tracked issue has
  been resolved". An issue opened after the completion was accepted, in the same turn, does
  not withdraw it (`internal/qc/runner.go:334`), and the review passes. What does hold is
  `PassLeavesOnlyLateIssues`.
* `stall_history_docs`. `docs/design.md:1021-1023` gives the stall rule in terms of two
  consecutive rounds. A verdict without evidence progress that nevertheless leaves fewer
  conditions open resets the streak (`internal/collection/tools.go:588`), so two such rounds do
  not stall. The other direction, `StallIsEarned`, holds.
* `unit_checkpoint_missing`. `internal/checkpoint/unit.go:21`: "A started unit is always rerun
  from its pre-unit snapshot." `errors.Is(err, os.ErrNotExist)` in
  `internal/cli/runtime_workflow.go:229` is meant for a pointer that does not exist, and also holds when an
  archived file is missing; the unit then begins on the workspace its interrupted attempt left.
* `session_tools_untracked`. `internal/cli/runtime.go:2361`: "SDK typed tools can outlive sendCtx, so
  Resume requires both barriers." `openRecordedWorkflowSession`
  (`internal/cli/runtime_workflow.go:1100`) wraps the tools' handlers after the session was opened,
  and `Factory.sessionConfig` (`internal/copilot/session.go:143`) had copied them by then: the
  handlers that are called are not tracked, the second barrier passes at once, and a continuation
  can begin while a typed tool of the stalled attempt runs. `ContinuationStartsQuiet` holds, which asks this of
  tracked handlers only.
* `outputs_of_other_configuration`. `README.md:1041-1042`: "A successful Init replaces this state and
  invalidates outputs from the previous configuration." `SaveOutputs` (`internal/project/state.go:38`)
  writes into the state it finds, also when an init has replaced it since the apply began.
* `progress_terminal_dropped`. `internal/progress/publisher.go:38`: "structural + terminal, drained
  first, never dropped". `enqueue` (line 170) gives up when nothing can be evicted, which is so
  when pending block states fill the queue.

Four smaller ones have no run of their own:

* `README.md:849` calls `max_qc_rounds` the maximum number of completion attempts, rejected ones
  included. The runner looks at the limit when a turn is over, and only if no completion was
  accepted (`internal/qc/runner.go:191-194`): a turn may contain any number of attempts, and one beyond the limit
  still passes. `VerdictFollowsCompletions` states what the code does keep.
* `docs/s3-folder-design.md:180-181` promises the cleanup a bounded context. That holds of an aborted
  multipart upload (`internal/s3/upload.go:193`); the deletion of recorded objects runs under
  `context.WithoutCancel` (`internal/cli/runtime_s3.go:85`), where only the number of retries is bounded.
* A file declared through a link, then written, and listed before it is registered has two artifact ids
  (the exception in `OneIdPerFile`): `ListDirectoryFiles` does not try the path as it was declared.
* `workflow.State` hands out a snapshot that its `Restore` refuses if outcomes are stored before `Begin`
  (`RestorableOnceBegun`).

## 7. What is not modelled

Not yet: the coordinator's resume from a workflow checkpoint (`CheckpointWriter`,
`Config.Resume`), which no caller sets; workspace identity files of a run; worker processes of tools; the
merge of artifact registries; the negotiation of the progress format.

Left out on purpose: the verdict mode of `qc.Runner` and Snapshot/Restore of the collection context
(nothing outside tests constructs them); what `runSavedPlan` (`internal/executor/golden_plan.go:373-399`)
can fail in before any node runs; configuration, block schemas and module snapshots
(validation and encoding of data, sequential and without state); terminal UI and flags; provider
schemas and the length of a back-off. Where a modelled component uses one of them, the use is a
nondeterministic choice.

Hazards that no property covers are listed with the reason in `PROJECT.json`: among them the source header
that is written over a concurrent edit, and the run whose plan file was truncated when the process was
killed. Both are reachable in the models; no document promises otherwise.

## 8. Plan

Models next: `CoordinatorResume` once something calls it, with the count of Final QC rounds across a
restart; the life cycle of a worker process under its deadline; workspace identities beside Project.

## 9. Running it

In this directory, for each run of `PROJECT.json`,
`tlc -workers 2 -config <cfg> <module>.tla`; and `tlapm <module>.tla` for each of the eight
`*Proofs` modules (`CollectionProofs` and `ApplyPlanProofs` take a few minutes each). With two workers `collection_calls`,
`phases` and `sessions` take about a minute each, `apply` and `records` about two, the others
seconds.
