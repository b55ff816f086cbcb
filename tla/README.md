# KOD: TLA+ models, model checking and proofs

KOD is an AI coding-agent harness: a Cargo workspace of 26 crates
(`docs/ARCHITECTURE.md`). A *turn* takes a prompt, sends the conversation to a
provider, runs the tools the model asks for, sends the results back and repeats
until the model answers. Several turns run at once: the session's own, and those
of a *swarm*, in which a task is cut into subtasks that run in dependency waves.
They share files, provider endpoints, a cancel table and transcripts.

This directory models the parts where those activities meet, checks them with
TLC on small instances and proves their safety properties with TLAPS for every
value of the constants. Paths below are relative to `src/crates/`.

* [Inventory](#inventory)
* [Modules and code](#modules-and-code)
* [Runs](#runs)
* [Bounds](#bounds)
* [Fairness](#fairness)
* [Proofs](#proofs)
* [Disagreements between code and documentation](#disagreements-between-code-and-documentation)
* [Not modelled](#not-modelled)
* [Plan](#plan)
* [How to run](#how-to-run)

## Inventory

### Components with state and concurrency

| component | state | operations | meets | hard behaviour | correct when |
|---|---|---|---|---|---|
| Path lock table (`kod-tools/src/path_lock.rs`) | map path → `Arc<Mutex>` behind an `RwLock` | `acquire` with timeout, guard drop, `release_all` | write and patch tools of the session and of every agent; shutdown | racing creation of a cell, a sweep while cells are referenced, a timeout racing the hand-over of the permit | one holder per path, no permit lost, first come first served |
| File tools (`kod-tools/src/tools.rs`, `edit_tool.rs`, `edit_hashline.rs`) | the files, the snapshots of the edit store | `write_file`, `patch_file`, numbered `read_file`, `edit` | the lock table, the edit store's mutex, programs outside kod | read, compute, write with others in between; two different locks for one file | no reported change is silently lost |
| Task coordinator (`kod-swarm/src/coordination.rs`) | tasks, assignments and agent loads, behind three locks | register, assign, complete, fail, unassign | swarm runner, tools of the agents | calls that unlock one map before they lock the next | loads count the work, terminal states are terminal |
| Provider concurrency (`kod-provider/src/concurrency.rs`) | cap and number in flight behind a mutex; a `Notify` | `acquire`, `try_acquire`, permit drop, `set_cap` | every request of every turn, configuration reloads, cancelled turns | notifications sent outside the mutex; cancellation between wake-up and poll; resize | exact count, cap respected, no lost wake-up |
| Transcript (`kod-core/src/engine/transcript.rs`, `render.rs`, `compaction.rs`) | `history[key]`, the rows of a conversation | record turns and rounds, pin, clear, forget, prewalk, caps, five ways to compact | turn loop, TUI commands, background compaction | each way of shortening must keep tool calls with their results, and pins | what the next request is built from is acceptable to providers |
| Turn loop (`kod-core/src/engine/process.rs`, `agent_loop.rs`, `prepare.rs`) | endpoint chain and cursor, messages of the attempt, base of the history, steers, cancel flag, pause gate | prepare, walk the chain, tool rounds, waits, retry candidates, accept | transcript, providers, tools, user interface | failures at every point of a multi-round attempt, then a re-drive | no rows of a dead attempt, well-formed requests, termination |
| Swarm runner (`kod-core/src/swarm_runner.rs`, `engine/control.rs`) | remaining subtasks, results, the cancel table, heartbeats | classify a wave, dispatch, retry, watchdog, deadline, overnight handoff, report | turn loop, coordinator, pool, cancel requests | failure of a dependency against cycle fallback, two sources of cancels, deadlines in the middle of a wave | dependencies first, failures gate, stops are final, everybody is reported, the run ends |
| Stream round (`agent_loop.rs` 774–1240, `kod-core-tools/src/speculation.rs`) | partial calls, text, reads started ahead of their call | one provider stream, up to the calls it leaves | turn loop, tool round, files | cancel poll against a silent provider, endpoint switch in the middle of a call, reads that go stale | a cancel ends it, calls are of one stream, no read is older than the round |
| Tool round (`kod-core/src/engine/tool_dispatch.rs`, `policy.rs`, `tool_quota.rs`, `pause_gate.rs`) | pending approvals and questions, session rules, taint, per-turn counts | gate, ask, answer, check the quota, run in order or in parallel | turn loop, user interface, serve, shutdown | an answer racing a deadline, a cancel or a dropped agent; counters shared by all transcripts | a call runs only with consent, no dialog stays behind, the round ends |
| Background jobs (`kod-core/src/background.rs`, `engine/hook.rs`, `async_delivery.rs`) | jobs, permits, delivery queue, steers | start, adopt, stall, finish, panic, deliver, clear | tool round, turn loop of a later turn, `/jobs` | a job that outlives its call, its attempt or its transcript; a panic against its watcher | every job settles once, and its owner hears of it |
| Agents, registry, hub, blackboard (`kod-swarm`) | agent states, inboxes, generations, shared notes | register, park, wake, send, broadcast | swarm runner | messages to agents that are gone | nothing for the dead, nothing twice |
| Session log and state file (`kod-core-state/src/session_log.rs`, `state.rs`, `engine/state.rs`) | an append-only log; `state.json` with plan and decisions | record, read, rehydrate, save, load | the file system, other kod processes | crash in the middle of a write, saves that overlap, two processes on one file | a reload sees what was logged, a finished save is there after a restart |
| Checkpoints, commit lock (`kod-core-state`) | snapshot files, lock file | checkpoint, restore, commit | git, other kod processes | stale lock file | a restore is complete |
| Goals, plans, endpoint health (`kod-core-state`) | goal runtime, plan mode, failure counters | advance, abandon, record failures | turn loop | a goal that re-arms itself, a circuit that never closes | bounded continuation |
| Serve and ACP (`kod-core-serve`) | running sessions and requests of a connection | prompt, cancel, approve | the engine's cancel table | a cancel that overtakes its prompt | each request is answered once |
| LSP and MCP clients (`kod-lsp`, `kod-mcp`) | pending requests by id, server process | call, time out, restart | child processes | a late answer to a request that timed out | an answer reaches its own caller |

`PROJECT.json` lists these and the remaining components (interface, routing,
quality, providers' wire formats, memory, skills, foundation crates) with the
reason when one is not modelled, and every hazard with its source line.

### How they interact

```
 TUI / CLI / serve ── prompt, steer, cancel, pause, pin, /compact
     │      │
     │  turn loop ──rows──▶ transcript ◀── compaction
     │    │ │ ▲ ▲
     │    │ │ │ └── steers, delivery queue ◀── background jobs
     │    │ │ └── turn outcome, cancel table ── swarm runner ── task coordinator
     │    │ └ stream round ── permit ─▶ provider concurrency ─▶ provider
     │    │        └ calls, reads made ahead
     └──▶ tool round (approvals, quota, taint) ─▶ session log, state file
              └ file tools ─▶ path lock table / edit store ─▶ files
```

## Modules and code

| module | extends | models |
|---|---|---|
| `PathLock` | | what `path_lock.rs` promises: one first-come first-served lock per path (abstract) |
| `PathLockTable` | | `path_lock.rs`; implements `PathLock` |
| `FileTools` | `PathLockTable` | the tools that change files, over the lock table and the edit store |
| `TaskCoordinator` | | `coordination.rs` |
| `ProviderConcurrency` | | `concurrency.rs` |
| `Transcript` | | `history[key]`, what adds to it and what takes rows from it |
| `TurnLoop` | `Transcript` | a streamed turn over the shared transcript |
| `SwarmRun` | | `SwarmRunner::run` after decomposition, with the engine's cancel table |
| `ToolRound` | | the tool rounds of several transcripts and the dialogs, quotas and rules they share |
| `StreamRound` | | one streamed round up to the end of its calls, with the reads made ahead |
| `BackgroundJobs` | | jobs, their permits, and the way of their results into a conversation |
| `SessionStore` | | the session log and `state.json` over crashes, restarts and two processes |
| `PathLockProofs` | `FileTools`, `TLAPS` | theorems about the lock table, its refinement and the tools over it |
| `TurnLoopProofs` | `TurnLoop`, `TLAPS` | theorems about the transcript and the turn over it |
| `SwarmProofs` | `SwarmRun`, `TaskCoordinator`, `TLAPS` | theorems about both |
| `ProviderConcurrencyProofs`, `ToolRoundProofs`, `StreamRoundProofs`, `BackgroundJobsProofs`, `SessionStoreProofs` | their component and `TLAPS` | theorems |
| `MCFileTools`, `MCTaskCoordinator`, `MCTurnLoop`, `MCSwarmRun`, `MCToolRound`, `MCSessionStore` | their component | values and symmetries for TLC |

An action is what happens between two points at which another task can run: a
critical section of a lock, or the code between two awaits. A location (`pc`,
`stage`, `step`) names such a point. Definitions called *mutant* in a comment are
plausible bugs; no specification uses them. `PROJECT.json` ("map") gives the
source lines of every definition that stands for code.

**PathLockTable.** A cell is the identity of an `Arc<Mutex<()>>`; its strong
count is the number of callers that refer to it plus the table's own reference.
`Lookup`, `CreateCell`, `ReleaseAll` are the sections under the `RwLock`.
`LockOwned`, `Granted`, `HandOver` model tokio's fair mutex from its use: an
unlock assigns the permit to the oldest waiter, which finds out when it is next
polled. `Timeout` may come between the two; the dropped future then passes the
permit on. Cells are reused once nobody refers to them, as memory is. The
refinement mapping to `PathLock` reads the lock of a path off the cell the table
has for it: `turn` is the owner of its permit, `behind` the queue of its
semaphore. Lookups, creations and drops of references are stuttering steps, and so
are sweeps: that a sweep never changes `turn` or `behind` is what
`release_all` has to get right.

**FileTools.** A caller of the lock table is one tool call. The content of a file
is the set of calls whose change is in it, which is what lost updates are about; a
tag stands for the content it hashes. `patch_file` reads, re-reads and writes in
three steps, `edit` guards, compares and writes under the edit store's mutex, and
`ExternalSave` is a program that knows none of the locks. All tools are offered
together, as in the code, so that a file has two locks; `LostOnlyAcrossLocks`
excuses what that costs and nothing else: of a change that has been reported, what a call
under the other lock takes out. A call under the same lock takes it out only by replacing
the whole file.

**TaskCoordinator.** `assign_task` holds `tasks` while it updates the other two
maps and is one action; `finish_task` is two and `unassign_task` three.
Calls that return an error change nothing and are stuttering steps. Nothing keeps a
caller from re-assigning a task whose `unassign_task` is still running. `crossed`
is a history variable: the agents whose books such a crossing has mixed up, which
are the new assignee, whose record the running `unassign_task` will take away, and the old
one, if its slot is still to be looked up (`MixedUp`). `LoadMatchesWork` is about all
others, at every moment. The names of its state machine start with `coord`,
so that `SwarmProofs` can extend it together with `SwarmRun`.

**ProviderConcurrency.** The state mutex makes `try_acquire`, the decrement and
the change of the cap atomic; registering on the `Notify` and notifying are
steps of their own. `Notify` is external and modelled from its use: `notify_one`
stores at most one token, `notify_waiters` stores none, a dropped waiter that was
notified by `notify_one` passes it on. Callers come back without end, and each request tries the
counter before it waits, as the code does: a newcomer may take the permit a notified waiter was woken
for, and that waiter then registers behind the others.

**Transcript.** A row is its role, its pin, its size and the call it answers.
`cap_transcript`, `trim_to_budget`, `safe_cutoff` are translated as functions of
the rows; a change under one write lock of the map is one action, caps included.
A plan of the handoff, image or native rung is computed under a read lock
(`PlanCompaction`, `planned` is the rows its summary stands for) and applied under
a write lock later (`ApplyPlan`), to a transcript that may have changed and shrunk
in between. A prewalk is armed with a nudge row (`ArmPrewalk`), takes it out on the first
mutating call (`FirePrewalk`) and appends its checklist later (`PushChecklist`).
One tool loop runs per transcript, so only one prewalk fires at a time.
`ForgetLast` stands for `forget_last_turns_for` and `truncate_history_to`.

**TurnLoop.** `history` is shared and gets a round's rows at once; `messages` is
what the endpoint is sent. `Prepare`, `Resolve`, `Drive` (with
`truncate_history_to`), the round (`CheckCancel`, `PassGate`, then one outcome of
the stream), `Wait`, `GiveUp`, `Accept` follow the control of
`process_streaming_with_model_for` and `run_streaming_loop`. Errors are classes:
what the code distinguishes is whether they are retryable and recoverable.
Providers, tools and the off-track judge are choices. `Priors` are the transcripts a
turn may find, any that earlier turns may leave (`Inherited`). Nothing but the turn
changes its transcript while it runs: `prepare_turn` compacts before it records the prompt,
and what the user interface does to a transcript (prewalk, `/delete`) it does under the key
`session`, which no turn has.

**SwarmRun.** The wave loop (`Classify`, `Launch`, `Join`, `WavesEnd`, `Report`
and its three early exits) and one attempt loop per dispatched subtask
(`Begin`, `TurnReturns`, `Clean`, then `GiveBack`, `Retry` or
`ReadWatchdog`/`Erase`). The cancel table has an epoch and one reason per key.
Time is not modelled: a deadline may pass, and the watchdog may fire, whenever the
code looks. `stop` is a history variable: what became of the latest user cancel.
Names of subtasks are taken to be unique, which `parse_subtasks` does not enforce.
`reported` counts the events of each subtask by kind, since the code sends some twice.
What `Report` tells the coordinator, the hub and the blackboard is state of those
components and left out.

**ToolRound.** One record per transcript holds the round: its phase, the calls a
hook or a gate refused, the dialogs it has registered and the ones it still waits
for. `BeginRound` (pause gate, hooks), `Gate`, `Register`, the four steps of
`await_decision` (`PollEmpty`, `SeeCancel`, `SeeDeadline`, `SleepAndRetry`),
`SettleApproval`, `Ask`/`SettleQuestion`, `GateEdited`, then the serial path
(`CheckQuota`, `Launch`, `ToolEnds`) or the parallel one (`LaunchAll`), and
`FinishRound`. `pending` stands for the two maps of senders, `sent` for the
answers that `respond_to_*` accepted. A call is its tool, a policy the outcome it gives to each
tool; which arguments match a rule is a choice. The installed policy is chosen in
`Init`: `set_policy` during a round is left out. `Unusual` bounds how many
exceptional events a behaviour has.

**StreamRound.** A call's arguments arrive in two pieces, the path and the rest.
`ToolCallDelta` may start a read as soon as the path is there; `SpecStat` and `SpecRead` are the steps of
its task. `Switch` moves to the fallback endpoint and voids the
partial calls. After the loop, `Assemble` waits for the reads, `Validate` compares
each with its file, once, and `RunRead`, `RunEdit`, `RunNull` run the calls in order or at
once. A file is a content number and a modification time; `Write` is
another program, which may put the time back. The idle timeout is not an action:
it is built anew in every iteration of the loop, which lasts 100 ms at most, so it never
elapses.

**BackgroundJobs.** `SpawnHook`, `AdoptHook`, `SpawnReview` register a job;
its task goes through `AcquirePermit`, `Drained`, `Reap`, `Enqueue`,
`Interrupt`, or panics and is found by `Watch`. A round of a transcript takes the
delivery queue (`Drain`) and then the steers (`TakeSteers`) under two locks.
`holder` translates a transcript into the name its jobs use, which for the
session is not the key its rounds drain. `Clear`, `EndAttempt` and `PruneOld` come
at any time. Queues are sets, as they are always emptied whole. `heard` is a
history variable.

**SessionStore.** The log is its lines and what follows the last newline, the
tail. `record` appends an entry and, if something in it was redacted, a second line that
says so. Each write may stop anywhere, because the process dies (`Crash`) or because the
file system refuses the rest while the process goes on (a *fault* of the write, which the
code only warns of). A tail is a whole entry without its newline, a part of one that is
still text, or one cut inside a character (`Cut`), which is not UTF-8. `read_session` is
translated with its order of checks: it refuses a log longer than `ReadCap`
(`MAX_SESSION_LOG_BYTES`), fails on a `Cut` tail because the file is read as a string first, and
only then drops a torn last line. `persist_state` is four steps (two
clones under two locks, the temporary file, the rename); the last two may fail, which is logged,
and it runs concurrently with itself, in one process and in two. One transcript key's
plan and decisions are modelled; `forget_transcript`'s removal of an agent's plan is not.
`since` is a history variable of a save: what the memory of its process has held at the change
it was called for and after it.

## Runs

### Passing

| run | states | what it shows |
|---|---|---|
| `path_lock` | 13 k | `MutualExclusion`; `ImplementsPathLock`: no sweep or race gives a path a second mutex, no permit is lost and nobody is overtaken; `WaitersAreServed` |
| `file_tools` | 645 k | with every mix of tools and other programs that save the file, `LostOnlyAcrossLocks`: no call under the same lock takes a reported change out again, unless it replaces the whole file, whatever calls under the other lock do in between; `PatchKeepsSeenSaves`: what `patch_file` saw in its second read it never clobbers |
| `task_coordinator` | 155 k, up to symmetry | `LoadMatchesWork` in every intermediate state (each slot is released exactly once, `saturating_sub` hides nothing) for every agent whose tasks were not re-assigned in the middle of an `unassign_task`, and re-assignment spoils nobody else; `TerminalIsTerminal` |
| `provider_concurrency` | 31 k | `InFlightIsHolders`, `CapAdmits` (an overshoot after a resize-down only drains), `NoDeafWaiter`, `StarvedOnlyByGrants`: an acquire is answered, or permits are granted to others for ever |
| `transcript` | 917 k | what does hold of the ways to shorten a transcript: `PairsKept` (a result loses its call only behind a pinned row, and never at the hard threshold), `RowsKept` (pins survive the caps, `/compact` and a prewalk, and a new row its own caps) |
| `turn_loop` | 266 k | `NoDeadRows` below the row cap, `RequestPaired` on every endpoint and re-drive, `TurnEnds` |
| `swarm_run` | 569 k | `DependenciesFirst` for every subtask that can be met, `FailureGate` for all, `Reported`: one event per dispatched result and two for a subtask failed by its dependencies, no more and no fewer, with what each early exit leaves out; `StopIsFinal`, `RunEnds` |
| `tool_round` | 183 k | `Consent`: no call runs that a hook, a gate or the user refused, and none that had to be asked about unless the answer to that very dialog approved it, however answers race deadlines, cancels and shutdown; `NoStalePending`; `QuotaOverrun`: by at most one call per other transcript; `RoundEnds` without any answer |
| `background_jobs` | 184 k | `StatusIsFinal` (a panic after the end does not rewrite it), `JobSettles` (behind the cap and after a panic), `AgentHears`: an attempt that lasts hears of its job |
| `session_store` | 1.6 M, up to symmetry | `LogKeeps`: torn writes and restarts lose nothing that could be read before, but for the steps it names (a tail cut inside a character, a record behind a tail, a log grown past the cap); `SaveHoldsItsChange`: what a save puts into `state.json` is no older than the change it was called for, whatever saves of the same process overlap it |
| `stream_round` | 354 k | `CallsOfOneStream` over mid-stream switches; `NoStaleAnswer`: no answer is older than the files were when the calls began to run; `CancelEnds` with a silent provider |

`TypeOK` is checked beside them where a module has one.

### Violation

`stream_reads` states what `tool_dispatch.rs` 858 says, `ReadsOwnWrites`: in a
round `[edit a, read a]` "the read is guaranteed to observe the write". TLC finds the round
in which the read was started while the call was still streaming, validated before
the first call ran, and handed to the second after the first has written the file.
`PROJECT.json` ("findings") quotes the lines.

## Bounds

* `path_lock`: three callers are needed for a holder, a waiter with the permit
  assigned and a third that could overtake or get a second cell; two paths for a
  cell to be confused; a third cell so that a wrong `release_all` has one to give.
* `file_tools`: one file, since locks and snapshots are per path; three calls of any
  tools, so that two race while the third has swept, read or been refused. Calls are
  interchangeable (symmetry; no liveness is checked in this run).
* `task_coordinator`: three callers allow two to finish the same task while a
  third moves it; of three agents one keeps its books while the others' are crossed. Agents,
  tasks and callers are interchangeable. `MaxLoad` stops the counts of crossed agents, which
  drift without end; with two tasks no other agent gets above two.
* `provider_concurrency`: four callers, so that a waiter sees two others take turns and a third wait
  beside it; caps 1, 2 and 0 (unbounded) cover growing, shrinking and both directions through zero.
  The number of requests has no bound, which matters for the starvation of a waiter.
* `transcript`: the caps are scaled down (3 rows, budget 4) so that five rows cross
  them more than once; sizes 1 and 4 make one row fill the budget. A round of two calls and one
  more row cut into the round; four rows make a handoff whose summary is the fifth. `MaxRows` and
  `MaxCalls` are the bounds.
* `turn_loop`: two endpoints, a candidate that is new, one that repeats and one
  that does not resolve; two rounds, so that an attempt can fail after a persisted
  round; one wait and one steer. The turn finds an empty transcript or one with a tool
  round. The row cap is out of reach on purpose (see
  [Disagreements](#disagreements-between-code-and-documentation)).
* `swarm_run`: four plans of three subtasks (chain, join, cycle beside a sound
  subtask, unknown name with a dependent of it), one retry, two cancels of either
  kind in either order. The theorems about `SwarmRun` have no such bound.
* `tool_round`: a session with two writes, or a fetch and a question, beside an
  agent with one write: enough for a serial and a parallel round, two dialogs in
  one queue and two rounds on one quota (`PerTurn` 1, so that the second write meets
  it). Three policies (ask, deny, none). One round per transcript and one unusual event
  per behaviour: each event meets every state of two plain rounds.
* `background_jobs`: two jobs under a cap of one, so that one waits behind the
  other; two attempts, so that a job can outlive its own.
* `session_store`: two processes that share a log and a state file, and two workers of which
  each can be a task of either, so that saves overlap within and across processes. Processes and
  workers are interchangeable. `ReadCap` of two lines is outgrown by a third. `MaxWork` bounds log lines
  and changes together (three) and `MaxFaults` failed writes, crashes and exits together (two): the log and
  the state file have nothing in common but the processes that write them, so a behaviour of one need
  not be tried beside a long one of the other; two faults reach a torn tail, the record after it, a
  second fault within that and the read after.
* `stream_round`: two calls on two paths; two streams; three text chunks with a
  judge at every second; one write by another program. `stream_reads` needs one
  path and neither text nor switch.

Deadlock is checked in `path_lock`, `file_tools`, `provider_concurrency`,
`background_jobs` and `swarm_run` (whose end is an explicit stuttering step, `Done`). It is
switched off where a behaviour may end: all tasks finished, the turn or the round
over, the bound on rows, lines or rounds reached.

## Fairness

Weak fairness of the steps of a task says that the tokio runtime polls a task that
was woken, no more. Beyond that:

* `PathLockTable`: a critical section ends. After the lock, the bodies of
  `write_file` and `patch_file` contain no await.
* `ProviderConcurrency` and `TurnLoop`: a request ends. This is an assumption
  about the environment: the provider finishes the stream or the connection
  fails. The code does not enforce it: the idle timeout of `stream_round` is built
  anew whenever the 100 ms cancel poll fires (`agent_loop.rs` 856), so a silent
  stream is only left by a cancel, and `stream_guard.rs` looks for repetition in
  what arrives. `StreamRound` makes no such assumption: only the timer, the
  tasks of the reads and the code after the loop are fair, and `CancelEnds` holds.
* `ToolRound`: the steps of a round are weakly fair and a tool returns. The
  deadline of a dialog is strongly fair, since polls and the deadline are both disabled
  while the wait sleeps. Nobody has to answer, to cancel or to resume.
* `BackgroundJobs`: a command ends its output some day, which nothing in the code
  enforces (a job that never ends keeps its permit); the session has another
  turn and a running attempt another round.
* `ProviderConcurrency`: nothing orders the callers. Weak fairness of a waiter's poll does
  not help against newcomers that barge, so "every acquire is answered" is false and
  `StarvedOnlyByGrants` says what is left: while it waits others are admitted again and again.
* `TurnLoop`: none for resuming at the pause gate; `TurnEnds` excuses a paused
  turn.
* `SwarmRun`: a turn ends (the property of `TurnLoop`). None for deadlines, the
  handoff or cancels, so `RunEnds` does not lean on them.

## Proofs

All constants are arbitrary up to the named `ASSUME`s; TLC evaluates those on every
run. They say that callers, tasks, subtasks and transcripts are finite sets where
something is counted (`FiniteAssumption`, `RoundAssumption`), that limits and
bounds are naturals, and that special values (`NoCell`, `NoRead`, ...) are outside
the sets they are added to. `PriorsAssumption` says what turns leave behind: rows
numbered from 1, no pinned tool result, results behind their calls. Some theorems
have a hypothesis beyond that:

* `TranscriptKeepsRows` (`TurnsFit`, `RoundsFit`): a turn fits the character budget,
  a tool round the row cap. The code has no such check (`transcript.rs` 67,
  `render.rs` 762). TLC checks `RowsKept` where both hold;
* `RequestsArePaired` (`PriorsPaired`): the transcript found has no orphans and no pins;
* `DeadRowsAreCut` (`[]RoomForRound`, of the behaviour): the row cap is not met.
  `MAX_TOOL_ROUNDS` and `MAX_HISTORY_TURNS` are both 40, so a turn may well meet it; what
  the theorem needs is only that the round that runs has room, and it covers every turn
  until then.

All are met by the constants of the passing run, and without any of them the property
fails (see
[Disagreements](#disagreements-between-code-and-documentation)).

Each proof has the same shape: an inductive invariant as a conjunction of named
parts, a lemma per group of actions that it is preserved, and the property from it.
What the invariants add to the properties, and why:

**PathLockProofs**, the table (any callers, paths and cells). `TypeCorrect` is
inductive as it stands. `PathMutualExclusion` is not: two holders of a path could in
principle have different cells, or share one whose permit belongs to neither.
`MutexInv` adds that all users of a path refer to the table's cell and no two paths
share one (`OneCellPerPath`), and that a holder owns the permit of its cell
(`HolderOwnsPermit`); mutual exclusion follows because the permit has one owner.
`ReleaseAll` keeps it because a cell that is referenced is not removed.
`PermitInv` adds that the waiters of a cell are distinct callers queued there
(`WaitersWait`) and that a permit is owned by a caller that will use it or pass it
on, and free only when nobody waits (`NoLostPermit`, theorem `PermitsAreKept`).
With it `TableImplementsLock` maps every step to a step of `PathLock` or to a
stutter; the lemma on `ReleaseAll` (a cell that goes has neither owner nor waiters)
is what makes sweeps stutter.

**PathLockProofs**, the tools. `ToolsKeepTheProtocol` (`FSpec => Spec`) carries the
theorems about the table over to the tools. `ReportedChangesStay` rests on
`MutualExclusion` and on `Guarded`: a patch that has read its file holds the path,
an edit past its guard holds the edit store. The two do not exclude each other, so what a
writer is about to write need not contain every change reported so far; `Agrees` says that
it contains every change reported under the writer's own lock that is in the file, and none
reported under the other lock that is not. What a save may drop is thus exactly what the
property excuses (`LossExplained`), and a save never brings a lost change back.
`PatchesKeepSaves` holds for any mix of tools: it needs no lock, only that a patch
that passed its second read found its text again (`FoundAgain`).

**ProviderConcurrencyProofs** (any finite set of callers, any caps, any number of
requests). `CountIsExact` goes through by cardinalities of the set of holders; it
shows that the saturating decrement never saturates. `NoWakeUpIsLost` needs the exact
count: an acquire that fails saw `in_flight >= cap > 0`, so somebody holds a permit
and will notify. It also needs that the registered waiters are distinct and parked,
so that a notification reaches a caller that looks again. `CapIsRespected` is the
action property.

**SwarmProofs**, the run (any plan, any number of attempts and cancels).
`DependenciesComeFirst` needs the partition of the subtasks (remaining, in the
wave, with a result) and that each member of the wave is either stuck or has all
its dependencies completed. The heart is the fallback: if a wave has nothing
ready and nothing failed out, the blocked subtasks all depend on one another or on
unknown names, so they are stuck in the sense of the property. `FailuresGate` says
that the fallback is never a way round a failed dependency. `StopsAreFinal` needs
that a stop in time is still in the table with an epoch above the one the attempt
clears through. `EverybodyIsReported` needs `Announced` (how many events of each kind every subtask has by
now, by phase: none while it waits, one failure once a wave has given it up, and `Report` adds one
for every result), which the deadline and the handoff leave where they found it, and
`GuardLasts`: every wave takes at least one subtask out of
`remaining`, so the iteration guard, which starts above their number, is never what
ends the loop.

**SwarmProofs**, the coordinator. `FinishedStaysFinished` needs the types only.
`LoadIsWork` counts: the load of an agent is the number of tasks it works on plus
the number of calls that have taken a task from it and not yet decremented.
`Booked` adds that the assignment map agrees with the status of a task
(`RecordsAgree`, `WaitingIsUnassigned`) for the agents outside `crossed`, so each step
changes one of the two numbers with the load or moves one from the first to the second. An
assignment in the middle of an `unassign_task` of the same task puts both agents into `crossed`;
that it cannot disturb a third is what the proof shows. No discipline of the callers is assumed.

**TurnLoopProofs**, the transcript (any caps, budget, sizes and pins). `PairsKept` is
not a matter of one step: the caps cut wherever a run of tool results begins, which
takes no call from a result only because results stand right behind their call row.
`Sound` says so (`Contiguous`, with unique ids and no pinned result) and is inductive
(`TranscriptInvariant`). Both caps keep a part of the rows, in their order (`Picks`),
and of the part it matters only that it is *safe*: pinned rows are in it, and a
result loses its call only behind one (`KeepIsSafe`, `TrimIsSafe`). A safe part of a
safe part is safe (`PartOfPart`), so append, cap and trim compose. That a new row is
remembered is a count: fewer than `MaxTurns` rows are pinned or follow it
(`YoungIsKept`). A compaction replaces a prefix by a pinned row, behind which
anything goes, also where a plan applied late is cut short; that `safe_cutoff` splits no pair
is what remains for `CompactNow`. A prewalk that fires takes out the row with the nudge's id,
and to know that this is no call and no pin the invariant follows the id (`NudgeInv`) through every operation:
they keep the roles of the rows they keep (`OldRows`).

The prover has no induction over sequences. Its place is taken by least and greatest
elements of sets of positions (`Least`, from the well-foundedness of the naturals),
and the model says directly which rows stay: `Retain` by rank, `cutoff` as
the least position from which the rows fit.

**TurnLoopProofs**, the turn (any chain, candidates, waits and rounds).
`RequestsArePaired` follows the messages: a snapshot of a transcript that is paired
and has no pins, from which the caps can only cut a prefix (`CapKeepsPaired`,
`TrimKeepsPaired`), then whole rounds, texts and steers, each paired in itself
(`PairedConcatenation`). `DeadRowsAreCut` needs `RewindInv`: the history starts with
the messages of the turn, so cutting it at `base` cuts the rows of the failed attempt and
no other, and the request has all that is in the history.

**ToolRoundProofs** (any number of transcripts, calls and policies).
`NothingRunsWithoutConsent` goes along the phases of a round, `RoundInv(t)`: nobody
is asked before the gate, nobody waited for and nothing started before the dispatch
(`InOrder`), the ids of the dialogs are the round's own (`OwnIds`), a call that needs
the user has its dialog, or is refused when nobody listens (`AllAsked`), and a
dialog that is no longer waited for was approved, or its call is refused
(`Decided`). A late answer cannot
change a decision, since an answer is accepted only while its sender is registered.
`NoSenderIsLeftBehind` is part of the same induction. `QuotaOverrunIsBounded`
counts the rounds that have passed the check and not yet counted their call
(`Passed`): whoever passes finds less than the quota, so the count and those
together stay below the quota plus one per transcript.

**StreamRoundProofs** (any number of calls, streams, chunks and writes).
`EveryCallHasOneStream`: partial calls carry the stream that began them, and after a
switch there are none of an earlier one (`Shapes`, `Sourced`); only named ones are
run, and nothing is answered or accepted before all reads are compared (`NotYet`).
`NoAnswerIsStale` follows a file from the moment the calls are about to run:
`NoOlder(p, n)` says that the file, the accepted reads and the answers never go back
behind its content n of that moment, whatever times another program leaves on it.

**BackgroundJobsProofs** (any number of jobs and permits). `PermitsBoundTheWork`:
a job that waits or works is Running (`Busy`), one that waits is in the line, once,
and nobody else is (`InLine`, `OnceInLine`), and an id not given out yet has no job
(`Given`), so that registering one takes nothing from another. `EndedStaysEnded`
is an action property over the same invariant: the steps of the task that write a
status start from Running by `Busy`, and the watcher looks before it writes.

**SessionStoreProofs** (any number of processes and tasks). `StateFileIsWhole`:
`state.json` is always a state somebody cloned. `SavesHoldTheirChange` needs that each half a save has
cloned is one its process has held since the change, and that what the process holds now is another
(`UpToDate`): a later change of the memory is noted by every save of the process under way
(`NotedTasks`). `LogOnlyGrows` goes by the ways
the log can move: not at all, by whole lines, by a part of one (`JournalMoves`). Its first version had only one exception,
the record behind a torn line; the proof failed for an entry that was
complete but for its newline, which TLC then showed with two crashes.

Only model-checked: liveness (`WaitersAreServed`, `StarvedOnlyByGrants`, `TurnEnds`,
`RunEnds`, `RoundEnds`, `JobSettles`, `AgentHears`, `CancelEnds`), which is out of the
prover's reach under fairness. Every invariant and every action property of the
passing runs is a theorem.

## Disagreements between code and documentation

The modules above reproduce these with other constants or a stronger property:

* `coordination.rs` 298. `unassign_task(t)` unlocks `tasks`; `assign_task(t, a2)`
  runs; `unassign_task` then decrements the load of `a2` and removes its record,
  and `a1` is one too high for good. The doc at 252 says it "Releases the load slot
  for the previous assignee and returns the task to Pending". `LoadMatchesWork` leaves out
  exactly the agents it happened to (`crossed`); stated for all, it is violated.
* `edit_hashline.rs` 313. `patch_file` has re-read the file; an `edit`, which takes
  no path lock, writes; the patch is written over it and both report success
  (`path_lock.rs` 5 and `tools.rs` 1688 promise otherwise). `LostOnlyAcrossLocks` without
  its exception, a change taken out by a call under the other lock, is violated.
* `transcript.rs` 588, `compaction_dispatcher.rs` 959, `render.rs` 774. `/compact`,
  the handoff and the cap behind a pinned row keep a tool result whose call is gone;
  `transcript.rs` 80 and `compaction.rs` 18 say why that must not be. `PairsKept` without its
  clause on pinned rows is violated, and so is `RequestPaired` with `MaxTurns = 4` and the
  first row of the transcript found pinned: `render.rs` 775 says that "every orphan sits
  at the front of the survivor region", where the pinned row is.
* `process.rs` 1005. With the transcript at `MAX_HISTORY_TURNS` each row of a failed
  attempt pushes out an old one, the length stays at the base, and
  `truncate_history_to` cuts nothing; the comments at 375 and 1002 say the rows of the
  attempt go, and `kod-core/tests/it/fallback_no_duplicate_rounds.rs` 1 that they must.
  `MaxTurns = 5` violates `NoDeadRows`.
* `concurrency.rs` 226. `acquire` tries the counter before it queues, so newcomers pass a waiter
  that was woken, and the waiter goes to the end of the queue. A steady load can starve it: the
  property that every acquire is answered is violated. `Notify` wakes in order, the permits are
  not given in order.
* `swarm_runner.rs` 1310 and 2042. A subtask that fails because a dependency did is announced as
  `AgentFailed` when its wave is classified, and again by the final report, where its result is an
  `Err` like any other. The comment at 1190 has it sent for what has "not been recorded as completed", once. `Reported` states the two.
* `swarm_runner.rs` 1677. A watchdog cancel overwrites the user's, or the user's lands
  between the read of a watchdog reason and `clear_cancel_for`; the stopped
  subtask is retried, against 1642 and `engine/mod.rs` 162. `StopIsFinal` excuses
  exactly these two.

Met while modelling the streamed and the tool round:

* The idle timeout of a stream never elapses (`agent_loop.rs` 813–866). A cancel is
  seen only after 100 ms without a chunk; if the stream ends first, the calls
  it has assembled run.
* After an error in mid-stream "any complete tool calls" run
  (`agent_loop.rs` 1217–1222): an incomplete one runs too, with null arguments. After
  an error that is not retryable the calls run although `process.rs` 1082–1131 may
  drive the turn again.
* Bytes read ahead do not say that they were cut short, as `read_file`'s own do.
* The taint gate runs before the policy, so a denied write is asked about;
  `settings.rs` 408 says the "policy engine has already had its chance to deny".
  Taint and per-turn counts belong to the engine, so the turn of any transcript resets
  them for all; refused calls taint as well; and a round of reads may well ask for
  approvals.

About jobs and their notices:

* A job of the session announces itself under `session` (`tool_dispatch.rs` 916);
  rounds of the session drain the key `""` (`constants.rs` 110). `tools.rs` 958–960 tells the
  model "Completion and stalls arrive as background notices." `AgentHears` is
  about agents for that reason; stated for the session it is violated.
* A command handed over without a spool is dropped, and the caller is told of a
  job; `hook.rs` 256–262 means to register it all the same.
* `forget_transcript` leaves the delivery queue, `/clear` leaves the steers.

About what is on disk:

* A record appended after a torn tail makes a malformed line in the middle, and
  the whole log unreadable (`session_log.rs` 336–339). The same goes for an entry
  whose write stopped just before its newline: a reader takes it for whole, and
  the next record is written behind it on the same line.
* A tail cut inside a character makes the log unreadable at once: `read_session`
  reads the file as a string (535) before it looks for a partial line, which the comment at 537–541 says is dropped.
  Entries are written with their non-ASCII text as it is.
* A log longer than `MAX_SESSION_LOG_BYTES` is refused whole (521–534), while `record`
  goes on appending to it. `LogKeeps` excludes these steps by name (`Spoils`, `TooLong`).
* A failed write of the log or of `state.json` is a warning; the caller goes on as if the change
  were kept. Two writers of one log are only apart as long as a line is one `write`: a short write
  is continued by `write_all` behind whatever came between, which is not modelled.
* Calls are logged under `session` and rehydrated under `""`, and only if memory has a
  consolidation interval. Refused calls have an end and no start.
* Saves that overlap may leave the older snapshot, two processes overwrite each
  other's (`state.rs` 7–9), and `apply_plan_update` saves nothing. `SaveHoldsItsChange` is about
  what a save writes, not about what a later one leaves.

Others:

* `compaction.rs` 813 (and the handoff and native rungs) drop pinned rows;
  `docs/tui-commands.md` 140 says a pinned message survives compaction.
* After a rate-limit wait the history is rewound and the request is not
  (`process.rs` 1005), so rounds the model has seen are missing from the next turn;
  `agent_loop.rs` 128 wants them to survive.
* A steer drained by an attempt that fails is lost with its messages;
  `control.rs` 429 says each is applied once.
* At the overnight handoff nobody is told about the remaining subtasks
  (`swarm_runner.rs` 1286 against the comment at 1272), and at the late deadline check
  only the wave is reported (1750 against 1767). Dispatches of a wave that had
  finished when the deadline dropped it are reported as failed.
* The cycle fallback also promotes what is downstream of a cycle; the comment at
  `swarm_runner.rs` 1057 speaks of cycles and unknown names only.
* The heartbeat of the watchdog belongs to the pool agent, so a new attempt may be
  cancelled for the silence of the one before it.
* `edit` returns a tag that no later edit can use (`edit_hashline.rs` 319 against
  229): the store has forgotten the path.
* A turn as long as the minimum budget allows empties the transcript
  (`transcript.rs` 67), and with `MAX_HISTORY_TURNS` pins the cap drops the row it
  was called for (`render.rs` 762).
* A cancel is not seen while a round is parked at the pause gate.
* A compaction plan is applied to the transcript it finds (`compaction.rs` 465–473): if rows were
  cleared and others added since, it drops rows its summary never saw; the comment there thinks of a
  transcript that shrank. The same goes for the summary that `spawn_compaction_summary` left behind
  and a later turn takes for a longer prefix (`compaction.rs` 809).
* A second `arm_prewalk` while one is armed pushes a second nudge and forgets the id of the first, which
  stays for good (`plans.rs` 224); the doc at 218 calls it a no-op. A prewalk armed while another fires is
  overwritten by the one that is done (`plans.rs` 328).
* `forget_last_turns_for` counts rows (`transcript.rs` 430). `/regenerate` and `/delete`
  ask for two, "one user + one assistant turn" (`kod-tui/src/main_loop.rs` 2893), which in an
  exchange with tools are the answer and the last tool result: its call row stays without a result.
* `/regenerate`, `/delete` and `/prewalk` use the key `session` (`main_loop.rs` 2896, 4507), turns are
  recorded under the default key, so none of them touches the conversation on the screen.
* Shutdown cancels the keys that are in the cancel table already
  (`lifecycle.rs` 577); `record_message` recreates the history of an agent that is
  gone (`communication.rs` 411).

## Not modelled

Time (timeouts may fire whenever they are armed), the text of prompts, diffs and
summaries, parsing, wire formats, subprocesses, rendering. Within the modelled
components: the collected path of a turn (`process_for`), the goal loop, usage and
stop-reason chunks, the rungs of compaction that rewrite rows in place and the background summary, the
decomposition of a task and its worktrees, the loop guard of a tool round and the
questions of the advisor, checkpoints and the commit lock. The components not
modelled at all are in `PROJECT.json` with the reason.

The models stand for about 6,400 of the repository's 198,000 lines. Most of the
rest has no state that two activities share: the terminal interface and the command line
(nearly 50,000 lines of drawing, key handling and printing), parsers, wire formats,
schema and text transformations, configuration, ranking, and the unit tests that
share files with the code. They turn one value into another and are the
concern of the repository's own tests. What keeps state and is still missing is in
the plan.

## Plan

Done, in this order: lock table, file tools over it, coordinator, concurrency
cap, transcript, turn loop over it, swarm run, with proofs for the lock table, the
cap and the swarm run; then the lock per path as an abstract specification, the tool round,
background jobs, the session log and state file with crashes, the streamed
round; then proofs for all of these, the transcript and the turn loop last.

All safety properties of the passing runs are theorems.

Modules to add: `AgentRegistry` (parking with generations, inboxes, the hub's
history), `ServeSession`, `RpcClient` for LSP and MCP (late answers, restarts), then goals
and endpoint health. Abstract specifications still worth stating: a
counting semaphore with a movable bound (by `ProviderConcurrency`), a transcript to
which a turn adds everything or nothing (by `TurnLoop` below the cap), a topological
execution of a plan (by `SwarmRun`).

## How to run

```
tlc -workers 2 -config SwarmRun.cfg MCSwarmRun
tlapm SwarmProofs.tla
```

The module, configuration and expected result of every run are in `PROJECT.json`.
