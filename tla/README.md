# Verification of little-drummer-boy (the `cockpit` coding agent)

TLA+ models of the parts of this repository that keep state, run concurrently
or survive a crash, the TLC runs that check them on small instances, and the
TLAPS proofs of what holds on every instance. Paths below are relative to
`src/src/` unless they name a document in `src/`.

`tlc -config X.cfg M.tla` runs a configuration, `tlapm M.tla` checks a proof
module. `PROJECT.json` lists components, runs, faulty variants, the map from
definitions to source lines, hazards and theorems.

## 1. Inventory of the system

`cockpit` is a daemon that serves interactive sessions (a TUI, or `cockpit run`),
plus a command line that executes authored plans.

| Part | Source | State it keeps | Operations | Talks to | Hard behaviour | What makes it correct |
|---|---|---|---|---|---|---|
| File-lock manager | `locks/mod.rs`, `db/locks.rs`, `tools/{readlock,unlock,writeunlock,editunlock,read}.rs` | `held`, `read_tracker`, `suspended` behind one mutex; tables `lock_state`, `lock_reads` | acquire, release, note_read, check_write_permitted, suspend_agent, resume_agent, from_db | called by tools of every session and by the driver; mirrors to SQLite | sessions interleave between the mutex and the SQLite half of a call; daemon crash; failing statements; external drift of files while suspended | a lock is given up by its owner only; memory and mirror agree outside a call; no lock outlives its frame; a writer knows the content |
| Exclusive-test locks | `engine/exec/reslock.rs` | per key: held flag, FIFO of `Notify` | acquire, guard drop, cancellation, poisoning | plan executor's test runs | two critical sections per acquire, lost wake-ups, cancellation of a woken waiter, panics under the mutex | mutual exclusion, FIFO order, no lost wake-up, entries exactly for keys in use |
| Plan executor | `engine/exec/{mod,scheduler,merge_queue,worktree}.rs`, `commands/plan.rs`, `git/mod.rs` | `plans.status`, `plan_steps.status`, git branches and worktrees; in memory: scheduler, batch, last stable tip | claim slot, run a step, test, rebase, retest, resolve, fast-forward, suite, complete | git, SQLite, spawned coders and shells; several processes share database and repository | process death between any two steps, two processes, commits of others, red tests, resolvers that misreport | done means landed; only tested trees land; a plan completes only when green; a paused run has a reason; every run ends |
| Plan authoring | `db/plans.rs`, `tools/plan.rs`, `commands/plan.rs` | plans, steps, dependency edges | create, add a step, add an edge, duplicate, read for a run | the executor reads it while others write | cycle check over what else is inserted; a plan that grows while a run reads it | the dependency graph stays acyclic; a run stalls for a reason; done means its steps are done |
| Session driver | `engine/driver.rs`, `engine/agent.rs`, `engine/model.rs` | agent stack, histories, message queue, next prompt, cancellation token | fold the queue, request, dispatch, delegate, spawn, finish, hand off, swap | worker (channels), model, locks, jobs, interrupts | cancellation, drain, failure and queued messages at every point of a turn, with children on the stack | no message is lost or reordered; a transcript is one the provider accepts; a cancelled run stops |
| Asynchronous jobs | `engine/jobs/*.rs` | registry of jobs, timers and tasks, event and command channels | start, tick, finish an iteration, end, cancel | driver (events, read at idle), worker (human cancellation, counter), shells and forks | completion racing cancellation, a channel that is full, shutdown with jobs alive | a live loop is neither lost nor doubled, every end is reported |
| Interrupts and needs_attention | `engine/interrupt.rs`, `db/needs_attention.rs`, `tools/question.rs`, `tui/` | pending oneshot senders, table rows, the dialog slot and outbound channel of a client | raise, register, emit, answer, resolve | tools wait, clients answer over the session they are attached to | answer before wait, crash while waiting, two answers, full channels, the wrong session | one answer per question; who waits in front of nobody does so for a reason |
| Daemon process | `daemon/{shutdown,mod,ephemeral_guard}.rs`, `commands/daemon.rs` | drain phase, client count, socket and pid file | start, stop, force, reap | signals, connections, the registry | a stop during the start, a second signal, an orphan | a daemon told to stop exits; an orphan ends |
| Registry of workers | `daemon/{registry,server,session_worker}.rs` | workers and join handles by session, work queues | attach, send, delete, archive, drain | clients, drivers, rows | lookup and insertion are two steps, delete during a turn, drain racing attach | one living worker per session; a clean drain cuts nothing short |
| Approval store | `approval/*.rs`, `tui/permissions_pane.rs` | session rows in SQLite, `approvals.json` per project and user | check a chain of commands, a path, a repeat; record; delete | tools, humans, other processes writing the same file | read-modify-write of a file by several writers, crash between the steps of a write | what was decided for a scope, and only that, decides later calls |
| Context management | `engine/{prune,compact,deleg_shrink}.rs` | histories, watermarks, background copies, seed calls | prune, shrink a waiting parent, inject seeds, compact into a fresh session | driver, cache timers, database | time passing anywhere, cancelled requests, a copy that is ready too early or too late | an elided body has a newer one; no warm prefix is rewritten unasked; a handoff carries the working set |
| Model calls and retry | `engine/{retry,model}.rs` | attempt counter, back-off | call, retry, cancel | providers | cancel during back-off, partial stream | a cancelled request ends; no half answer enters a history |
| Sessions and persistence | `session/mod.rs`, `db/*.rs` | rows | append, query, fork | everything | | append only |
| Terminal client | `tui/app/`, `tui/agent_runner.rs`, `daemon/client.rs` | busy flag, strip of queued messages, user turns, a saved view during `/side`; a runner with its channel and connection | submit, take back, attach, fork, leave, resume, compact, drain events | daemon: messages out over a channel and a request at a time, events in over a broadcast channel | lag, full and closed channels, time-outs, switching in the middle of a turn, messages and events that cross | the busy flag follows the turns, what was heard is shown, nothing is heard twice, a span ends |
| Caffeinate | `daemon/caffeinate.rs`, `daemon/server.rs` | mode and assertion behind a mutex, the glyph of each client | set, announce, watch, turn off when idle | sessions' live flags, the global broadcast channel | announcing and watching happen outside the mutex; flags lag behind the drivers | off by itself only when idle and still asked for; until-idle ends; glyphs show the mode |
| Other TUI, providers, config, redaction, intel, skills, CLI | `tui/`, `providers/`, `config/`, ... | presentation, caches, parsed files | | daemon | | |

How they interact: a client attaches to a session; the registry spawns its
worker; the worker runs a driver and feeds its channels; the driver runs agents
whose tools call the daemon-wide lock manager, ask the approver, raise
interrupts and schedule jobs, and keeps their histories short; a plan run is a
process of its own, which spawns `cockpit run` coders (which are sessions of a
daemon) and shares only the database and the repository with other plan runs.

## 2. Modules

| Module | Models | Cuts off at |
|---|---|---|
| `FifoLock` | abstract specification: one FIFO queue and at most one holder per key | |
| `ResourceLocks` | `reslock.rs`; refines `FifoLock` until the mutex is poisoned | |
| `FileLocks` | the lock manager, its mirror, the lock tools, the driver's frame stack | a turn: `Conversation` |
| `PlanExecutor` | the plan executor over git, database and processes | coders and resolvers are external |
| `PlanStore` | authoring, duplication, and a run's reads of a plan that changes | landing a step: `PlanExecutor` |
| `Conversation` | the driver loop, turns, frames, transcripts | jobs, locks, pruning: the modules named so |
| `ContextWindow` | pruning, shrinking, seeds, the `/compact` handoff | the shape of a transcript: `Conversation` |
| `JobAuthority` | the jobs of a session: authority, tasks, driver loop at idle, worker shutdown | what a fork does inside |
| `Interrupts` | questions to humans, from the tool to the dialog and back | |
| `SessionRegistry` | the workers of one daemon, their requests, their drain | a turn: `Conversation` |
| `Daemon` | composes `SessionRegistry` with the life of its process: connections, phases, signals, watchdog, exit | the start and stop commands and their files |
| `Approvals` | grants and loop-guard rules in three scopes and their files | classification of command lines |
| `ClientView` | a client's view of its session and the connection that feeds it | turns: `Conversation`; dialogs: `Interrupts` |
| `Caffeinate` | the keep-awake mode, its watchers and its announcements | how an operating system keeps awake |
| `ResourceLocksProofs`, `FileLocksProofs`, `PlanExecutorProofs`, `PlanStoreProofs`, `JobAuthorityProofs`, `InterruptsProofs`, `DaemonProofs` (with the registry), `ConversationProofs` | inductive invariant, lemmas and theorems about the module named (section 4); the last part of four of them is about a second module: `Approvals` in `ResourceLocksProofs`, `ContextWindow` in `JobAuthorityProofs`, `ClientView` in `PlanStoreProofs`, `Caffeinate` in `ConversationProofs` | |

Each `MC...` module only gives constants their values. An operator whose comment
begins with "Bug:" or "Faulty variant:" is what a plausible bug would make of
the definition below it; no specification uses it, and `PROJECT.json` "mutants"
says which property it must violate.

### ResourceLocks

State: `present` (keys of the map), `held`, `waiters` (the `VecDeque<Arc<Notify>>`
as a sequence of tasks), `permit` (a `Notify` stores at most one permit), `pc`,
`want`, `poisoned`. One action per critical section of the std mutex:

| Action | Code |
|---|---|
| `FastPath` | first critical section of `acquire` (62-78) |
| `Enqueue`, `EnqueuePanics` | second critical section (80-95); `expect("key inserted above")` |
| `Claim`, `Park` | one turn of the wait loop (97-121) |
| `Wake` | tokio completes `notified()` and consumes the permit |
| `Release` | `ResourceGuard::drop` -> `release` |
| `Cancel` | the future is dropped while it waits: `WaiterCleanup::drop` |
| `DiePoisoned` | `lock().unwrap()` on the poisoned mutex |

### FileLocks

State: the three maps of `LockState`, the two tables, the files, the stack of
frames of each session and the call each session is in (`op`). A session runs
one call at a time; calls of different sessions interleave. A call is split
where the code leaves the mutex: the in-memory part, hashing a file, writing a
file, every SQLite statement. `Restart` is the death of the daemon and
`from_db`; `DbError` a failing statement, whose error the caller propagates or
logs as in the code.

Decisions and simplifications:
- The root agent holds no lock tools and is the empty stack. An agent name
  appears once in a stack.
- All files of a snapshot are hashed in one step, and files are changed by the
  write tools only (not by an editor outside).
- A path is canonical. The code falls back to the given path when the file does
  not exist, so that an alias of a path could name another lock; not modelled.
- Deleting a session cascades to its rows but not to memory; not modelled.
- `TurnOutcome::SpawnSubagent` is modelled; a noninteractive subagent does not
  suspend its parent and is not modelled.

### PlanExecutor

State: database (`status`, `stepStatus`), repository (`tip`, `branch`,
`worktree`, `loose`), and the memory of each run (`pc`, `sched`, `batch`, `cur`,
`stableTip`, `red`). `tested` and `green` are history: the tree of the last
green tests and the tip of the last green suite. A history of commits is the
sequence of the steps that made them (and `Outside`).

A run is one process of `cockpit plan run`; each statement that touches shared
state (database, repository) is an action. Coders, tests, rebase conflicts and
resolvers are external and nondeterministic. `Stop` is the death of the process
or any `?`; `CommitOutside` a commit on the main worktree by somebody else.

Decisions and simplifications:
- Both drivers (`run_plan`, `run_plan_shared_tree`) are one set of actions;
  `InTree(r)` selects the branch where they differ.
- The driver is sequential within a run, so a rebase conflicts only because of
  commits of others, of another run, or of a base branch that is not the one
  checked out. `ResourceLocks` is created per run and therefore never contended
  by this driver; it is verified for the concurrent use it is written for.
- Metrics, timings, the text of briefs and notifications are left out;
  `blocked_by_failure` only feeds the report.
- Queued plans: nothing in the code starts a plan that was refused, and no
  action does.

### PlanStore

State: the rows of plans, steps and edges; `copy` of a `plan duplicate` between
finding a free slug and its transaction; and for each run what it has read
(`known`, `edges`) and the state of its scheduler. A run reads rows, steps and
edges in separate statements (`ReadRows`, `ReadSteps`, `ReadEdges`), and a tool
may add to the plan between any two; `late` records the steps a run cannot have
read packets of. `FindPath` is the depth-first search of the cycle check, given
as reachability: in every set closed under the edges. `Begin` and `End` are one
step of work, which `PlanExecutor` models in detail.

### Conversation

State: `input` and `control` (the driver's channels), `stack` (frames with agent,
history and the call the frame answers), `prompt` (`next_prompt`, which is not in
the history until a model has answered it), `calls` (of the current assistant
turn, not yet dispatched), `token` (`cancel_current`), `shrink` (the background
copy of each paused frame). `heard`, `refused` and `abandoned` are history.

The driver is one task (`pc`), and the actions are the stations of its loop:

| Action | Code |
|---|---|
| `TakeInput`, `Admit`, `Refuse`, `TakeControl` | the `select!` at idle, `drain_queue`, the injection guard, `swap_primary` |
| `Request`, `Abort`, `Fail` | guidance diff, gate, the biased select on the token in `model.rs` |
| `Retry`, `Reattempt` | `with_retry`: back-off and probe, without a last attempt |
| `Respond` | the answer is complete: prompt and assistant turn enter the history together |
| `Dispatch`, `Continue` | calls one by one; the last result becomes the prompt unless messages wait |
| `SpawnSubagent`, `Delegate`, `JobAction`, `Handoff` | the structural calls, which leave the turn |
| `DelegateReturns`, `PopChild`, `Finish` | a child's report, seeds, the end of a run |

The world beside it: `Send`, `SetAgent`, `CancelRun`, `Drain`, `EditGuidance`,
`Draft`. Decisions: a message is a number; the model asks for any of a set of
call sequences until `MaxAsking` rounds, then only answers; a guidance edit
happens once; titles, skills, translation and audit rows are left out, and
pruning keeps the shape of the transcript.

### ContextWindow

State: per frame a history of user, turn, report and result entries, where a
result names the identity of its call and whether its body is full, an error or
a marker; the watermark of the last look (`mark`); the background copies; three
clocks (`idle` since the session's last send, `spent` in a delegation, `age` of a
frame's prefix); the calls table (`ledger`); and the session `/compact` has made
(`heir`). `age` and `heir.shown` are history.

`Request` is `maybe_auto_prune` and the send in one step, as no await lies
between; `Draft` is `run_shrink` in the background; `DelegateReturns` and
`PopChild` are `finish_delegation_shrink`, with `inject_seeds` in the former;
`Compact`, `Attach`, `Restart`, `Tell` are the handoff. Decisions: only snapshot
calls are kept; call ids are unique across a history; the instance checked has seed lists without repeats
(section 4 says what a repeat does); `Seeds`, what `derive_seed_tools` takes along,
is a set, so that the order in which the successor runs its seeds is left open; steps
of the old session after the handoff do not reach the new one and are left out.

### JobAuthority

State: `registry`, `iteration`, the timer or task of each job (`task`), the two
channels (`events`, `cmds`), what the driver does (`turn`), the worker's state
and its counter `active`. `told` and `lost` are history: reports that reached
the main context, and those that met a full channel.

The driver is sequential, so a turn is a period (`turn # "idle"`) in which the
model may start and cancel jobs, and `EndTurn` is the code after it. Timers and
tasks run beside it: `Fires` (interval over, command or fork at its end), then
`Send`, which waits for room. `DriverEnds` drops the authority and the
receivers but aborts no task, as the code does.

Decisions and simplifications:
- A fork and a shell command are alike here: a task that ends when it likes and
  holds a sender of engine events. The iterations inside a fork, its notes and
  its spawn requests are not modelled, nor are backoff and output rings.
- An abort of a task that is just sending is either before or after the send.
- The iteration count of an unlimited loop is only displayed, and stays 0.
- The `JobStarted` signal is taken to find room in its channel.
- A job id is used once (`task[j] = "new"`), as ids are random.

### Interrupts

State: `row` (the table), `tool` and `got` (the waiting call and its oneshot
channel), `hub` (registered waiters), and of each client the session it is
attached to, its one dialog slot and its outbound channel; `work` and `input`
are the queues of the session worker and its driver. `excuse` is history: the
last reason why a question may be in front of nobody.

A tool call is `Persist`, `Register`, `Emit`, `Resume`; an answer goes
`AnswerDialog` (a `try_send`), `Deliver` (server), `ServeAnswer` (worker: row,
then hub). `OpenAttention` is the attention pane. `ForwardMessage` waits for room
in the driver's input, and with it everything behind. Decisions: a dismissal is
an answer; an event reaches a client at once; the pane's list may be stale.

### SessionRegistry

State: the two maps of the registry, the worker tasks with queue, input and
driver, the rows, and of each client task the request it is in the middle of and
the handle it holds. Every access of the maps is one action, so a lookup and the
insertion after it are two (`Lookup`, `StartWorker`), as are the gate and the
send of a message (`CheckGate`, `SendWork`) and the three steps of a deletion
(`AskShutdown`, `Forget`, `Apply`). `overtaken` is history: the sessions of which
two requests overtook each other.

### Daemon

Completes `SessionRegistry` to a specification: `stage` is how far the process
has come, `phase` the `ShutdownPhase`, `notified` whether the accept loop's
`watch` receiver has something to see, `present` the connections and `watchdog`
whether the reaper of an ephemeral daemon is at work. A request begins only on a
connection, the gate of the registry closes with the first request to shut down
(`RequestShutdown`), and the drain begins when the accept loop has returned
(`Subscribe`, `AcceptLoopEnds`), which requests the shutdown again. Left out: the
start and stop commands, socket and pid files, the guard a client keeps on the
daemon it spawned, and a grace timer of its own (a second `Stop` has its effect).

### Approvals

State: the two tables of the session scope, and per scope with a file the file
and the temporary file beside it; `op` is what a session's call, or the pane, is
in the middle of. Queries are as in the code (`Granted`, `LoopRule`); a write is
`Load`, `Open`, `Write`, `Rename`, since nothing serialises two writers: they
share the temporary file, and a file opened under it follows its inode when
another writer renames it. `Crash` kills the daemon anywhere, the pane lives.
`standing` (the decisions made and not removed) and `clash` (the files two
writers overlapped on) are history. Left out: parsing of command lines, the
threshold of the loop guard, several concurrent calls of one session, the
separate safety gate.

### ClientView

State: `view` (the fields of `App` a switch of sessions touches: runner, busy
flag, strip, user turns of the history), `composer` (a message taken back),
`saved` (the snapshot of `/side`), `link` (per runner the channel to the daemon,
the request under way, the broadcast receiver and the list of events not yet
drained), and of each session `input`, `batch`, `driver` and `heard`. History:
`via` and `dropped` follow a message, `recalled` and `early` those taken back and
those shown too early, `lagged` the runners that lost an event, `sure` whether
the busy flag is about this session at all.

| Action | Code |
|---|---|
| `AttachForDisplay`, `Submit`, `Recall` | `ensure_session_for_display`, `submit_input`, `history_up` |
| `EnterSide`, `EndSide`, `NewSession`, `Resume`, `CommitCompact` | the commands that change sessions, with the discard of a fork where they leave one |
| `Forward`, `Deliver`, `TimeOut` | the runner's forwarder, the server's gate and queues, the 5 s of `DaemonClient::request` |
| `Receive`, `DrainEvents` | connection and event task; `drain_agent_events` with `apply_event` for each |
| `Take`, `BeginTurn`, `Refuse`, `Round`, `Retry`, `EndTurn`, `Serve`, `Fail` | the driver, as far as its events tell |

Decisions: a message is a number; only the three kinds of events that touch busy
flag and queue are kept (`ThinkingStarted`, `Reconnecting`, `AgentIdle`); events of
a runner the client has dropped are left out, since nobody reads them; messages
folded into one are separate elements, and the cap on folding is not reached;
`/side` with text in the composer is not modelled. `After` is `apply_event` for one
event; `DrainEvents` uses `Applied`, what a whole list of events leaves behind, written
without recursion. `AppliedFolds` of `MCClientView` has TLC check over all short lists
that `Applied` is the fold of `After`.

### Caffeinate

State: `mode` (off, on, until-idle: the two flags of `CaffeineState`), of each
client its connection and the request it is in, of each request the watcher it
may have started, and of each session what its driver does (`agent`, `job`), the
events the forwarder has not seen (`news`) and the flags it keeps (`live`).
`Apply` and `Announce` are the two halves of `set_caffeinate`; `Look`, `Count`,
`Decide`, `TellOff` a turn of the watcher. `newest`, `inOrder` and `asked` are
history. The assertion of the operating system is acquired or refused; the scope
(display or system) and the texts are left out.

## 3. Runs

| Run | Instance | Shows |
|---|---|---|
| `reslock` | 2 keys, 3 tasks | mutual exclusion, no lost wake-up (cancellation of the woken head included), no leaked entry, refinement of `FifoLock`, every queued task is served |
| `locks` | 2 sessions with agents of different names, 1 path, 2 contents, stack of 2, 1 crash or 1 failing statement | locks are released by their owners, no lock outlives its frame, mirror and memory agree outside calls |
| `plan` | 2 runs of 2 plans (2 steps in worktrees, 1 in the shared tree), 1 outside commit, death anywhere | done has landed, landed was tested as a whole, branches contain their dependencies, no run goes round in circles |
| `plan_store` | 2 plans, 4 steps, 3 edges, 1 duplication, 1 run | steps and edges form a DAG, a run stalls for a known reason, done means done |
| `conversation` | 2 messages, 1 switch, 1 ctrl+c, 1 drain, 1 guidance edit, 2 asking rounds, stack of 2, compacting shrink | results follow their calls, calls without a result have a known cause, no message is lost or reordered, messages are settled |
| `context` | 2 messages, 4 requests, 3 calls of 2 identities, 1 delegation, TTL 1, with and without cache and brief | markers point, cold requests are pruned, warm prefixes are kept, a handoff carries what was shown |
| `jobs` | a timer, an endless loop, a command; cap 2, channel of 2, 1 human cancellation | a live loop's next iteration is in exactly one place, every end is reported, the status returns to idle |
| `interrupts` | 2 sessions, 1 client, a foreground and a forked question, channels of 1, 2 messages, 1 look at the pane, 1 crash | one answer per question, who waits in front of nobody does so for a reason, an answer on its way resumes the tool |
| `daemon` | 1 session, 2 clients, 2 workers, 2 messages, ephemeral, any number of stops | one living worker unless two requests overtook each other, a clean drain cuts no turn short, no stop is missed |
| `approvals` | 2 sessions of one project and the pane; 3 calls, 1 deletion, 1 crash; a chain with a wrapper, a directory, a file in it, a signature | nothing passes without consent, nothing is asked twice, the nearest rule decides, unless two writers of a file overlapped |
| `client` | 2 sessions, 2 runners, 2 messages, channels of 1 and 2, and one of: a message taken back, an extra round, a switch away and back | the busy flag follows the turns, what was heard is shown, a message is heard once unless taken back |
| `caffeinate` | 2 clients, 1 session, 2 requests, 2 connects, 1 turn, a broadcast channel of 1 | glyphs show the mode unless two announcements overtook each other; until-idle ends |

Configurations beside these, for what does not fit in them: `MCDaemonEnds.cfg`
(`StopEnds` and `OrphanEnds`, with one client), `MCClientViewEnds.cfg` (`SpanEnds`),
`MCPlanExecutor.cfg` (`PausesForAReason`, `CompletesOnGreenTip`, `RunEnds`, one
run of a larger plan). `HolderHasRead` of `FileLocks` was checked with
`MCFileLocks.cfg`.

The properties that are about values at one moment are invariants; those about a
step (`ReleasedByOwner`, `LandsWhatItTested`, `DoneMeansDone`, ...)
are action properties; `EveryWaiterServed`, `EndedJobsTold`, `MessagesSettled`,
`AnswerResumes` and `UntilIdleEnds` are liveness. `RunsAdvance` is a
variant argument instead of liveness: a measure of what is left to do decreases
with every step of a run, which symmetry and two runs allow, and which implies
that a run ends; `RunEnds` itself is checked for one run by `MCPlanExecutor.cfg`.

Type invariants (`TypeOK`) are part of every module; they were checked with each
instance while it was built, and are not listed as properties of the runs.

### Bounds, and why they are enough

- Locks: 3 tasks and 2 keys: a holder, a head that was woken and one behind it
  are the three roles of a queue; a second key separates entries from one
  another. The safety part is proved for any numbers.
- Files: no call of the lock manager but suspend and resume touches two paths,
  and these treat paths independently (two paths without failures were
  explored, too: 603 thousand states, same result). 2 contents are "unchanged"
  and "drifted". A stack of 2 is a parent and a child; deeper stacks repeat the
  pair. One crash: a second one starts from a state a first one reaches.
- Plans: c on a is a chain, two runs are one that goes on and one that
  interferes, of the same plan or another. One outside commit moves the tip once
  between any two steps. `MCPlanExecutor.cfg` has a join and siblings.
- Stored plans: an edge added, one made with its step and one copied close a
  cycle of three steps, the longest that has a step not adjacent to the new edge.
- Conversation: two messages can be folded or arrive one after the other; two
  asking rounds put a structural call behind an ordinary one and in a child.
- Context: three calls of two identities are a duplicate, one between and one
  that is new; a TTL of 1 is "warm" and "cold", and a margin of 1 lets a copy be
  ready before the cache is cold.
- Jobs: one job is refused, and with two reports queued a third sender waits and
  a `try_send` fails (the code has cap 8 and 256 slots: the margin is larger, the
  cases are the same). A timer and an endless loop are the two outcomes of
  `iteration_finished`. The model may cancel any number of times, the human once.
- Interrupts: channels of 1 are full with one entry (the code has 32 and more).
  Two questions of one session compete for one dialog; the second session is the
  one a client is attached to when it answers from the pane.
- Daemon: two workers are the registered one and one displaced; two clients are
  two requests that overtake each other, a third repeats one of them. The clients
  are interchangeable, and so are the workers.
- Approvals: two sessions and the pane are two writers of the same kind and one
  that only removes; three calls are one that records, one that overlaps it and
  one that is decided by what both left.
- Client: a channel of 1 (32 in the code) is full with the message before, a
  receiver of 2 (1024) loses an event when three are under way. Two messages are
  one that opens a span and one that joins it. Two runners are the one in use and
  one that was dropped or kept for the way back. One extra (a round, a message
  taken back, a switch) is combined with everything else, two only in
  `MCClientViewDeviations.cfg`.
- Caffeinate: two requests are a mode and one that supersedes it; a receiver of 1
  (64 in the code) loses the first of two announcements.

### Fairness

`ResourceLocks!FairSpec`: weak fairness of each task's own steps and of tokio's
delivery of a stored permit; a holder releases (tests end: they are killed with
the process or by the human), so weak fairness of `Release` as well. Nothing is
assumed of new acquisitions or of cancellation.
`PlanExecutor!FairSpec`: a process that was started goes on, and the coder, test
or git call it waits for comes back, in whatever way. No fairness for outside
commits.
`JobAuthority!FairSpec`: turns end, intervals pass; strong fairness of a sender
that waits for room (tokio serves them in order) and of the branches of the
driver's `select!`, which picks at random among the ready ones. No fork or
command need ever end.
`Conversation!Spec`: weak fairness of the driver, whose tools and screening
return; strong fairness of a complete answer, since retries have no ceiling and
a provider that is asked again and again is taken to answer at last. Nothing is
assumed of humans or of background copies.
`Interrupts!Spec`: weak fairness of tool, connection and worker tasks. Humans owe
nothing, neither an answer nor to stay.
`Daemon!DaemonSpec`: a daemon that starts or drains goes on, the drain has a
deadline, and the watchdog's timer fires; nothing of clients, signals and turns.
`ClientView!ClientSpec`: the tasks of client and daemon run, the event loop ticks, and
turns end; nothing of humans, time-outs and rounds.
`Caffeinate!CaffeinateSpec`: the tasks of the daemon run and intervals pass; no turn and no
job need ever end.
`FileLocks`, `PlanStore`, `Approvals` and `ContextWindow` are safety only.

## 4. What is proved

Eight `...Proofs` modules extend a component's module. TLAPS checks their theorems
for every value of the constants that satisfies the named assumptions of the
component (null values differ from data, names of different kinds differ, bounds are
natural numbers, capacities are positive: nothing about sizes). Four of them extend a
second component as well and end with a part about it; the two parts share lemmas
about sequences and no state, and the second component names its specification apart
(`ApprovalSpec`, `WindowSpec`, `ClientSpec`, `CaffeinateSpec`). In each part an
inductive invariant (`IInv`; `ApprovalInv`, `WindowInv` and `WatermarkInv`, `ViewInv`
and `SpanInv`, `GlyphInv`), first checked by TLC on a small instance, is shown to hold
at the start and to be kept by every action; `Invariance` is `Spec => []IInv`,
`TypeCorrect` its typing part, and the other theorems follow from it with PTL. Where
one state needs more than the property, the property alone is not inductive; what was added, and why:

| Theorem | Property | What the invariant adds |
|---|---|---|
| `ResourceLocks`: `MutuallyExclusive`, `WakeupsKept`, `NoUnusedEntries`, `WaitersStayQueued` | `MutualExclusion`, `NoLostWakeup`, `EntriesInUse`, `WaiterIsQueued` | `held` is the set of keys with a holding task; a queue has no duplicates and is the set of waiting tasks of its key, as a cancelled waiter hands its wake-up to whoever is behind; no queue without an entry. The second `expect` of `reslock.rs` cannot panic |
| `GrantsInOrder` | `ServesInOrder` | the refinement of `FifoLock`: the start maps to the start and every step to a step or a stutter, until a panic poisons the mutex |
| `FileLocks`: `LocksOfActive` | `OnlyActiveHolds` | `Slots`: a held lock belongs to the top frame or to a call that is about to give it up, stage by stage of that call |
| `MirrorCoherent` | `MirrorAgrees` | `Halves`, `Pending`: where memory and mirror differ, one call has done its first half and its record says which half is left |
| `OwnerReleases` | `ReleasedByOwner` | `OwnNames`: calls, frames, locks and rows name agents of their session |
| `PlanExecutor`: `DoneLanded`, `LandsTested` | `DoneStepsLanded`, `LandsWhatItTested` | `Sole`: a branch that exists is never begun again, so that two runs never work on one branch; `Committed`: from the first test on the work is in the branch, and what lands is what was tested |
| `BuildsOn` | `BuildsOnDependencies` | `DepsMerged`: a step that was begun had its dependencies merged in the run's own books |
| `RunsForward` | `RunsAdvance` | the stages of a run in order; a step of one run leaves the other runs' memory alone |
| `PlanStore`: `StaysAcyclic` | `Acyclic` | nothing: the search of `add_dependency` yields a set the new edge cannot lead back from; a copy has its source's shape |
| `StallsExplained`, `DoneIsDone` | `StallsForAReason`, `DoneMeansDone` | `RunOK`: what a run knows against what is stored now; steps it does not know came while it was reading |
| `JobAuthority`: `TicksOnce` | `OneTickPerLoop` | `Quiet`: a job not started has left nothing behind; `GoneEmpty`: no registered loop meets a driver that is gone |
| `CountClears` | `StatusClears` | the counter is at most the number of jobs that have not reported |
| `Interrupts`: `AnsweredOnce`, `ParkedExplained` | `OneAnswer`, `ParkedForAReason` | `Hears`, `Asked`: which questions have a waiter, and that a client shows one only while attached to the session that asked; both for questions nobody has picked from the attention pane |
| `Daemon`: `RegisteredAlone` | `AloneUnlessOvertaken` | `StartsAlone`: two attaches in the middle of one session are what `overtaken` records |
| `CleanDrain` | `CleanDrainCutsNothing` | `LateUntouched`: a worker registered after the drain took its handles has been given no message, as the gate was closed before |
| `StopsNoticed` | `StopNoticed` | nothing |
| `Conversation`: `NoMessageLost` | `MessagesKept` | `LineOK`: the messages not dropped or abandoned stand in one ascending line from the first one heard to the last one sent; an action moves a border in it, takes a block out of it, or appends |
| `EveryAnswerHasItsCall`, `NoCallForgotten` | `AnswersFollowCalls`, `GapsExplained` | `TopOK`, `PausedOK`: the calls still to be dispatched, and the one a child answers, are open in the history of their frame; rounds are numbered upwards, so that a new round or seed meets no call of its name |
| `Approvals`: `ApprovalNeedsConsent`, `ApprovalAsksOnce`, `ApprovalHonoursRules` | `PassesOnConsent`, `AsksOnce`, `RulesHonoured` | `FileTruth`: a file no two writers overlapped on holds exactly the decisions that stand; `WriteOK`: at each stage of such a write, the image, the temporary file and the descriptor are what the rename will make true; the user's file has no verdict on repeats |
| `ContextWindow`: `MarkersNeverLie` | `MarkersPoint` | `HistoriesOK`: in every frame, paused ones included, behind each marker stands a later body of the same call, and every body that succeeded is in the calls table; while calls run the last result is never a marker, as it may become the prompt |
| `HandoffCarries` | `WorkingSetCarried` | `HeirOK`: what the old session showed is in the row's seeds before the successor attaches, and in its context afterwards |
| `WarmHistoriesStand` | `WarmPrefixKept` | `ClocksOK`: no prefix is younger than the last send, nor a delegation longer than its parent's prefix is old |
| `ColdRequestsLean` | `ColdRequestsPruned` | `WatermarkInv` (theorem `WatermarksTell`): nothing can be elided among the entries up to the watermark, and while calls run more has come since; a frame about to send may instead have nothing to elide at all |
| `ClientView`: `HeardAtMostOnce` | `HeardOnce` | `TransportOK`: of the places on a message's way (outbox, request, input, batch, heard, of whatever session) at most one holds it, once, unless it was taken back; `AttachedOK`: a runner that was never attached carries nothing |
| `ViewFollowsSession`, `QueuedTurnsAppear` | `SpanFollowsTurns`, `HeardIsShown` | `ToldOK`: what a runner took is shown or in the strip of the view that holds the runner, and what its session heard is shown, or an event on its way will show it; `LastOK`: the last event on its way tells what the driver does; `QuietOK`: with none on its way, the busy flag tells; the first two also for the view `/side` keeps |
| `Caffeinate`: `GlyphShowsMode` | `GlyphFollows` | `LastWord`: the last announcement on its way to a client, or with none the client's glyph, is the mode, unless the one that changed it last is about to announce; `DueKnowsMode`: then it will announce the mode; `ArmedOnce`: a request starts one watcher |

Hypotheses, and what they leave out:

- `NamesApart` (`MirrorCoherent`, `OwnerReleases`): sessions run agents of different
  names. The manager compares names only; with a shared name both properties fail
  (section 5), and `MCFileLocksSharedName.cfg` is such an instance.
- `AlwaysCommits` (`DoneLanded`, `LandsTested`, `BuildsOn`): a coder that exits 0
  has committed its work, which the code does not check. `BaseIsHead` (`BuildsOn`): the plan's base branch is
  the one checked out. Without them the properties fail (section 5).
- `SeedsDistinct` (`WatermarksTell`, `ColdRequestsLean`): a subagent seeds no call twice.
  The collector does not look (engine/seed_collector.rs:36). With
  `MCSeedLists == {<<>>, <<a, a>>}` TLC finds `ColdRequestsPruned` violated: a brief is
  swapped in for the parent's history, and brief and seeds together are exactly as long
  as the history at the last look, so that the next cold request is taken to have
  nothing new (driver.rs:1163).

Refinement and action properties (`ServesInOrder`, `ReleasedByOwner`,
`LandsWhatItTested`, `RunsAdvance`, `DoneMeansDone`, `PassesOnConsent`, `AsksOnce`,
`RulesHonoured`, `WarmPrefixKept`, `ColdRequestsPruned`) are proved step by step from
the invariant of the state before.

Model-checked only:

- liveness (`EveryWaiterServed`, `EndedJobsTold`, `MessagesSettled`, `AnswerResumes`,
  `UntilIdleEnds`; `StopEnds`, `OrphanEnds`, `SpanEnds`, `RunEnds` of the
  configurations beside the runs): the provers reason neither about `ENABLED` nor about
  fairness beyond propositional temporal logic;
- the safety properties of the configurations beside the runs (`PausesForAReason`,
  `CompletesOnGreenTip`, `HolderHasRead`);
- what folding over a list computes: that `Applied` is the fold of `After`
  (`AppliedFolds`), for lists up to a bound.

Every other invariant and action property of the runs is the conclusion of a theorem.

## 5. Deviations between code and documents

Shown by the models: with the property added to the configuration named (or, for a
configuration that has it, with that configuration), TLC finds the behaviour
described. The listed runs check only what holds.

| Property | Configuration | What happens |
|---|---|---|
| `FileLocks!ReleasedByOwner` | `MCFileLocksSharedName.cfg` | release compares the agent's name only (locks/mod.rs:144; db/locks.rs:44): of two sessions with the same agent, one gives up the other's lock |
| `FileLocks!LocksDieWithAgents` | `MCFileLocksOrphan.cfg` | `from_db` reinstates the locks of agents that died with the daemon; plan.md:1835, 1855 say they are released |
| `FileLocks!ReadsSurviveRestart` | `MCFileLocksOrphan.cfg` | `from_db` loads the read records of sessions that hold a lock only (locks/mod.rs:75), the others are lost |
| `FileLocks!RestartGrantsNoRead` | `MCFileLocks.cfg` | a read record dropped because of drift (283) stays in SQLite and returns |
| `FileLocks!ResumesOwnLocks` | `MCFileLocks.cfg` | the snapshot of a popped frame is consumed by a later frame of the same name |
| `FileLocks!LockedFilesStable` | `MCFileLocks.cfg` | a reader is permitted to write while nobody holds the lock, and writes after another agent has locked the file: permission check and write are two steps (tools/writeunlock.rs:85); tools/readlock.rs:30: "the lock proves no one else is editing it" |
| `FileLocks!RegrantsUnchangedFiles` | `MCFileLocks.cfg` | a writer comes between hashing (274) and regranting (298) |
| `ResourceLocks!KeyInsertedAbove` | `MCResourceLocksPanic.cfg` | `acquire` drops the mutex between its fast path (78) and the enqueue (86); a release in between removes the entry (134), `expect("key inserted above")` panics and poisons the map |
| `PlanExecutor!RefusedOnlyWhileRunning` | `MCPlanExecutorResume.cfg` | a plan that stopped for a human keeps the slot and is refused by itself (commands/plan.rs:104) |
| `PlanExecutor!OnePlanAtATime` | two runs of two plans | two processes find the slot free (engine/exec/mod.rs:333) |
| `PlanExecutor!RefusedWithinProject` | `ProjectOf <- TwoRepos` | the slot is global, documents call it per project |
| `PlanExecutor!StartsFresh` | `MCPlanExecutorResume.cfg` | a dead run's branch is in the way of the next run: `cleanup_all` removes worktrees, not branches |
| `PlanExecutor!FastForwardPossible` | `MCPlanExecutorShared.cfg`, `Runs = {r1}`, `MaxOutside = 0`, `MayStop = FALSE`, `BaseIsHead = FALSE`, `Steps = {a, b}` | after a conflict, a resolver that exits 0 without rebasing leaves a branch that cannot be fast-forwarded, and the run ends with an error (merge_queue.rs:154); git/mod.rs:260: "by construction it always is here" |
| `PlanExecutor!BuildsOnDependencies` | `BaseIsHead = FALSE` | steps fork from `plan.base_branch` (508) while work lands on the branch checked out: a dependent step starts without its dependencies (worktree.rs:73) |
| `PlanExecutor!DoneStepsLanded` | `AlwaysCommits = FALSE` | new files a coder did not commit are lost when the step is recorded as merged |
| `PlanExecutor!CompletesOnGreenTip` | `HeadMayFail = TRUE` | an unknown tip equals an unknown last tip, and the suite is skipped (642) |
| `PlanStore!KnowsItsPacket` | `MCPlanStore.cfg` | a step created while a run reads its plan is run with the packet `{}` and without its tests |
| `JobAuthority!Reconciled` | `MCJobAuthorityDeviations.cfg` | a fork or command that ended stays registered and uses up the cap (driver.rs:1964) |
| `JobAuthority!WorkerEnds` | `MCJobAuthorityDeviations.cfg` | a worker told to shut down waits for its forwarder as long as a job holds the channel (session_worker.rs:629) |
| `JobAuthority!CancelledLoopsStop` | `MCJobAuthority.cfg` | a tick queued before its loop was cancelled still runs a turn (engine/driver.rs:1954) |
| `Conversation!CompactionKeepsCalls` | `MCConversation.cfg` | a brief swapped in for a waiting parent has lost the call the child's report answers |
| `ContextWindow!ContentKept` | `MCContextWindowContent.cfg` | a later identical call that failed, or was refused by the loop guard, is the "newest body": good content is elided for an error |
| `Approvals!PreservesOthers` | `MCApprovals.cfg` | overlapping writers lose or resurrect decisions (approval/store.rs:583); tui/permissions_pane.rs:13: "a concurrent edit to a different entry is preserved, never clobbered" |
| `SessionRegistry!NoTurnOnDeletedRow` | `MCDaemon.cfg` | deletion asks the worker to stop and deletes the row without waiting for its turn (server.rs:1297) |
| `SessionRegistry!OneWorkerAlive` | `MCDaemon.cfg` | two attaches both miss, or a stopped worker is forgotten while its turn goes on; session_worker.rs:1: "one alive at a time" |
| `SessionRegistry!AcknowledgedIsServed` | `MCDaemon.cfg` | the gate is read before the work is sent: a message lands behind `Shutdown` (server.rs:458) |
| `SessionRegistry!HandlesAccept` | `MCDaemon.cfg` | a worker that ended by itself stays registered (registry.rs:213: "called when the worker exits") |
| `Interrupts!AnsweredStepsResume` | `MCInterrupts.cfg` | activating an item of the attention pane answers it "as a normal `ResolveInterrupt`, resuming the paused plan step" (tui/app/mod.rs:2552), but the request goes to the worker of the session the client shows, whose hub does not know the question: the row is resolved and the tool waits on (daemon/server.rs:489) |
| `ClientView!RecalledOnce` | `MCClientViewDeviations.cfg` | GOALS.md:180: "pop is destructive"; a queued message taken back with the up-arrow has been sent already (tui/app/input.rs:1333), and sent again it is heard twice |
| `ClientView!FoldsWhatWasDrained` | `MCClientViewDeviations.cfg` | the strip is cleared on `ThinkingStarted` "because that event implies the daemon just drained the queue" (tui/app/mod.rs:469), also when a message is still under way |
| `ClientView!RestoresView` | `MCClientViewDeviations.cfg` | "Restore the main-session view exactly as it was on entry" (tui/app/mod.rs:2957); a side conversation left during its turn leaves the main session busy, as the snapshot has no busy flag |
| `Caffeinate!ExplicitOnStays` | `MCCaffeinateDeviations.cfg` | `on` after `until-idle` does not store the mode it computed (caffeinate.rs:600), and the watcher turns it off; 562 says it must not |
| `Caffeinate!GlyphInLockstep` | `MCCaffeinateDeviations.cfg` | changes are announced outside the mutex, in any order (server.rs:837); GOALS.md:110: "in lockstep" |
| `Caffeinate!EndsOnceIdle` | `MCCaffeinateDeviations.cfg` | a driver that ends with an error stays "processing" for ever (session_worker.rs:471), and until-idle does not end |

Seen while modelling, without a property:

- Plans: with outside commits between the last suite and completion, the tip of a
  completed plan may be untested; plans of other projects occupy the slot; a
  step appended to a running plan is not run although the plan becomes done; an
  edge to a step the run does not know stalls it; finding a free branch for a
  duplicate is check-then-act (commands/plan.rs:515).
- Jobs: when the driver ends with a command alive, the dropped kill channel makes
  `run_background` (background.rs:180) poll a branch that is ready at once until
  the command ends; cancelling the leaked entry of a job that ended counts
  `active_jobs` down a second time, which can hide a running job.
- Conversation: after a cancellation or a closed gate at a request that follows
  `Continue`, the last tool result is lost with the prompt (driver.rs:2243);
  calls behind a structural call are never answered; a guidance message can stand
  between a call and its result; messages folded in mid-turn skip the injection
  guard; a cancellation with an interactive child on top leaves the child there
  without its brief; any other error ends the driver without `AgentIdle`, and the
  registry keeps its handle; a ctrl+c before the run has its token is lost; a
  request in back-off ignores a drain.
- Context: `derive_seed_tools` says "ordered by last use" and orders by first; the
  seeds are deleted before the first message carries them, so a worker that
  restarts has lost them; a successor's seeds are not in its own calls table, so a
  second compaction drops them; the parent's prune after a delegation goes by the
  clock of the whole session; call ids repeated across turns mix
  identities; a brief that, with seeds
  repeated, is exactly as long as the history at the last look skips one prune.
- Interrupts: a client that attaches later finds only plan questions; approval
  prompts of plan sessions are not marked as such; a newer dialog replaces an
  older one; a full outbound channel drops the answer; `InterruptResolved` is
  ignored by the client; a second answer can wake a tool with a value its row
  does not have; a worker forwards messages to a driver that waits for an answer
  behind them; after a crash open rows stay that nobody waits for.
- Daemon: an exiting daemon removes socket and pid file of the one that took its
  place (daemon/mod.rs:415); the shutdown is requested a second time after the accept loop
  (daemon/mod.rs:391), which turns every first stop into a forced one, and the
  drain does not look; `send_work` of a drain has no deadline; `stop` removes the
  files after 2 s while a drain may take 30 s; two starters that both find a
  stale socket run two daemons on one database.
- Client: a dropped runner leaves its event task and its connection alive, and the
  session it was attached to still counts an interactive client; `DaemonDraining`
  does not pass the runner's session filter, so that the composer's gate never
  closes; a message that joins a turn but was not handed over stays in the strip
  and is shown as a turn of the next round; a message queued behind a turn that
  ends and a fresh one sent before `ThinkingStarted` are shown in the reverse order;
  a runner whose connection has ended is not replaced until `/new` or a resume;
  after a lag nothing is resent (daemon/server.rs:360).
- Caffeinate: the client discards the reply to its request, and the broadcast has
  no text, so that a missing mechanism is silent (daemon/server.rs:855: "never
  silent"); `until-idle` asked for twice starts a second watcher (872: "without
  stacking watchers"); a turn before its `ThinkingStarted` has been forwarded and
  one of an archived session count as idle.
- Conversation: when the agent a primary swap names cannot be loaded, the stored
  agent and the live one differ.
- Approvals: an approvals file that cannot be parsed counts as empty and is
  overwritten; a command whose decision cannot be stored fails although it was
  approved, a repeat applies once; the count "step N of M" counts a repeated key
  twice.

## 6. What is not modelled

- Parsing, formatting and pure I/O: configuration, providers, credentials,
  redaction, skills, packages, code intelligence, statistics, the text matchers of
  `editunlock`, the classification of shell commands, repair of malformed tool
  calls. They keep no state that interleaves; tests cover them.
- The terminal user interface beyond its view of a session (`ClientView`) and its
  dialog slot and attention pane (`Interrupts`): layout, rendering, editing keys,
  settings pages.
- Sessions and persistence: append-only records; forks copy rows.
- Handles of noninteractive subagents, a table written by one task.

The modules cover a small share of the lines of the repository, since most of
these are presentation, parsing, provider catalogues and tests; they cover the
code in which steps of several actors, crashes and full channels meet.

## 7. Plan

Modelled in this order: resource locks, file locks, plan executor, jobs;
conversation, interrupts, registry, daemon, stored plans, approvals, context, client view, caffeinate.
Proved in this order: resource locks, daemon and registry, file locks, plan
executor, jobs, interrupts, stored plans, conversation; caffeinate, approvals, context,
client view.

What is left, and would need more than a further proof:

1. `PausesForAReason` and `CompletesOnGreenTip` of `PlanExecutor` as theorems: the
   first needs why each stage of a run may stop, the second that a tip without a suite
   is the tip of the last one.
2. Several concurrent calls of one session in `Approvals`, an editor outside the agents
   in `FileLocks`, the iterations inside a fork in `JobAuthority`.
3. Components without a module (section 6), the sessions' rows and forks first.
